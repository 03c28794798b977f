--------------------------- MODULE IngestorProofs ---------------------------
(***************************************************************************)
(* Safety of the ingestor for every set of games and pitches and every     *)
(* bound.  The games do not share state, so the invariant is stated for    *)
(* one game and a step of one leaves the others alone.                     *)
(***************************************************************************)
EXTENDS Ingestor, TLAPS

(***************************************************************************)
(* Type correctness.                                                       *)
(***************************************************************************)
LEMMA TypeInit == Init => TypeOK
BY BoundsAssumption DEF Init, TypeOK, Cursors

LEMMA TypeStep == TypeOK /\ [Next]_vars => TypeOK'
<1> SUFFICES ASSUME TypeOK, [Next]_vars PROVE TypeOK'
  OBVIOUS
<1>0. Fault => faults' \in 0 .. MaxFaults
  BY BoundsAssumption DEF Fault, TypeOK
<1>1. ASSUME NEW g \in Games, NEW k \in Pitches, AppendRecord(g, k)
      PROVE  raw' \in [Games -> Seq(Pitches)]
  <2>1. raw \in [Games -> Seq(Pitches)] /\ raw[g] \in Seq(Pitches)
    BY DEF TypeOK
  <2>2. Append(raw[g], k) \in Seq(Pitches)
    BY <2>1
  <2> QED
    BY <1>1, <2>1, <2>2 DEF AppendRecord
<1>2. ASSUME NEW g \in Games, AbandonPoll(g)
      PROVE  /\ task' \in [Games -> {"absent", "done"} \cup Running]
             /\ mem' \in [Games -> Cursors] /\ new' \in [Games -> Cursors]
             /\ todo' \in [Games -> SUBSET Pitches] /\ clean' \in [Games -> BOOLEAN]
  BY <1>2 DEF AbandonPoll, TypeOK, Running
<1>3. CASE Reconcile
  BY <1>3 DEF Reconcile, TypeOK, Running, mlbVars, pollVars
<1>4. CASE Crash
  <2>1. crashes' \in 0 .. MaxCrashes
    BY <1>4, BoundsAssumption DEF Crash, TypeOK
  <2> QED
    BY <1>4, <2>1 DEF Crash, TypeOK, Cursors, mlbVars
<1>5. CASE Restart
  BY <1>5 DEF Restart, TypeOK, mlbVars, pollVars
<1>6. ASSUME NEW g \in Games, GameStart(g) PROVE TypeOK'
  BY <1>6 DEF GameStart, TypeOK, pollVars
<1>7. ASSUME NEW g \in Games, GameEnd(g) PROVE TypeOK'
  BY <1>7 DEF GameEnd, TypeOK, pollVars
<1>8. ASSUME NEW g \in Games, Rollover(g) PROVE TypeOK'
  BY <1>8 DEF Rollover, TypeOK, pollVars
<1>9. ASSUME NEW g \in Games, NEW k \in Pitches, Pitch(g, k) PROVE TypeOK'
  <2>1. feed' \in [Games -> SUBSET Pitches]
    BY <1>9 DEF Pitch, TypeOK
  <2>2. late' = late \/ late' = [late EXCEPT ![g] = @ \cup {k}]
    BY <1>9 DEF Pitch
  <2>3. late' \in [Games -> SUBSET Pitches]
    <3>1. late \in [Games -> SUBSET Pitches] /\ late[g] \cup {k} \in SUBSET Pitches
      BY DEF TypeOK
    <3> QED
      BY <2>2, <3>1
  <2> QED
    BY <1>9, <2>1, <2>3 DEF Pitch, TypeOK, pollVars
<1>10. ASSUME NEW g \in Games, LoadCursor(g) PROVE TypeOK'
  BY <1>10 DEF LoadCursor, TypeOK, Running, mlbVars
<1>11. ASSUME NEW g \in Games, LoadCursorFails(g) PROVE TypeOK'
  BY <1>0, <1>11 DEF LoadCursorFails, TypeOK, mlbVars, pollVars
<1>12. ASSUME NEW g \in Games, Fetch(g) PROVE TypeOK'
  <2>1. faults' \in 0 .. MaxFaults
    BY <1>0, <1>12 DEF Fetch, TypeOK
  <2>2. row' \in [Games -> {"none", "scheduled", "live", "final"}]
    BY <1>12 DEF Fetch, Upsert, TypeOK
  <2>3. Fresh(g) \subseteq Pitches
    BY DEF Fresh, TypeOK
  <2> QED
    BY <1>12, <2>1, <2>2, <2>3 DEF Fetch, TypeOK, Running, Polling, mlbVars
<1>13. ASSUME NEW g \in Games, NEW k \in Pitches, Publish(g, k) PROVE TypeOK'
  BY <1>1, <1>13 DEF Publish, TypeOK, Running, Polling, Cursors, mlbVars
<1>14. ASSUME NEW g \in Games, NEW k \in Pitches, PublishFails(g, k) PROVE TypeOK'
  <2>1. raw' \in [Games -> Seq(Pitches)]
    BY <1>1, <1>14 DEF PublishFails, TypeOK
  <2> QED
    BY <1>0, <1>2, <1>14, <2>1 DEF PublishFails, TypeOK, mlbVars
<1>15. ASSUME NEW g \in Games, SaveCursor(g) PROVE TypeOK'
  <2>1. new[g] \in Cursors
    BY DEF TypeOK
  <2>2. redis' \in [Games -> Cursors]
    BY <1>15, <2>1 DEF SaveCursor, TypeOK
  <2>3. mem' = mem \/ mem' = [mem EXCEPT ![g] = new[g]]
    BY <1>15 DEF SaveCursor
  <2>4. mem' \in [Games -> Cursors]
    BY <2>1, <2>3 DEF TypeOK
  <2>5. \/ task' = [task EXCEPT ![g] = "idle"]
        \/ task' = [task EXCEPT ![g] = "publishing"]
    BY <1>15 DEF SaveCursor
  <2>6. task' \in [Games -> {"absent", "done"} \cup Running]
    BY <2>5 DEF TypeOK, Running, Polling
  <2>7. UNCHANGED <<state, listed, feed, late, raw, row, up, new, todo, clean,
                    faults, crashes>>
    BY <1>15 DEF SaveCursor, mlbVars
  <2> QED
    BY <2>2, <2>4, <2>6, <2>7 DEF TypeOK
<1>16. ASSUME NEW g \in Games, SaveFails(g) PROVE TypeOK'
  <2>1. redis' \in [Games -> Cursors]
    BY <1>16 DEF SaveFails, TypeOK
  <2> QED
    BY <1>0, <1>2, <1>16, <2>1 DEF SaveFails, TypeOK, mlbVars
<1>17. ASSUME NEW g \in Games, LoseCursor(g) PROVE TypeOK'
  <2>1. redis' \in [Games -> Cursors]
    BY <1>17 DEF LoseCursor, TypeOK, Cursors
  <2> QED
    BY <1>0, <1>17, <2>1 DEF LoseCursor, TypeOK, mlbVars, pollVars
<1>18. CASE UNCHANGED vars
  BY <1>18 DEF vars, TypeOK
<1> QED
  BY <1>3, <1>4, <1>5, <1>6, <1>7, <1>8, <1>9, <1>10, <1>11, <1>12, <1>13,
     <1>14, <1>15, <1>16, <1>17, <1>18 DEF Next

\* Every variable of the ingestor and its stores keeps its type.
THEOREM TypeCorrect == Spec => []TypeOK
BY TypeInit, TypeStep, PTL DEF Spec

(***************************************************************************)
(* The order of the pitches.                                               *)
(***************************************************************************)
LEMMA AfterIsOrder ==
    ASSUME NEW j \in Pitches, NEW k \in Pitches
    PROVE  IsAfter(k, j) <=> j = k \/ Before(j, k)
<1>1. j \in Nat \X Nat /\ k \in Nat \X Nat
  BY PitchesAssumption
<1> QED
  BY <1>1 DEF IsAfter, Before

LEMMA OrderIsTotal ==
    ASSUME NEW j \in Pitches, NEW k \in Pitches
    PROVE  IsAfter(k, j) \/ Before(k, j)
<1>1. j \in Nat \X Nat /\ k \in Nat \X Nat
  BY PitchesAssumption
<1> QED
  BY <1>1 DEF IsAfter, Before

LEMMA AfterIsTransitive ==
    ASSUME NEW i \in Pitches, NEW j \in Pitches, NEW k \in Pitches,
           IsAfter(j, i), ~ IsAfter(j, k)
    PROVE  IsAfter(k, i)
<1>1. i \in Nat \X Nat /\ j \in Nat \X Nat /\ k \in Nat \X Nat
  BY PitchesAssumption
<1> QED
  BY <1>1 DEF IsAfter

LEMMA AppendPublishes ==
    ASSUME TypeOK, NEW g \in Games, NEW k \in Pitches, AppendRecord(g, k)
    PROVE  /\ Published(g)' = Published(g) \cup {k}
           /\ \A h \in Games : h # g => raw'[h] = raw[h]
           /\ Len(raw'[g]) = Len(raw[g]) + 1
           /\ raw'[g][Len(raw[g]) + 1] = k
           /\ \A i \in 1 .. Len(raw[g]) : raw'[g][i] = raw[g][i]
<1>1. raw \in [Games -> Seq(Pitches)] /\ raw[g] \in Seq(Pitches)
  BY DEF TypeOK
<1>2. raw'[g] = Append(raw[g], k) /\ \A h \in Games : h # g => raw'[h] = raw[h]
  BY <1>1 DEF AppendRecord
<1>3. /\ Len(raw'[g]) = Len(raw[g]) + 1
      /\ raw'[g][Len(raw[g]) + 1] = k
      /\ \A i \in 1 .. Len(raw[g]) : raw'[g][i] = raw[g][i]
      /\ DOMAIN raw'[g] = 1 .. Len(raw[g]) + 1 /\ DOMAIN raw[g] = 1 .. Len(raw[g])
      /\ Len(raw[g]) \in Nat
  BY <1>1, <1>2
<1>4. Range(raw'[g]) = Range(raw[g]) \cup {k}
  <2>1. \A i \in DOMAIN raw'[g] : raw'[g][i] \in Range(raw[g]) \cup {k}
    BY <1>3 DEF Range
  <2>2. \A i \in DOMAIN raw[g] : i \in DOMAIN raw'[g] /\ raw'[g][i] = raw[g][i]
    BY <1>3
  <2>3. Len(raw[g]) + 1 \in DOMAIN raw'[g]
    BY <1>3
  <2> QED  BY <1>3, <2>1, <2>2, <2>3 DEF Range
<1> QED
  BY <1>2, <1>3, <1>4 DEF Published

(***************************************************************************)
(* No cursor runs ahead of what was published.                             *)
(***************************************************************************)
\* The pitches the promise is about.
Promised(g) == feed[g] \ late[g]

\* All the promised pitches cursor c covers are in the raw topic.
Honest(g, c) == \A k \in Promised(g) : Covers(c, k) => k \in Published(g)

\* What a game's variables hold was listed by the feed.
Listed(g) ==
    /\ late[g] \subseteq feed[g] /\ todo[g] \subseteq feed[g]
    /\ Published(g) \subseteq feed[g]
    /\ redis[g] \in feed[g] \cup {NoCursor}
    /\ mem[g] \in feed[g] \cup {NoCursor}
    /\ new[g] \in feed[g] \cup {NoCursor}

\* The persisted cursor, the task's and the one about to be saved are honest.
HonestCursors(g) ==
    /\ Honest(g, redis[g]) /\ Honest(g, mem[g])
    /\ task[g] = "saving" => Honest(g, new[g])

\* Before a pitch a poll is still to publish, every promised one is published or
\* still to be published by this poll.
NoHole(g) ==
    \A k \in todo[g] : \A j \in Promised(g) :
        Before(j, k) => j \in todo[g] \cup Published(g)

\* NothingSkipped, of one game.
SeenInOrder(g) ==
    \A i \in 1 .. Len(raw[g]) : \A j \in Promised(g) :
        Before(j, raw[g][i]) => \E h \in 1 .. i - 1 : raw[g][h] = j

GInv(g) == Listed(g) /\ HonestCursors(g) /\ NoHole(g) /\ SeenInOrder(g)

\* A step that leaves a game alone, or only forgets its work, keeps GInv.
LEMMA Untouched ==
    ASSUME NEW g \in Games, GInv(g),
           feed'[g] = feed[g], late'[g] = late[g], raw'[g] = raw[g],
           redis'[g] = redis[g],
           mem'[g] = mem[g], new'[g] = new[g], todo'[g] = todo[g],
           task'[g] = "saving" => task[g] = "saving"
    PROVE  GInv(g)'
BY DEF GInv, Listed, HonestCursors, Honest, NoHole, SeenInOrder, Promised, Published

LEMMA GInitial == Init => \A g \in Games : GInv(g)
<1> SUFFICES ASSUME Init, NEW g \in Games PROVE GInv(g)
  OBVIOUS
<1>1. /\ feed[g] = {} /\ late[g] = {} /\ todo[g] = {} /\ raw[g] = <<>>
      /\ redis[g] = NoCursor /\ mem[g] = NoCursor /\ new[g] = NoCursor
      /\ task[g] = "absent"
  BY DEF Init
<1>2. Published(g) = {} /\ Len(raw[g]) = 0
  BY <1>1 DEF Published, Range
<1> QED
  BY <1>1, <1>2 DEF GInv, Listed, HonestCursors, Honest, NoHole, SeenInOrder, Promised

LEMMA PitchKeeps ==
    ASSUME TypeOK, NEW g \in Games, GInv(g), NEW k \in Pitches, Pitch(g, k)
    PROVE  GInv(g)'
<1>1. /\ feed'[g] = feed[g] \cup {k} /\ k \notin feed[g]
      /\ IF \E j \in feed[g] : Before(k, j)
         THEN late'[g] = late[g] \cup {k} ELSE late'[g] = late[g]
  BY DEF Pitch, TypeOK
<1>2. UNCHANGED <<raw, redis, mem, new, todo, task>>
  BY DEF Pitch, pollVars
<1>3. feed[g] \subseteq Pitches
  BY DEF TypeOK
\* The new pitch, if promised, is the last one of the feed.
<1>4. \A j \in Promised(g)' : j \in Promised(g) \/ (j = k /\ \A i \in feed[g] : ~ Before(k, i))
  BY <1>1 DEF Promised
<1>5. Listed(g)'
  BY <1>1, <1>2 DEF GInv, Listed, Published
<1>6. ASSUME NEW c \in feed[g] \cup {NoCursor}, Honest(g, c) PROVE Honest(g, c)'
  <2> SUFFICES ASSUME NEW j \in Promised(g)', Covers(c, j) PROVE j \in Published(g)
    BY <1>2 DEF Honest, Published, Covers, IsAfter
  <2>1. CASE j \in Promised(g)
    BY <1>6, <2>1 DEF Honest
  <2>2. CASE j = k /\ \A i \in feed[g] : ~ Before(k, i)
    <3>1. c \in Pitches /\ IsAfter(c, k) /\ c \in feed[g]
      BY <1>3, <2>2 DEF Covers
    <3>2. c = k
      BY <2>2, <3>1, AfterIsOrder
    <3> QED
      BY <1>1, <3>1, <3>2
  <2> QED
    BY <1>4, <2>1, <2>2
<1>7. HonestCursors(g)'
  BY <1>2, <1>6 DEF GInv, Listed, HonestCursors, Honest
<1>8. NoHole(g)'
  BY <1>2, <1>4 DEF GInv, Listed, NoHole, Published
<1>9. SeenInOrder(g)'
  <2>1. \A i \in 1 .. Len(raw[g]) : raw[g][i] \in feed[g]
    <3>1. raw[g] \in Seq(Pitches)
      BY DEF TypeOK
    <3> QED
      BY <3>1 DEF GInv, Listed, Published, Range
  <2> QED
    BY <1>2, <1>4, <2>1 DEF GInv, SeenInOrder
<1> QED
  BY <1>5, <1>7, <1>8, <1>9 DEF GInv

\* The record of the next pitch of the poll reaches the log.
LEMMA RecordKeeps ==
    ASSUME TypeOK, NEW g \in Games, GInv(g), NEW k \in Pitches,
           IsNext(g, k), AppendRecord(g, k), UNCHANGED <<feed, late>>
    PROVE  /\ Published(g)' = Published(g) \cup {k}
           /\ SeenInOrder(g)'
           /\ \A c \in feed[g] \cup {NoCursor} : Honest(g, c) => Honest(g, c)'
           /\ Honest(g, k)'
<1>1. Published(g)' = Published(g) \cup {k}
  BY AppendPublishes
<1>2. Promised(g)' = Promised(g) /\ Promised(g) \subseteq Pitches
  BY DEF Promised, TypeOK
<1>3. \A j \in Promised(g) : Before(j, k) => j \in Published(g)
  BY DEF IsNext, GInv, NoHole
<1>4. SeenInOrder(g)'
  <2> SUFFICES ASSUME NEW i \in 1 .. Len(raw'[g]), NEW j \in Promised(g),
                      Before(j, raw'[g][i])
               PROVE  \E h \in 1 .. i - 1 : raw'[g][h] = j
    BY <1>2 DEF SeenInOrder
  <2>1. raw[g] \in Seq(Pitches) /\ Len(raw[g]) \in Nat /\ DOMAIN raw[g] = 1 .. Len(raw[g])
    BY DEF TypeOK
  <2>2. /\ Len(raw'[g]) = Len(raw[g]) + 1 /\ raw'[g][Len(raw[g]) + 1] = k
        /\ \A h \in 1 .. Len(raw[g]) : raw'[g][h] = raw[g][h]
    BY AppendPublishes
  <2>3. CASE i \in 1 .. Len(raw[g])
    <3>1. PICK h \in 1 .. i - 1 : raw[g][h] = j
      BY <2>2, <2>3 DEF GInv, SeenInOrder
    <3> QED
      BY <2>1, <2>2, <2>3, <3>1
  <2>4. CASE i = Len(raw[g]) + 1
    <3>1. j \in Published(g)
      BY <1>3, <2>2, <2>4
    <3>2. PICK h \in 1 .. Len(raw[g]) : raw[g][h] = j
      BY <2>1, <3>1 DEF Published, Range
    <3> QED
      BY <2>1, <2>2, <2>4, <3>2
  <2> QED
    BY <2>1, <2>2, <2>3, <2>4
<1>5. \A c \in feed[g] \cup {NoCursor} : Honest(g, c) => Honest(g, c)'
  BY <1>1, <1>2 DEF Honest, Covers, IsAfter
<1>6. Honest(g, k)'
  <2> SUFFICES ASSUME NEW j \in Promised(g), IsAfter(k, j) PROVE j \in Published(g) \cup {k}
    BY <1>1, <1>2 DEF Honest, Covers, IsAfter
  <2> QED
    BY <1>2, <1>3, AfterIsOrder
<1> QED
  BY <1>1, <1>4, <1>5, <1>6

LEMMA PublishKeeps ==
    ASSUME TypeOK, NEW g \in Games, GInv(g), NEW k \in Pitches, Publish(g, k)
    PROVE  GInv(g)'
<1>1. /\ IsNext(g, k) /\ AppendRecord(g, k) /\ UNCHANGED <<feed, late, redis, mem>>
      /\ new'[g] = k /\ todo'[g] = todo[g] \ {k} /\ task'[g] = "saving"
  BY DEF Publish, TypeOK, mlbVars
<1>2. /\ Published(g)' = Published(g) \cup {k} /\ SeenInOrder(g)' /\ Honest(g, k)'
      /\ \A c \in feed[g] \cup {NoCursor} : Honest(g, c) => Honest(g, c)'
  BY <1>1, RecordKeeps
<1>3. k \in feed[g]
  BY <1>1 DEF IsNext, GInv, Listed
<1>4. Listed(g)'
  BY <1>1, <1>2, <1>3 DEF GInv, Listed
<1>5. HonestCursors(g)'
  <2>1. \A c \in {redis[g], mem[g]} : Honest(g, c)'
    BY <1>2 DEF GInv, Listed, HonestCursors
  <2> QED
    BY <1>1, <1>2, <2>1 DEF HonestCursors, Honest
<1>6. NoHole(g)'
  BY <1>1, <1>2 DEF GInv, NoHole, Promised
<1> QED
  BY <1>2, <1>4, <1>5, <1>6 DEF GInv

LEMMA PublishFailsKeeps ==
    ASSUME TypeOK, NEW g \in Games, GInv(g), NEW k \in Pitches, PublishFails(g, k)
    PROVE  GInv(g)'
<1>1. /\ IsNext(g, k) /\ (AppendRecord(g, k) \/ UNCHANGED raw)
      /\ UNCHANGED <<feed, late, redis, mem>>
      /\ new'[g] = mem[g] /\ todo'[g] = {} /\ task'[g] = "idle"
  BY DEF PublishFails, AbandonPoll, TypeOK, mlbVars
<1>2. k \in feed[g]
  BY <1>1 DEF IsNext, GInv, Listed
<1>3. /\ Published(g)' \in {Published(g), Published(g) \cup {k}} /\ SeenInOrder(g)'
      /\ \A c \in feed[g] \cup {NoCursor} : Honest(g, c) => Honest(g, c)'
  <2>1. CASE AppendRecord(g, k)
    BY <1>1, <2>1, RecordKeeps
  <2>2. CASE UNCHANGED raw
    BY <1>1, <2>2 DEF GInv, SeenInOrder, Honest, Promised, Published, Covers, IsAfter
  <2> QED
    BY <1>1, <2>1, <2>2
<1>4. Listed(g)'
  BY <1>1, <1>2, <1>3 DEF GInv, Listed
<1>5. HonestCursors(g)'
  <2>1. \A c \in {redis[g], mem[g]} : Honest(g, c)'
    BY <1>3 DEF GInv, Listed, HonestCursors
  <2> QED
    BY <1>1, <2>1 DEF HonestCursors, Honest
<1>6. NoHole(g)'
  BY <1>1 DEF NoHole
<1> QED
  BY <1>3, <1>4, <1>5, <1>6 DEF GInv

\* The steps of a game's task that write no record.
LEMMA TaskKeeps ==
    ASSUME TypeOK, NEW g \in Games, GInv(g),
           LoadCursor(g) \/ Fetch(g) \/ SaveCursor(g) \/ SaveFails(g) \/ LoseCursor(g)
    PROVE  GInv(g)'
<1>1. UNCHANGED <<feed, late, raw>>
  BY DEF LoadCursor, Fetch, SaveCursor, SaveFails, LoseCursor, mlbVars
<1>2. SeenInOrder(g)'
  BY <1>1 DEF GInv, SeenInOrder, Promised
<1>4. Honest(g, NoCursor)
  BY DEF Honest, Covers
<1>5. CASE LoadCursor(g)
  <2>1. /\ mem'[g] = redis[g] /\ task'[g] = "idle" /\ UNCHANGED <<redis, new, todo>>
    BY <1>5 DEF LoadCursor, TypeOK
  <2> QED
    BY <1>1, <1>2, <2>1 DEF GInv, Listed, HonestCursors, Honest, NoHole, Promised, Published
<1>6. CASE Fetch(g)
  <2>1. /\ UNCHANGED <<redis, mem>> /\ new'[g] = mem[g] /\ todo'[g] = Fresh(g)
        /\ task'[g] # "saving"
    BY <1>6 DEF Fetch, TypeOK
  \* A promised pitch not in this poll is covered by mem, hence published.
  <2>2. \A j \in Promised(g) : j \in Fresh(g) \cup Published(g)
    BY DEF Fresh, Promised, GInv, HonestCursors, Honest
  <2> QED
    BY <1>1, <1>2, <2>1, <2>2
       DEF GInv, Listed, HonestCursors, Honest, NoHole, Promised, Published, Fresh
<1>7. CASE SaveCursor(g)
  <2>1. /\ task[g] = "saving" /\ redis'[g] = new[g] /\ mem'[g] \in {mem[g], new[g]}
        /\ task'[g] # "saving" /\ UNCHANGED <<new, todo>>
    BY <1>7 DEF SaveCursor, TypeOK
  <2> QED
    BY <1>1, <1>2, <2>1 DEF GInv, Listed, HonestCursors, Honest, NoHole, Promised, Published
<1>8. CASE SaveFails(g)
  <2>1. /\ task[g] = "saving" /\ redis'[g] \in {redis[g], new[g]} /\ UNCHANGED mem
        /\ new'[g] = mem[g] /\ todo'[g] = {} /\ task'[g] # "saving"
    BY <1>8 DEF SaveFails, AbandonPoll, TypeOK
  <2> QED
    BY <1>1, <1>2, <2>1 DEF GInv, Listed, HonestCursors, Honest, NoHole, Promised, Published
<1>9. CASE LoseCursor(g)
  <2>1. redis'[g] = NoCursor /\ UNCHANGED <<mem, new, todo, task>>
    BY <1>9 DEF LoseCursor, TypeOK, pollVars
  <2> QED
    BY <1>1, <1>2, <1>4, <2>1
       DEF GInv, Listed, HonestCursors, Honest, NoHole, Promised, Published
<1> QED
  BY <1>5, <1>6, <1>7, <1>8, <1>9

\* A step of one game's task, or of its feed, and every other game.
LEMMA OthersUntouched ==
    ASSUME TypeOK, NEW g \in Games, NEW h \in Games, h # g,
           \/ \E k \in Pitches : Pitch(g, k) \/ Publish(g, k) \/ PublishFails(g, k)
           \/ LoadCursor(g) \/ LoadCursorFails(g) \/ Fetch(g)
           \/ SaveCursor(g) \/ SaveFails(g) \/ LoseCursor(g)
    PROVE  /\ feed'[h] = feed[h] /\ late'[h] = late[h] /\ raw'[h] = raw[h]
           /\ redis'[h] = redis[h] /\ mem'[h] = mem[h] /\ new'[h] = new[h]
           /\ todo'[h] = todo[h] /\ task'[h] = task[h] /\ clean'[h] = clean[h]
<1>1. ASSUME NEW k \in Pitches, Pitch(g, k)
      PROVE  /\ feed'[h] = feed[h] /\ late'[h] = late[h]
             /\ UNCHANGED <<raw, redis, mem, new, todo, task, clean>>
  BY <1>1 DEF Pitch, TypeOK, pollVars
<1>2. ASSUME NEW k \in Pitches, Publish(g, k)
      PROVE  /\ raw'[h] = raw[h] /\ new'[h] = new[h] /\ todo'[h] = todo[h]
             /\ task'[h] = task[h] /\ UNCHANGED <<feed, late, redis, mem, clean>>
  BY <1>2 DEF Publish, AppendRecord, TypeOK, mlbVars
<1>3. ASSUME AbandonPoll(g)
      PROVE  /\ new'[h] = new[h] /\ todo'[h] = todo[h] /\ task'[h] = task[h]
             /\ clean'[h] = clean[h] /\ UNCHANGED mem
  BY <1>3 DEF AbandonPoll, TypeOK
<1>4. ASSUME NEW k \in Pitches, PublishFails(g, k)
      PROVE  raw'[h] = raw[h] /\ UNCHANGED <<feed, late, redis>>
  BY <1>4 DEF PublishFails, AppendRecord, TypeOK, mlbVars
<1>5. SaveFails(g) => redis'[h] = redis[h] /\ UNCHANGED <<feed, late, raw>>
  BY DEF SaveFails, TypeOK, mlbVars
<1>6. SaveCursor(g) => /\ redis'[h] = redis[h] /\ mem'[h] = mem[h] /\ task'[h] = task[h]
                       /\ UNCHANGED <<feed, late, raw, new, todo, clean>>
  BY DEF SaveCursor, TypeOK, mlbVars
<1>7. LoadCursor(g) => /\ mem'[h] = mem[h] /\ task'[h] = task[h]
                       /\ UNCHANGED <<feed, late, raw, redis, new, todo, clean>>
  BY DEF LoadCursor, TypeOK, mlbVars
<1>8. LoadCursorFails(g) => /\ task'[h] = task[h]
                            /\ UNCHANGED <<feed, late, raw, redis, mem, new, todo, clean>>
  BY DEF LoadCursorFails, TypeOK, mlbVars, pollVars
<1>9. Fetch(g) => /\ new'[h] = new[h] /\ todo'[h] = todo[h] /\ task'[h] = task[h]
                  /\ UNCHANGED <<feed, late, raw, redis, mem, clean>>
  BY DEF Fetch, TypeOK, mlbVars
<1>10. LoseCursor(g) => /\ redis'[h] = redis[h] /\ clean'[h] = clean[h]
                        /\ UNCHANGED <<feed, late, raw, mem, new, todo, task>>
  BY DEF LoseCursor, TypeOK, mlbVars, pollVars
<1>11. (\E k \in Pitches : PublishFails(g, k)) \/ SaveFails(g) => AbandonPoll(g)
  BY DEF PublishFails, SaveFails
<1> QED
  BY <1>1, <1>2, <1>3, <1>4, <1>5, <1>6, <1>7, <1>8, <1>9, <1>10, <1>11

LEMMA GStep ==
    TypeOK /\ [Next]_vars /\ (\A g \in Games : GInv(g)) => \A g \in Games : GInv(g)'
<1> SUFFICES ASSUME TypeOK, [Next]_vars, \A g \in Games : GInv(g), NEW h \in Games
             PROVE  GInv(h)'
  OBVIOUS
<1>1. ASSUME UNCHANGED <<feed, late, raw, redis, mem, new, todo>>,
             task'[h] = "saving" => task[h] = "saving"
      PROVE  GInv(h)'
  BY <1>1, Untouched
<1>2. CASE Reconcile
  <2>1. task'[h] = "saving" => task[h] = "saving"
    BY <1>2 DEF Reconcile
  <2> QED
    BY <1>1, <1>2, <2>1 DEF Reconcile, mlbVars, pollVars
<1>3. CASE Restart
  BY <1>1, <1>3 DEF Restart, mlbVars, pollVars
<1>4. CASE Crash
  <2>1. /\ UNCHANGED <<feed, late, raw, redis>> /\ task'[h] = "absent"
        /\ mem'[h] = NoCursor /\ new'[h] = NoCursor /\ todo'[h] = {}
    BY <1>4 DEF Crash, mlbVars
  <2> QED
    BY <2>1 DEF GInv, Listed, HonestCursors, Honest, Covers, NoHole, SeenInOrder,
                Promised, Published
<1>5. CASE UNCHANGED vars
  BY <1>1, <1>5 DEF vars
<1>6. ASSUME NEW g \in Games, GameStart(g) \/ GameEnd(g) \/ Rollover(g) PROVE GInv(h)'
  BY <1>1, <1>6 DEF GameStart, GameEnd, Rollover, pollVars
<1>7. ASSUME NEW g \in Games, g # h,
             \/ \E k \in Pitches : Pitch(g, k) \/ Publish(g, k) \/ PublishFails(g, k)
             \/ LoadCursor(g) \/ LoadCursorFails(g) \/ Fetch(g)
             \/ SaveCursor(g) \/ SaveFails(g) \/ LoseCursor(g)
      PROVE  GInv(h)'
  BY <1>7, OthersUntouched, Untouched
<1>8. ASSUME NEW k \in Pitches, Pitch(h, k) \/ Publish(h, k) \/ PublishFails(h, k)
      PROVE  GInv(h)'
  BY <1>8, PitchKeeps, PublishKeeps, PublishFailsKeeps
<1>9. CASE LoadCursorFails(h)
  <2>1. task'[h] # "saving"
    BY <1>9 DEF LoadCursorFails, TypeOK
  <2> QED
    BY <1>1, <1>9, <2>1 DEF LoadCursorFails, mlbVars, pollVars
<1>10. CASE LoadCursor(h) \/ Fetch(h) \/ SaveCursor(h) \/ SaveFails(h) \/ LoseCursor(h)
  BY <1>10, TaskKeeps
<1> QED
  BY <1>2, <1>3, <1>4, <1>5, <1>6, <1>7, <1>8, <1>9, <1>10 DEF Next

LEMMA GAlways == Spec => [](TypeOK /\ \A g \in Games : GInv(g))
<1>1. Init => TypeOK /\ \A g \in Games : GInv(g)
  BY TypeInit, GInitial
<1>2. (TypeOK /\ \A g \in Games : GInv(g)) /\ [Next]_vars
         => (TypeOK /\ \A g \in Games : GInv(g))'
  BY TypeStep, GStep
<1> QED
  BY <1>1, <1>2, PTL DEF Spec

\* The cursor in Redis never covers a promised pitch that is not in the raw
\* topic: no failure, crash or restart can make the ingestor skip one.
THEOREM CursorNeverSkips == Spec => []CursorCovers
<1>1. (\A g \in Games : GInv(g)) => CursorCovers
  BY DEF GInv, HonestCursors, Honest, Promised, CursorCovers
<1> QED
  BY <1>1, GAlways, PTL

\* The raw topic shows each game's promised pitches for the first time in the
\* order of the feed.
THEOREM FirstSeenInOrder == Spec => []NothingSkipped
<1>1. (\A g \in Games : GInv(g)) => NothingSkipped
  BY DEF GInv, SeenInOrder, Promised, NothingSkipped
<1> QED
  BY <1>1, GAlways, PTL

(***************************************************************************)
(* Without failures nothing is published twice.                            *)
(***************************************************************************)
NoDuplicates(g) == \A h, i \in 1 .. Len(raw[g]) : raw[g][h] = raw[g][i] => h = i

\* In a clean history the cursors are as precise as they are honest: what was
\* published is exactly what the cursor of the moment covers.
CInv(g) ==
    clean[g] =>
        /\ NoDuplicates(g)
        /\ task[g] # "saving" => \A j \in Published(g) : Covers(redis[g], j)
        /\ task[g] = "saving" => /\ \A j \in Published(g) : Covers(new[g], j)
                                /\ \A k \in todo[g] : ~ Covers(new[g], k)
        /\ task[g] = "publishing" => \A k \in todo[g] : ~ Covers(redis[g], k)
        /\ task[g] = "idle" => mem[g] = redis[g]

LEMMA CInitial == Init => \A g \in Games : CInv(g)
<1> SUFFICES ASSUME Init, NEW g \in Games PROVE CInv(g)
  OBVIOUS
<1>1. raw[g] = <<>> /\ task[g] = "absent"
  BY DEF Init
<1>2. Published(g) = {} /\ Len(raw[g]) = 0
  BY <1>1 DEF Published, Range
<1> QED
  BY <1>1, <1>2 DEF CInv, NoDuplicates

LEMMA CUntouched ==
    ASSUME NEW g \in Games, CInv(g),
           raw'[g] = raw[g], redis'[g] = redis[g], mem'[g] = mem[g], new'[g] = new[g],
           todo'[g] = todo[g], task'[g] = task[g], clean'[g] = clean[g]
    PROVE  CInv(g)'
BY DEF CInv, NoDuplicates, Published, Covers, IsAfter

\* A task that does nothing yet, or nothing any more.
LEMMA CResting ==
    ASSUME NEW g \in Games, CInv(g), task[g] # "saving",
           raw'[g] = raw[g], redis'[g] = redis[g], clean'[g] = clean[g],
           task'[g] \in {"absent", "starting", "done"}
    PROVE  CInv(g)'
BY DEF CInv, NoDuplicates, Published, Covers, IsAfter

LEMMA CPublish ==
    ASSUME TypeOK, NEW g \in Games, CInv(g), NEW k \in Pitches, Publish(g, k)
    PROVE  CInv(g)'
<1>1. /\ task[g] = "publishing" /\ IsNext(g, k) /\ AppendRecord(g, k)
      /\ new'[g] = k /\ todo'[g] = todo[g] \ {k} /\ task'[g] = "saving"
      /\ UNCHANGED <<redis, clean>>
  BY DEF Publish, TypeOK
<1> SUFFICES ASSUME clean[g] PROVE CInv(g)'
  BY <1>1 DEF CInv
<1>2. /\ Published(g)' = Published(g) \cup {k}
      /\ Len(raw'[g]) = Len(raw[g]) + 1 /\ raw'[g][Len(raw[g]) + 1] = k
      /\ \A i \in 1 .. Len(raw[g]) : raw'[g][i] = raw[g][i]
  BY <1>1, AppendPublishes
<1>3. /\ raw[g] \in Seq(Pitches) /\ Len(raw[g]) \in Nat /\ DOMAIN raw[g] = 1 .. Len(raw[g])
      /\ todo[g] \subseteq Pitches /\ redis[g] \in Cursors
  BY DEF TypeOK
<1>4. Published(g) \subseteq Pitches
  BY <1>3 DEF Published, Range
<1>5. k \in todo[g] /\ ~ Covers(redis[g], k)
  BY <1>1 DEF IsNext, CInv
<1>6. k \notin Published(g) /\ \A j \in Published(g) : Covers(redis[g], j)
  BY <1>1, <1>5 DEF CInv
<1>7. NoDuplicates(g)'
  <2>1. \A i \in 1 .. Len(raw[g]) : raw[g][i] # k
    BY <1>3, <1>6 DEF Published, Range
  <2>2. \A h, i \in 1 .. Len(raw[g]) : raw[g][h] = raw[g][i] => h = i
    BY DEF CInv, NoDuplicates
  <2> SUFFICES ASSUME NEW h \in 1 .. Len(raw[g]) + 1, NEW i \in 1 .. Len(raw[g]) + 1,
                      raw'[g][h] = raw'[g][i]
               PROVE  h = i
    BY <1>2 DEF NoDuplicates
  <2>3. CASE h \in 1 .. Len(raw[g]) /\ i \in 1 .. Len(raw[g])
    BY <1>2, <2>2, <2>3
  <2>4. CASE h = Len(raw[g]) + 1 \/ i = Len(raw[g]) + 1
    <3>1. raw'[g][Len(raw[g]) + 1] = k /\ \A j \in 1 .. Len(raw[g]) : raw'[g][j] # k
      BY <1>2, <2>1
    <3> QED  BY <1>3, <2>4, <3>1
  <2> QED
    BY <1>3, <2>3, <2>4
<1>8. k # NoCursor
  BY NoCursorAssumption
<1>9. \A j \in Published(g) \cup {k} : Covers(k, j)
  <2>1. ASSUME NEW j \in Published(g) PROVE IsAfter(k, j)
    <3>1. redis[g] \in Pitches /\ IsAfter(redis[g], j) /\ ~ IsAfter(redis[g], k)
      BY <1>3, <1>5, <1>6, <2>1 DEF Covers, Cursors
    <3> QED
      BY <1>4, <2>1, <3>1, AfterIsTransitive
  <2>2. IsAfter(k, k)
    BY AfterIsOrder
  <2> QED
    BY <1>8, <2>1, <2>2 DEF Covers
<1>10. \A j \in todo[g] \ {k} : ~ Covers(k, j)
  BY <1>1, <1>3, AfterIsOrder DEF IsNext, Covers
<1> QED
  BY <1>1, <1>2, <1>7, <1>9, <1>10 DEF CInv

LEMMA CSave ==
    ASSUME TypeOK, NEW g \in Games, CInv(g), SaveCursor(g)
    PROVE  CInv(g)'
<1>1. /\ task[g] = "saving" /\ redis'[g] = new[g] /\ UNCHANGED <<raw, new, todo, clean>>
      /\ \/ task'[g] = "idle" /\ mem'[g] = new[g]
         \/ task'[g] = "publishing"
  BY DEF SaveCursor, TypeOK
<1> QED
  BY <1>1 DEF CInv, NoDuplicates, Published, Covers, IsAfter

LEMMA CFetch ==
    ASSUME TypeOK, NEW g \in Games, CInv(g), Fetch(g)
    PROVE  CInv(g)'
<1>1. /\ task[g] = "idle" /\ todo'[g] = Fresh(g) /\ UNCHANGED <<raw, redis, mem, clean>>
      /\ task'[g] \in {"idle", "publishing"}
  BY DEF Fetch, TypeOK
<1> QED
  BY <1>1 DEF CInv, NoDuplicates, Published, Fresh, Covers, IsAfter

LEMMA CStep ==
    TypeOK /\ [Next]_vars /\ (\A g \in Games : CInv(g)) => \A g \in Games : CInv(g)'
<1> SUFFICES ASSUME TypeOK, [Next]_vars, \A g \in Games : CInv(g), NEW h \in Games
             PROVE  CInv(h)'
  OBVIOUS
<1>1. ASSUME UNCHANGED <<raw, redis, mem, new, todo, task, clean>> PROVE CInv(h)'
  BY <1>1, CUntouched
<1>2. ~ clean'[h] => CInv(h)'
  BY DEF CInv
<1>3. CASE Reconcile
  <2>1. UNCHANGED <<raw, redis, mem, new, todo, clean>>
    BY <1>3 DEF Reconcile, pollVars
  <2>2. \/ task'[h] = task[h]
        \/ task[h] # "saving" /\ task'[h] \in {"absent", "starting"}
    BY <1>3 DEF Reconcile
  <2> QED
    BY <2>1, <2>2, CUntouched, CResting
<1>4. CASE Restart
  BY <1>1, <1>4 DEF Restart, pollVars
<1>5. CASE Crash
  <2>1. UNCHANGED <<raw, redis>> /\ task'[h] = "absent"
        /\ clean'[h] = (clean[h] /\ task[h] # "saving")
    BY <1>5 DEF Crash
  <2>2. clean[h] \in BOOLEAN
    BY DEF TypeOK
  <2>3. CASE clean'[h]
    BY <2>1, <2>2, <2>3, CResting
  <2> QED
    BY <1>2, <2>3
<1>6. CASE UNCHANGED vars
  BY <1>1, <1>6 DEF vars
<1>7. ASSUME NEW g \in Games, GameStart(g) \/ GameEnd(g) \/ Rollover(g) PROVE CInv(h)'
  BY <1>1, <1>7 DEF GameStart, GameEnd, Rollover, pollVars
<1>8. ASSUME NEW g \in Games, g # h,
             \/ \E k \in Pitches : Pitch(g, k) \/ Publish(g, k) \/ PublishFails(g, k)
             \/ LoadCursor(g) \/ LoadCursorFails(g) \/ Fetch(g)
             \/ SaveCursor(g) \/ SaveFails(g) \/ LoseCursor(g)
      PROVE  CInv(h)'
  BY <1>8, OthersUntouched, CUntouched
<1>9. ASSUME NEW k \in Pitches, Pitch(h, k) PROVE CInv(h)'
  BY <1>1, <1>9 DEF Pitch, pollVars
<1>10. ASSUME NEW k \in Pitches, Publish(h, k) PROVE CInv(h)'
  BY <1>10, CPublish
<1>11. ASSUME (\E k \in Pitches : PublishFails(h, k)) \/ SaveFails(h) \/ LoseCursor(h)
       PROVE  CInv(h)'
  <2>1. ~ clean'[h]
    <3>1. clean' = [clean EXCEPT ![h] = FALSE]
      BY <1>11 DEF PublishFails, SaveFails, AbandonPoll, LoseCursor
    <3>2. clean \in [Games -> BOOLEAN]
      BY DEF TypeOK
    <3> QED
      BY <3>1, <3>2, Zenon
  <2> QED
    BY <1>2, <2>1
<1>12. CASE LoadCursor(h)
  <2>1. /\ task[h] = "starting" /\ task'[h] = "idle" /\ mem'[h] = redis[h]
        /\ UNCHANGED <<raw, redis, clean>>
    BY <1>12 DEF LoadCursor, TypeOK
  <2> QED
    BY <2>1 DEF CInv, NoDuplicates, Published, Covers, IsAfter
<1>13. CASE LoadCursorFails(h)
  <2>1. /\ task[h] # "saving" /\ task'[h] = "done" /\ UNCHANGED <<raw, redis, clean>>
    BY <1>13 DEF LoadCursorFails, TypeOK
  <2> QED
    BY <2>1, CResting
<1>14. CASE Fetch(h)
  BY <1>14, CFetch
<1>15. CASE SaveCursor(h)
  BY <1>15, CSave
<1> QED
  BY <1>3, <1>4, <1>5, <1>6, <1>7, <1>8, <1>9, <1>10, <1>11, <1>12, <1>13, <1>14,
     <1>15 DEF Next

\* While no publish or save failed, no crash came between the two, and Redis
\* kept the cursor, no pitch is in the raw topic twice, whatever the restarts.
THEOREM CleanRunsPublishOnce == Spec => []CleanRunNoDuplicates
<1>1. Init => TypeOK /\ \A g \in Games : CInv(g)
  BY TypeInit, CInitial
<1>2. (TypeOK /\ \A g \in Games : CInv(g)) /\ [Next]_vars
         => (TypeOK /\ \A g \in Games : CInv(g))'
  BY TypeStep, CStep
<1>3. (\A g \in Games : CInv(g)) => CleanRunNoDuplicates
  BY DEF CInv, NoDuplicates, CleanRunNoDuplicates
<1> QED
  BY <1>1, <1>2, <1>3, PTL DEF Spec
=============================================================================
