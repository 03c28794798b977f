------------------------------ MODULE Ingestor ------------------------------
(***************************************************************************)
(* The MLB ingestor (services/mlb_ingestor): a schedule loop that starts   *)
(* one task per live game, and per game a loop that polls the live feed,   *)
(* publishes every pitch its cursor does not cover to mlb.events.raw and   *)
(* saves the cursor in Redis after each acknowledgement.  Redis, the raw   *)
(* topic and the games table survive the process.                          *)
(*                                                                         *)
(* A pitch is known by <<at_bat_index, pitch_number>>; a feed lists its    *)
(* pitches in the lexicographic order of these pairs, so a feed is the set *)
(* of its pairs.                                                           *)
(***************************************************************************)
EXTENDS Order, Sequences, Functions

CONSTANTS Games,
          Pitches,      \* the <<at_bat_index, pitch_number>> pairs a feed may list
          NoCursor,     \* no cursor yet
          MaxFaults,    \* bound: failed calls and flushes of Redis
          MaxCrashes,   \* bound: times the process ends and is started again
          MaxLate       \* bound: pitches a feed adds before one it already lists

ASSUME PitchesAssumption == Pitches \subseteq Nat \X Nat
ASSUME NoCursorAssumption == NoCursor \notin Pitches
ASSUME BoundsAssumption == MaxFaults \in Nat /\ MaxCrashes \in Nat /\ MaxLate \in Nat

VARIABLES state,     \* MLB: "scheduled", "live" or "final"
          listed,    \* MLB: on the schedule of today's UTC date
          feed,      \* MLB: pitches the live feed lists
          late,      \* history: pitches added before one that was already listed
          raw,       \* Kafka: the pitches published for a game, in log order
          redis,     \* Redis: the cursor of a game
          row,       \* Postgres: games.status, "none" without a row
          up,        \* the process runs
          task,      \* the game's entry in _game_tasks: see TypeOK
          mem,       \* cursor of _game_loop
          new,       \* new_cursor of _poll_game_once
          todo,      \* pitches of this poll's feed still to be published
          clean,     \* history: no failure hit the publish, the save or Redis
          faults, crashes

mlbVars == <<state, listed, feed, late>>
pollVars == <<mem, new, todo>>
vars == <<state, listed, feed, late, raw, redis, row, up, task, mem, new, todo,
          clean, faults, crashes>>

(***************************************************************************)
(* Slips one could make in this code, to test the properties with.         *)
(***************************************************************************)
\* The pitch under the cursor counts as not seen yet.
IsAfterStrict(cursor, k) ==
    \/ k[1] < cursor[1]
    \/ k[1] = cursor[1] /\ k[2] < cursor[2]
\* The games row is written once, as the events rows are.
UpsertOnce(g) == row' = [row EXCEPT ![g] = IF @ = "none" THEN state[g] ELSE @]
\* The games row gets the task's state in the place of the game's.
UpsertTask(g) == row' = [row EXCEPT ![g] = task[g]]
\* Finished tasks keep their entry in _game_tasks.
ReconcileWithoutCleanup ==
    /\ up
    /\ task' = [g \in Games |->
                   IF state[g] = "live" /\ listed[g] /\ task[g] = "absent"
                   THEN "starting" ELSE task[g]]
    /\ UNCHANGED <<raw, redis, row, up, clean, faults, crashes, mlbVars, pollVars>>
\* The pitches of a poll are published in no particular order.
IsNextUnordered(g, k) == k \in todo[g]
\* The publish does not wait for the broker, which loses the record.
AppendLost(g, k) == UNCHANGED raw

\* GameCursor.is_after: the pitch is at or before the cursor.
IsAfter(cursor, k) ==
    \/ k[1] < cursor[1]
    \/ k[1] = cursor[1] /\ k[2] <= cursor[2]

\* "if cursor and cursor.is_after(...)": the pitch is skipped.
Covers(cursor, k) == cursor # NoCursor /\ IsAfter(cursor, k)

Published(g) == Range(raw[g])
Cursors == Pitches \cup {NoCursor}
Polling == {"publishing", "saving"}
Running == {"starting", "idle"} \cup Polling

TypeOK ==
    /\ state \in [Games -> {"scheduled", "live", "final"}]
    /\ listed \in [Games -> BOOLEAN]
    /\ feed \in [Games -> SUBSET Pitches]
    /\ late \in [Games -> SUBSET Pitches]
    /\ raw \in [Games -> Seq(Pitches)]
    /\ redis \in [Games -> Cursors]
    /\ row \in [Games -> {"none", "scheduled", "live", "final"}]
    /\ up \in BOOLEAN
    /\ task \in [Games -> {"absent", "done"} \cup Running]
    /\ mem \in [Games -> Cursors]
    /\ new \in [Games -> Cursors]
    /\ todo \in [Games -> SUBSET Pitches]
    /\ clean \in [Games -> BOOLEAN]
    /\ faults \in 0 .. MaxFaults
    /\ crashes \in 0 .. MaxCrashes

Init ==
    /\ state = [g \in Games |-> "scheduled"]
    /\ listed = [g \in Games |-> TRUE]
    /\ feed = [g \in Games |-> {}] /\ late = feed
    /\ raw = [g \in Games |-> <<>>]
    /\ redis = [g \in Games |-> NoCursor]
    /\ row = [g \in Games |-> "none"]
    /\ up = TRUE
    /\ task = [g \in Games |-> "absent"]
    /\ mem = redis /\ new = redis /\ todo = feed
    /\ clean = [g \in Games |-> TRUE]
    /\ faults = 0 /\ crashes = 0

(***************************************************************************)
(* MLB.                                                                    *)
(***************************************************************************)
GameStart(g) ==
    /\ state[g] = "scheduled"
    /\ state' = [state EXCEPT ![g] = "live"]
    /\ UNCHANGED <<listed, feed, late, raw, redis, row, up, task, clean, faults,
                   crashes, pollVars>>

Pitch(g, k) ==
    /\ state[g] = "live"
    /\ k \notin feed[g]
    /\ feed' = [feed EXCEPT ![g] = @ \cup {k}]
    /\ IF \E j \in feed[g] : Before(k, j)
       THEN /\ \A h \in Games : Cardinality(late[h]) < MaxLate
            /\ late' = [late EXCEPT ![g] = @ \cup {k}]
       ELSE UNCHANGED late
    /\ UNCHANGED <<state, listed, raw, redis, row, up, task, clean, faults,
                   crashes, pollVars>>

GameEnd(g) ==
    /\ state[g] = "live"
    /\ state' = [state EXCEPT ![g] = "final"]
    /\ UNCHANGED <<listed, feed, late, raw, redis, row, up, task, clean, faults,
                   crashes, pollVars>>

\* Midnight UTC: fetch_schedule asks for another date from here on, be the game over,
\* under way or, for a late one in the west, still to begin.
Rollover(g) ==
    /\ listed[g]
    /\ listed' = [listed EXCEPT ![g] = FALSE]
    /\ UNCHANGED <<state, feed, late, raw, redis, row, up, task, clean, faults,
                   crashes, pollVars>>

(***************************************************************************)
(* The schedule loop.                                                      *)
(***************************************************************************)
Live(g) == state[g] = "live" /\ listed[g]

\* _reconcile_games: start a task for every live game without an entry, then
\* drop the entries of finished tasks.  Nothing cancels a running task.
Reconcile ==
    /\ up
    /\ task' = [g \in Games |->
                   IF Live(g) /\ task[g] = "absent" THEN "starting"
                   ELSE IF task[g] = "done" THEN "absent" ELSE task[g]]
    /\ UNCHANGED <<raw, redis, row, up, clean, faults, crashes, mlbVars, pollVars>>

(***************************************************************************)
(* The task of a game.                                                     *)
(***************************************************************************)
Fault == faults < MaxFaults /\ faults' = faults + 1

LoadCursor(g) ==
    /\ task[g] = "starting"
    /\ mem' = [mem EXCEPT ![g] = redis[g]]
    /\ task' = [task EXCEPT ![g] = "idle"]
    /\ UNCHANGED <<raw, redis, row, up, new, todo, clean, faults, crashes, mlbVars>>

\* cursors.get raises outside the try of _game_loop: the task ends.
LoadCursorFails(g) ==
    /\ task[g] = "starting"
    /\ Fault
    /\ task' = [task EXCEPT ![g] = "done"]
    /\ UNCHANGED <<raw, redis, row, up, clean, crashes, mlbVars, pollVars>>

Fresh(g) == {k \in feed[g] : ~ Covers(mem[g], k)}
Upsert(g) == row' = [row EXCEPT ![g] = state[g]]

\* fetch_live_feed returns, the games row is written best-effort, and the
\* pitches the in-memory cursor does not cover are the work of this poll.
Fetch(g) ==
    /\ task[g] = "idle"
    /\ \/ Upsert(g) /\ UNCHANGED faults
       \/ Fault /\ UNCHANGED row
    /\ new' = [new EXCEPT ![g] = mem[g]]
    /\ todo' = [todo EXCEPT ![g] = Fresh(g)]
    /\ task' = [task EXCEPT ![g] = IF Fresh(g) = {} THEN "idle" ELSE "publishing"]
    /\ UNCHANGED <<raw, redis, up, mem, clean, crashes, mlbVars>>

\* The next pitch of the loop: the feed's order.
IsNext(g, k) == k \in todo[g] /\ \A j \in todo[g] : ~ Before(j, k)
AppendRecord(g, k) == raw' = [raw EXCEPT ![g] = Append(@, k)]

\* publish_pitch returns: the broker has acknowledged.
Publish(g, k) ==
    /\ task[g] = "publishing"
    /\ IsNext(g, k)
    /\ AppendRecord(g, k)
    /\ new' = [new EXCEPT ![g] = k]
    /\ todo' = [todo EXCEPT ![g] = @ \ {k}]
    /\ task' = [task EXCEPT ![g] = "saving"]
    /\ UNCHANGED <<redis, row, up, mem, clean, faults, crashes, mlbVars>>

\* The poll ends with an exception, which _game_loop catches: its cursor stays
\* the one the poll began with.
AbandonPoll(g) ==
    /\ task' = [task EXCEPT ![g] = "idle"]
    /\ new' = [new EXCEPT ![g] = mem[g]]
    /\ todo' = [todo EXCEPT ![g] = {}]
    /\ clean' = [clean EXCEPT ![g] = FALSE]
    /\ UNCHANGED mem

\* publish_pitch raises, with or without the record in the log.
PublishFails(g, k) ==
    /\ task[g] = "publishing"
    /\ IsNext(g, k)
    /\ Fault
    /\ AppendRecord(g, k) \/ UNCHANGED raw
    /\ AbandonPoll(g)
    /\ UNCHANGED <<redis, row, up, crashes, mlbVars>>

SaveCursor(g) ==
    /\ task[g] = "saving"
    /\ redis' = [redis EXCEPT ![g] = new[g]]
    /\ IF todo[g] = {}
       THEN /\ task' = [task EXCEPT ![g] = "idle"]      \* cursor = advanced
            /\ mem' = [mem EXCEPT ![g] = new[g]]
       ELSE /\ task' = [task EXCEPT ![g] = "publishing"]
            /\ UNCHANGED mem
    /\ UNCHANGED <<raw, row, up, new, todo, clean, faults, crashes, mlbVars>>

\* cursors.set raises, with or without the new value in Redis.
SaveFails(g) ==
    /\ task[g] = "saving"
    /\ Fault
    /\ redis' = [redis EXCEPT ![g] = new[g]] \/ UNCHANGED redis
    /\ AbandonPoll(g)
    /\ UNCHANGED <<raw, row, up, crashes, mlbVars>>

(***************************************************************************)
(* The process, and Redis.                                                 *)
(***************************************************************************)
\* The process is killed, or a signal cancels run() and with it every task.
Crash ==
    /\ up
    /\ crashes < MaxCrashes
    /\ crashes' = crashes + 1
    /\ up' = FALSE
    /\ task' = [g \in Games |-> "absent"]
    /\ mem' = [g \in Games |-> NoCursor] /\ new' = mem'
    /\ todo' = [g \in Games |-> {}]
    /\ clean' = [g \in Games |-> clean[g] /\ task[g] # "saving"]
    /\ UNCHANGED <<raw, redis, row, faults, mlbVars>>

Restart ==
    /\ ~ up
    /\ up' = TRUE
    /\ UNCHANGED <<raw, redis, row, task, clean, faults, crashes, mlbVars, pollVars>>

\* The key is lost: a flush, an eviction, an instance without persistence.
LoseCursor(g) ==
    /\ redis[g] # NoCursor
    /\ Fault
    /\ redis' = [redis EXCEPT ![g] = NoCursor]
    /\ clean' = [clean EXCEPT ![g] = FALSE]
    /\ UNCHANGED <<raw, row, up, task, crashes, mlbVars, pollVars>>

(***************************************************************************)
(* The query API.                                                          *)
(***************************************************************************)
\* The active games of latest_pitch_per_active_game, chosen by status.
Shown(g) == row[g] \notin {"none", "final"}

(***************************************************************************)
(* The specification.                                                      *)
(***************************************************************************)
Next ==
    \/ Reconcile
    \/ Crash
    \/ Restart
    \/ \E g \in Games :
          \/ GameStart(g) \/ GameEnd(g) \/ Rollover(g)
          \/ \E k \in Pitches : Pitch(g, k)
          \/ LoadCursor(g) \/ LoadCursorFails(g)
          \/ Fetch(g)
          \/ \E k \in Pitches : Publish(g, k)
          \/ \E k \in Pitches : PublishFails(g, k)
          \/ SaveCursor(g) \/ SaveFails(g)
          \/ LoseCursor(g)

Spec == Init /\ [][Next]_vars

\* Timers fire and calls return: the schedule loop and every task keep running,
\* and a process that ended is started again.  MLB owes nothing.
Fairness ==
    /\ WF_vars(Restart)
    /\ WF_vars(Reconcile)
    /\ \A g \in Games : /\ WF_vars(LoadCursor(g))
                        /\ WF_vars(Fetch(g))
                        /\ WF_vars(\E k \in Pitches : Publish(g, k))
                        /\ WF_vars(SaveCursor(g))

FairSpec == Spec /\ Fairness

(***************************************************************************)
(* Properties.                                                             *)
(***************************************************************************)
\* A pitch the saved cursor covers is in the raw topic: whatever fails, the
\* cursor never skips a pitch, so a restart resumes without a gap.  A pitch
\* the feed added behind its own head is outside the promise.
CursorCovers ==
    \A g \in Games : \A k \in feed[g] \ late[g] :
        Covers(redis[g], k) => k \in Published(g)

\* Consumers of the raw topic see the pitches of a game for the first time in
\* the feed's order: before a pitch in the log stands every earlier one.
NothingSkipped ==
    \A g \in Games : \A i \in 1 .. Len(raw[g]) :
        \A j \in feed[g] \ late[g] :
            Before(j, raw[g][i]) => \E h \in 1 .. i - 1 : raw[g][h] = j

\* While no publish or save failed, no crash came between the two, and Redis
\* kept the cursor, nothing is published twice, across any number of restarts.
CleanRunNoDuplicates ==
    \A g \in Games : clean[g] =>
        \A h, i \in 1 .. Len(raw[g]) : raw[g][h] = raw[g][i] => h = i

\* A pitch goes unpublished for good only if it was listed late or if the
\* schedule no longer shows the game to a process that has no task for it.
LostOnlyIfUndiscoverable ==
    \A g \in Games : \A k \in Pitches :
        k \in feed[g] ~> \/ k \in Published(g) \cup late[g]
                         \/ task[g] \notin Running /\ ~ Live(g)

\* As long as a game has its task, the query API comes to show it as it stands: among
\* the active games until it ends and no longer after that, unless the process ends.
ShownWhileActive ==
    \A g \in Games :
        task[g] \in Running ~>
            \/ row[g] # "none" /\ (Shown(g) <=> state[g] # "final")
            \/ task[g] \notin Running

(***************************************************************************)
(* What the documentation says and the code does not do.                   *)
(***************************************************************************)
\* ingestor.py:10-12 "on boot, the schedule_loop discovers live games ... none
\* are skipped": a pitch at the head of the feed of a game that has a task
\* reaches the raw topic, across restarts.
EveryPitchPublished ==
    \A g \in Games : \A k \in Pitches :
        k \in feed[g] /\ task[g] \in Running ~> k \in Published(g) \cup late[g]
=============================================================================
