---------------------------- MODULE EventsTable ----------------------------
(***************************************************************************)
(* The events table of one game as its readers see it: the replay service  *)
(* (services/replay) streams it back in (event_time, event_id) order, the  *)
(* query API (services/query_api) picks the latest pitch by the same pair. *)
(* event_time is the pitch's startTime, or, when the feed has none, the    *)
(* timestamp of the feed that first listed the pitch; event_id is text.    *)
(* A row also keeps the pitch itself, as a JSON payload.  The services may *)
(* run different builds of the schema (schemas/proto/README.md).           *)
(*                                                                         *)
(* A pitch comes to its row in steps: MLB lists it, in any order and with  *)
(* or without its startTime, a poll makes records of what its cursor does  *)
(* not cover and publishes them one by one until it is through or fails,   *)
(* the persistence consumer stores them one by one.                        *)
(***************************************************************************)
EXTENDS Payload, Order

CONSTANTS Pitches,   \* the <<at_bat_index, pitch_number>> pairs of the game
          Missing,   \* no startTime
          None,      \* not thrown; no build
          Builds,    \* the builds of the schema in use
          MaxTime,   \* bound: the last tick of the clock
          MaxRecords \* bound: records in the topic

ASSUME PitchesAssumption == Pitches \subseteq Nat \X Nat /\ IsFiniteSet(Pitches)
ASSUME MarksAssumption == Missing \notin Nat /\ None \notin Nat /\ Missing # None
ASSUME BoundsAssumption == MaxTime \in Nat /\ MaxRecords \in Nat

\* All builds name the enum number the parser sets, Sport.SPORT_MLB; no value a pitch
\* may have is null in JSON.
Sport == 1
ASSUME BuildsAssumption ==
    \A a, b \in Builds : Compatible(a, b) /\ Sport \in DOMAIN a.names /\ a.names[Sport] # Null
ASSUME NullAssumption == Null \notin Pitches \cup ({"iso"} \X Nat)

VARIABLES clock,     \* MLB: now, the timestamp of a feed
          thrown,    \* MLB: when each pitch was thrown
          start,     \* MLB: startTime of each pitch listed
          batch,     \* records the poll in hand is still to publish
          topic,     \* Kafka: the records published
          table,     \* Postgres: event_time of each pitch stored
          payload,   \* Postgres: payload of each
          live,      \* history: the record each row was made from
          writer,    \* history: the build that stored each
          replay,    \* "none", "running" or "done"
          rest,      \* rows the replay's cursor has not yielded yet
          reader,    \* the build that replays
          emitted,   \* what this replay has published
          snap       \* history: the table when the replay began

feedVars == <<clock, thrown, start>>
pollVars == <<batch, topic>>
tableVars == <<table, payload, live, writer>>
replayVars == <<replay, rest, reader, emitted, snap>>
vars == <<feedVars, pollVars, tableVars, replayVars>>

Thrown == {k \in Pitches : thrown[k] # None}
Listed == {k \in Pitches : start[k] # None}
Published == {e.pitch : e \in topic}
Stored == DOMAIN table

(***************************************************************************)
(* Event ids as text.                                                      *)
(***************************************************************************)
Digits[n \in Nat] == IF n < 10 THEN <<n>> ELSE Append(Digits[n \div 10], n % 10)

\* derive_pitch_id after its common prefix: two decimal numbers around a colon,
\* which stands after the digits.
Colon == 10
EventId(k) == Digits[k[1]] \o <<Colon>> \o Digits[k[2]]

TextBefore(s, t) ==
    \E i \in 1 .. Len(t) :
        /\ \A h \in 1 .. i - 1 : h <= Len(s) /\ s[h] = t[h]
        /\ i > Len(s) \/ s[i] < t[i]

(***************************************************************************)
(* Slips one could make in this code, to test the properties with.         *)
(***************************************************************************)
\* ORDER BY event_id.
RowBeforeById(j, k) == TextBefore(EventId(j), EventId(k))
\* ORDER BY event_time DESC, event_id: the tie is broken the other way round.
LaterRowTie(j, k) ==
    table[k] < table[j] \/ (table[k] = table[j] /\ TextBefore(EventId(j), EventId(k)))
\* startTime is taken as it is.
EventTimeAsGiven(k) == start[k]

TypeOK ==
    /\ clock \in 0 .. MaxTime
    /\ thrown \in [Pitches -> Nat \cup {None}]
    /\ start \in [Pitches -> Nat \cup {Missing, None}]
    /\ \A e \in batch \cup topic : e.pitch \in Pitches
    /\ Stored \subseteq Pitches
    /\ table \in [Stored -> Nat]
    /\ DOMAIN payload = Stored /\ DOMAIN live = Stored
    /\ writer \in [Stored -> Builds]
    /\ replay \in {"none", "running", "done"}
    /\ rest \in Seq(Pitches)
    /\ reader \in Builds \cup {None}
    /\ \A i \in DOMAIN emitted : emitted[i].pitch \in Pitches
    /\ DOMAIN snap \subseteq Pitches
    /\ snap \in [DOMAIN snap -> Nat]

Init ==
    /\ clock = 0
    /\ thrown = [k \in Pitches |-> None] /\ start = thrown
    /\ batch = {} /\ topic = {}
    /\ table = <<>> /\ payload = <<>> /\ live = <<>> /\ writer = <<>>
    /\ replay = "none"
    /\ rest = <<>> /\ emitted = <<>>
    /\ reader = None
    /\ snap = table

(***************************************************************************)
(* The game, and its feed.                                                 *)
(***************************************************************************)
Tick ==
    /\ clock < MaxTime
    /\ clock' = clock + 1
    /\ UNCHANGED <<thrown, start, pollVars, tableVars, replayVars>>

Throw(k) ==
    /\ clock < MaxTime
    /\ k \notin Thrown
    /\ \A j \in Thrown : Before(j, k)
    /\ clock' = clock + 1
    /\ thrown' = [thrown EXCEPT ![k] = clock']
    /\ UNCHANGED <<start, pollVars, tableVars, replayVars>>

\* The feed lists a pitch, perhaps after later ones, or fills in its startTime.
List(k) ==
    /\ k \in Thrown
    /\ \/ start[k] = None /\ start' = [start EXCEPT ![k] = Missing]
       \/ start[k] \in {None, Missing} /\ start' = [start EXCEPT ![k] = thrown[k]]
    /\ UNCHANGED <<clock, thrown, pollVars, tableVars, replayVars>>

(***************************************************************************)
(* The ingestor.                                                           *)
(***************************************************************************)
\* _parse_mlb_time(startTime) or metadata_ts.
EventTime(k) == IF start[k] = Missing THEN clock ELSE start[k]

\* What the parser makes of a pitch: every field its build knows and the feed gives.
Value(n, kind, k) ==
    CASE kind = "timestamp" -> IF n = "event_time" THEN EventTime(k) ELSE clock
      [] kind = "enum" -> Sport
      [] kind = "text" -> Text(k)
      [] kind = "scalar" -> k
Message(b, k) == [spine |-> [n \in DOMAIN b.spine |-> Value(n, b.spine[n], k)],
                  body |-> [n \in DOMAIN b.body |-> Value(n, b.body[n], k)]]

\* The record of a pitch; "timed" and "stamp" say what the feed was like: whether it had
\* the startTime, and its timestamp.
Record(b, k) == [pitch |-> k, time |-> EventTime(k), message |-> Message(b, k),
                 timed |-> start[k] # Missing, stamp |-> clock]

\* A poll begins, with no cursor or with that of some pitch published: module Ingestor
\* says which of them it may be, after failures, restarts and losses of the cursor.
Fetch(b) ==
    /\ batch = {}
    /\ \E c \in Published \cup {None} :
          batch' = {Record(b, k) : k \in {x \in Listed : c = None \/ Before(c, x)}}
    /\ UNCHANGED <<topic, feedVars, tableVars, replayVars>>

Publish(e) ==
    /\ e \in batch
    /\ \A d \in batch : ~ Before(d.pitch, e.pitch)
    /\ Cardinality(topic) < MaxRecords
    /\ topic' = topic \cup {e}
    /\ batch' = batch \ {e}
    /\ UNCHANGED <<feedVars, tableVars, replayVars>>

\* A publish or a save of the cursor raises, or the process ends.
GiveUp ==
    /\ batch # {}
    /\ batch' = {}
    /\ UNCHANGED <<topic, feedVars, tableVars, replayVars>>

(***************************************************************************)
(* The persistence consumer.                                               *)
(***************************************************************************)
With(f, k, v) == [x \in DOMAIN f \cup {k} |-> IF x = k THEN v ELSE f[x]]
Write(e, b) ==
    /\ table' = With(table, e.pitch, e.time)
    /\ payload' = With(payload, e.pitch, Flatten(b, e.message))
    /\ live' = With(live, e.pitch, e)
    /\ writer' = With(writer, e.pitch, b)

\* A slip: ON CONFLICT (event_id) DO UPDATE.
InsertOrUpdate(e, b) == Write(e, b)

\* ON CONFLICT (event_id) DO NOTHING.
Insert(e, b) == IF e.pitch \in Stored THEN UNCHANGED tableVars ELSE Write(e, b)

\* A record is delivered to a consumer of some build: for the first time or again, and
\* perhaps after later ones, when its retry budget was exhausted before.  What a replay
\* puts into the topic has its row already.
Store(e, b) ==
    /\ e \in topic
    /\ Insert(e, b)
    /\ UNCHANGED <<feedVars, pollVars, replayVars>>

(***************************************************************************)
(* The replay service.                                                     *)
(***************************************************************************)
\* ORDER BY event_time, event_id.
RowBefore(j, k) ==
    table[j] < table[k] \/ (table[j] = table[k] /\ TextBefore(EventId(j), EventId(k)))
RowOrder == {p \in Stored \X Stored : RowBefore(p[1], p[2])}

\* A build of the service opens its cursor, which sees the rows of this moment.
Begin(b) ==
    /\ replay # "running"
    /\ replay' = "running"
    /\ rest' = InOrder(Stored, RowOrder)
    /\ reader' = b
    /\ emitted' = <<>>
    /\ snap' = table
    /\ UNCHANGED <<feedVars, pollVars, tableVars>>

PublishRow ==
    /\ replay = "running"
    /\ rest # <<>>
    /\ LET k == Head(rest)
       IN  emitted' = Append(emitted, [pitch |-> k, message |-> Rebuild(reader, payload[k])])
    /\ rest' = Tail(rest)
    /\ UNCHANGED <<replay, reader, snap, feedVars, pollVars, tableVars>>

Complete ==
    /\ replay = "running"
    /\ rest = <<>>
    /\ replay' = "done"
    /\ UNCHANGED <<rest, reader, emitted, snap, feedVars, pollVars, tableVars>>

\* The process is killed, or a publish raises.  What it has put into the topic stays there:
\* copies of rows, which Store needs no more.
Abort ==
    /\ replay = "running"
    /\ replay' = "none"
    /\ rest' = <<>> /\ emitted' = <<>> /\ snap' = <<>>
    /\ reader' = None
    /\ UNCHANGED <<feedVars, pollVars, tableVars>>

(***************************************************************************)
(* The query API.                                                          *)
(***************************************************************************)
\* DISTINCT ON (game_pk), ORDER BY event_time DESC, event_id DESC.
LatestBefore(j, k) ==
    table[j] < table[k] \/ (table[j] = table[k] /\ TextBefore(EventId(j), EventId(k)))
Latest == CHOOSE k \in Stored : \A j \in Stored \ {k} : LatestBefore(j, k)

\* ORDER BY event_time DESC, event_id DESC LIMIT.
LaterRow(j, k) ==
    table[k] < table[j] \/ (table[k] = table[j] /\ TextBefore(EventId(k), EventId(j)))
LatestFirst == {p \in Stored \X Stored : LaterRow(p[1], p[2])}
Recent(limit) ==
    LET rows == InOrder(Stored, LatestFirst)
    IN  SubSeq(rows, 1, IF limit < Len(rows) THEN limit ELSE Len(rows))

Next ==
    \/ Tick
    \/ \E k \in Pitches : Throw(k)
    \/ \E k \in Pitches : List(k)
    \/ \E b \in Builds : Fetch(b)
    \/ \E e \in batch : Publish(e)
    \/ GiveUp
    \/ \E e \in topic, b \in Builds : Store(e, b)
    \/ \E b \in Builds : Begin(b)
    \/ PublishRow
    \/ Complete
    \/ Abort

Spec == Init /\ [][Next]_vars

(***************************************************************************)
(* Properties.                                                             *)
(***************************************************************************)
\* A replay gives back the pitches in the order they were thrown, but for those that were
\* published without their startTime: such a one may come too late, though not behind a
\* pitch thrown after the feed it was taken from.  Polls that broke off, pitches listed
\* late, cursors lost and records stored late make no other disorder.
DisplacedOnlyByFeedTime ==
    \A h, i \in DOMAIN emitted :
        LET first == emitted[h].pitch
            second == emitted[i].pitch
        IN  h < i /\ Before(second, first) =>
                ~ live[second].timed /\ thrown[first] <= live[second].stamp

\* The repositories agree: whatever the limit, the most recent pitches of a game are
\* the end of its completed replay read backwards, and the first of them is the one
\* shown as the game's latest, unless rows were added meanwhile.
ReadersAgree ==
    replay = "done" /\ table = snap =>
        \A limit \in 1 .. Cardinality(Pitches) :
            LET recent == Recent(limit)
            IN  /\ Len(recent) = (IF limit < Cardinality(Stored) THEN limit ELSE Cardinality(Stored))
                /\ \A i \in DOMAIN recent : recent[i] = emitted[Len(emitted) + 1 - i].pitch
                /\ recent # <<>> => recent[1] = Latest

\* The latest pitch the query API shows never moves back in time, nor does its own time
\* change, though the feed fills in startTimes and a poll that lost its cursor publishes
\* old pitches again with them.
LatestMovesOn ==
    [][Stored # {} => /\ table'[Latest] = table[Latest]
                      /\ table[Latest] <= table'[Latest']]_vars

\* A replayed pitch is the one the ingestor published, less the fields that the build
\* that stored it or the build that replays it does not know; no value is altered, but
\* for the layout of a JSON text, and no field is set that was not.
ReplayKeepsContract ==
    \A i \in DOMAIN emitted :
        LET k == emitted[i].pitch
        IN  emitted[i].message = Part(reader, Part(writer[k], live[k].message))
=============================================================================
