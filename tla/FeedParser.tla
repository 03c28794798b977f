----------------------------- MODULE FeedParser -----------------------------
(***************************************************************************)
(* What a poll makes of an imperfect feed (mlb_ingestor/parser.py): plays  *)
(* that have no atBatIndex yet, play events that are no pitches, pitches   *)
(* without a number, pitches the parser cannot read; and MLB filling all   *)
(* of these in later.  Module Ingestor takes the pitches of a feed for     *)
(* granted and has the failures; here a poll is one step.                  *)
(*                                                                         *)
(* A play event is known by its place <<a, e>>: event e of play a.         *)
(***************************************************************************)
EXTENDS Order, SequencesExt

CONSTANTS NoCursor,   \* no cursor yet
          MaxPlays,   \* bound: plays of the game
          MaxEvents,  \* bound: events of a play
          MaxFlaws    \* bound: flaws in the feed at a time

ASSUME NoCursorAssumption == NoCursor \notin Nat \X Nat
ASSUME BoundsAssumption == MaxPlays \in Nat /\ MaxEvents \in Nat /\ MaxFlaws \in Nat

VARIABLES feed,    \* MLB: the plays, each with its events
          late,    \* history: pitches that became listed behind a listed one
          guessed, \* history: plays polled with a pitch listed without number
          cursor,  \* the id of the last pitch published
          raw      \* Kafka: the pitches published, in log order

vars == <<feed, late, guessed, cursor, raw>>

\* "other" is no pitch; an "unnumbered" pitch has an index and no pitchNumber,
\* a "bare" one has neither.
Kinds == {"other", "numbered", "unnumbered", "bare"}
Events == [kind : Kinds, readable : BOOLEAN]
Places == (1 .. MaxPlays) \X (1 .. MaxEvents)

Occurred == {x \in Places : x[1] <= Len(feed) /\ x[2] <= Len(feed[x[1]].events)}
Event(x) == feed[x[1]].events[x[2]]

Flaws == {x \in Occurred : ~ Event(x).readable \/ Event(x).kind \in {"unnumbered", "bare"}}
Unindexed == {a \in 1 .. Len(feed) : ~ feed[a].indexed}
Flawless == Cardinality(Flaws) + Cardinality(Unindexed) < MaxFlaws

\* pitchNumber counts the pitches of the play from 1, index its events from 0.
PitchNumber(x) == Cardinality({e \in 1 .. x[2] : feed[x[1]].events[e].kind # "other"})
Index(x) == x[2] - 1

(***************************************************************************)
(* Slips one could make in this code, to test the properties with.         *)
(***************************************************************************)
\* Indexes are taken to start at 1.
NumberFromIndex(x) == IF Event(x).kind = "numbered" THEN PitchNumber(x) ELSE Index(x) - 1
\* The pitch under the cursor counts as not seen yet.
CoversStrict(c, id) == c # NoCursor /\ Before(id, c)
\* The cursor is compared at-bat by at-bat.
CoversAtBat(c, id) == c # NoCursor /\ id[1] <= c[1]
\* Events are validated before those without a number are left out.
ParsedAll == {x \in Occurred : Event(x).kind # "other"}

TypeOK ==
    /\ feed \in Seq([indexed : BOOLEAN, events : Seq(Events)])
    /\ late \subseteq Places
    /\ cursor \in (Nat \X Nat) \cup {NoCursor}
    /\ guessed \subseteq 1 .. MaxPlays
    /\ raw \in Seq([id : Nat \X Nat, pitch : Places])

Init == feed = <<>> /\ late = {} /\ guessed = {} /\ cursor = NoCursor /\ raw = <<>>

\* The pitches the parser gets to: atBatIndex and a number of either kind.
Listed == {x \in Occurred : feed[x[1]].indexed /\ Event(x).kind \in {"numbered", "unnumbered"}}
Parsed == Listed

(***************************************************************************)
(* MLB.                                                                    *)
(***************************************************************************)
NextPlay(indexed) ==
    /\ Len(feed) < MaxPlays
    /\ indexed \/ Flawless
    /\ feed' = Append(feed, [indexed |-> indexed, events |-> <<>>])
    /\ UNCHANGED <<late, guessed, cursor, raw>>

NextEvent(event) ==
    /\ feed # <<>> /\ Len(Last(feed).events) < MaxEvents
    /\ (event.kind \in {"other", "numbered"} /\ event.readable) \/ Flawless
    /\ feed' = [feed EXCEPT ![Len(feed)].events = Append(@, event)]
    /\ UNCHANGED <<late, guessed, cursor, raw>>

\* What a correction lists behind the head of the feed is late.
Behind == late' = late \cup {x \in Listed' \ Listed : \E y \in Listed : Before(x, y)}

FillInEvent(x) ==
    /\ x \in Flaws
    /\ feed' = [feed EXCEPT ![x[1]].events[x[2]] =
                   [kind |-> IF @.kind = "other" THEN "other" ELSE "numbered", readable |-> TRUE]]
    /\ Behind
    /\ UNCHANGED <<guessed, cursor, raw>>

FillInPlay(a) ==
    /\ a \in Unindexed
    /\ feed' = [feed EXCEPT ![a].indexed = TRUE]
    /\ Behind
    /\ UNCHANGED <<guessed, cursor, raw>>

(***************************************************************************)
(* A poll.                                                                 *)
(***************************************************************************)
\* pitchNumber, or index when there is none.
Number(x) == IF Event(x).kind = "numbered" THEN PitchNumber(x) ELSE Index(x)
EventId(x) == <<x[1] - 1, Number(x)>>

\* "if cursor and cursor.is_after(...)": the pitch is skipped.
Covers(c, id) == c # NoCursor /\ (id = c \/ Before(id, c))

Fresh == {x \in Listed : ~ Covers(cursor, EventId(x))}

\* extract_pitch_events raises when one pitch it gets to does not parse or does
\* not pass _validate_spine; else every pitch the cursor of the poll's beginning
\* does not cover is published, in the order of the feed.
Record(x) == [id |-> EventId(x), pitch |-> x]
Poll ==
    /\ \A x \in Parsed : Event(x).readable
    /\ UNCHANGED <<feed, late>>
    /\ guessed' = guessed \cup {x[1] : x \in {y \in Listed : Event(y).kind = "unnumbered"}}
    /\ LET fresh == InOrder(Fresh, Precedence)
       IN  raw' = raw \o [i \in DOMAIN fresh |-> Record(fresh[i])]
    /\ cursor' = IF Fresh = {} THEN cursor ELSE Last(raw').id

Next ==
    \/ \E indexed \in BOOLEAN : NextPlay(indexed)
    \/ \E event \in Events : NextEvent(event)
    \/ \E x \in Places : FillInEvent(x)
    \/ \E a \in 1 .. MaxPlays : FillInPlay(a)
    \/ Poll

Spec == Init /\ [][Next]_vars

\* The task of the game goes on polling; MLB owes nothing, corrections neither.
FairSpec == Spec /\ WF_vars(Poll)

(***************************************************************************)
(* Properties.                                                             *)
(***************************************************************************)
Published == {raw[i].pitch : i \in DOMAIN raw}
\* In this at-bat the parser has taken an index for a pitch number, or would now.
Guessed(x) == x[1] \in guessed \/ (x \in Occurred /\ Event(x).kind = "unnumbered")

\* As long as MLB numbers the pitches of an at-bat, its records follow the order of
\* the feed, and so do their ids: no pitch twice, no id for two pitches, however
\* plays and numbers are filled in between the polls.
RecordsFollowFeed ==
    \A h, i \in DOMAIN raw : h < i =>
        \/ Before(raw[h].pitch, raw[i].pitch) /\ Before(raw[h].id, raw[i].id)
        \/ Guessed(raw[h].pitch) /\ Guessed(raw[i].pitch)

\* The cursor passes over a pitch without publishing it only if the pitch was listed
\* late, or if a number guessed in the same at-bat stands in its place: a guess
\* costs nothing beyond its at-bat.
SkippedOnlyIfLateOrGuessed ==
    \A x \in Listed \ Published :
        Covers(cursor, EventId(x)) => x \in late \/ Guessed(x)

\* One pitch the parser cannot read holds back every other one, but not for longer
\* than it is there: once the feed stays readable, the polls catch up with it.
CaughtUp == \A x \in Listed : x \in Published \cup late \/ Guessed(x)
ReadableGetsThrough == <>[](\A x \in Listed : Event(x).readable) => []<>CaughtUp

(***************************************************************************)
(* What the documentation says and the code does not do.                   *)
(***************************************************************************)
\* event_ids.md:65-66: "If two different payloads ever produce the same ID, that's
\* a bug".
IdsAreDistinct ==
    \A h, i \in DOMAIN raw : raw[h].id = raw[i].id => raw[h].pitch = raw[i].pitch
=============================================================================
