-------------------------- MODULE FeedParserProofs --------------------------
(***************************************************************************)
(* What the parser publishes of an imperfect feed, for every number of     *)
(* plays, events and flaws.                                                *)
(***************************************************************************)
EXTENDS FeedParser, OrderProofs

Plays == [indexed : BOOLEAN, events : Seq(Events)]

(***************************************************************************)
(* Types.                                                                  *)
(***************************************************************************)
\* Records have the types the code gives them.
LEMMA PlacesArePairs ==
    /\ Places \subseteq Nat \X Nat
    /\ \A x \in Places : x[1] \in 1 .. MaxPlays /\ x[2] \in 1 .. MaxEvents
    /\ Listed \subseteq Occurred /\ Occurred \subseteq Places
BY BoundsAssumption DEF Places, Listed, Occurred

\* A pitch number is a natural number; more pitches stand at or before a later event.
LEMMA NumbersGrow ==
    ASSUME feed \in Seq(Plays), NEW x \in Occurred, NEW y \in Occurred,
           x[1] = y[1], x[2] < y[2]
    PROVE  /\ PitchNumber(x) \in Nat /\ PitchNumber(y) \in Nat
           /\ PitchNumber(x) <= PitchNumber(y)
           /\ Event(y).kind # "other" => PitchNumber(x) < PitchNumber(y)
<1> DEFINE E(z) == {e \in 1 .. z[2] : feed[y[1]].events[e].kind # "other"}
<1>1. x[2] \in Nat /\ y[2] \in Nat /\ y[2] >= 1
  BY PlacesArePairs, BoundsAssumption
<1>2. IsFiniteSet(1 .. y[2])
  <2>1. \A n \in Nat : IsFiniteSet(1 .. n)
    BY FS_Interval
  <2> QED  BY <1>1, <2>1
<1>3. E(y) \subseteq 1 .. y[2] /\ E(x) \subseteq E(y)
  <2>1. \A m, n \in Nat : m < n => 1 .. m \subseteq 1 .. n
    OBVIOUS
  <2>2. 1 .. x[2] \subseteq 1 .. y[2]
    BY <1>1, <2>1
  <2> QED  BY <2>2
<1>4. Event(y).kind # "other" => y[2] \in E(y) \ E(x)
  BY <1>1 DEF Event
<1> HIDE DEF E
<1>5. IsFiniteSet(E(y))
  BY <1>2, <1>3, FS_Subset
<1>6. /\ IsFiniteSet(E(x))
      /\ Cardinality(E(x)) <= Cardinality(E(y))
      /\ Event(y).kind # "other" => Cardinality(E(x)) # Cardinality(E(y))
  BY <1>3, <1>4, <1>5, FS_Subset
<1>7. Cardinality(E(x)) \in Nat /\ Cardinality(E(y)) \in Nat
  BY <1>5, <1>6, FS_CardinalityType
<1>8. PitchNumber(x) = Cardinality(E(x)) /\ PitchNumber(y) = Cardinality(E(y))
  BY DEF PitchNumber, E
<1> QED  BY <1>6, <1>7, <1>8

\* A pitch number is a natural number.
LEMMA NumberType ==
    ASSUME NEW x \in Places
    PROVE  PitchNumber(x) \in Nat /\ Number(x) \in Nat /\ EventId(x) \in Nat \X Nat
<1>1. x[1] - 1 \in Nat /\ x[2] - 1 \in Nat /\ x[2] \in Nat
  BY PlacesArePairs, BoundsAssumption
<1>2. IsFiniteSet(1 .. x[2])
  BY <1>1, FS_Interval
<1>3. IsFiniteSet({e \in 1 .. x[2] : feed[x[1]].events[e].kind # "other"})
  BY <1>2, FS_Subset
<1>4. PitchNumber(x) \in Nat
  BY <1>3, FS_CardinalityType DEF PitchNumber
<1> QED  BY <1>1, <1>4 DEF Number, Index, EventId

\* The pitches a poll publishes, in the order it publishes them.
Ordered(fresh) == Lists(fresh, Fresh, Precedence)

LEMMA FreshListed == IsFiniteSet(Fresh) /\ Ordered(InOrder(Fresh, Precedence))
<1>1. IsFiniteSet(1 .. MaxPlays) /\ IsFiniteSet(1 .. MaxEvents)
  BY BoundsAssumption, FS_Interval
<1>2. IsFiniteSet(Places)
  BY <1>1, FS_Product DEF Places
<1>3. Fresh \subseteq Places
  BY PlacesArePairs DEF Fresh
<1>4. IsFiniteSet(Fresh)
  BY <1>2, <1>3, FS_Subset
<1>5. Orders(Precedence, Fresh)
  BY <1>3, PlacesArePairs, PrecedenceOrders
<1> QED  BY <1>4, <1>5, InOrderLists DEF Ordered

(***************************************************************************)
(* What MLB does to the feed.                                              *)
(***************************************************************************)
FeedStep ==
    \/ \E indexed \in BOOLEAN : NextPlay(indexed)
    \/ \E event \in Events : NextEvent(event)
    \/ \E x \in Places : FillInEvent(x)
    \/ \E a \in 1 .. MaxPlays : FillInPlay(a)

\* A play event stays where it is and a pitch a pitch; what is numbered stays
\* numbered, and what is listed stays listed.
Kept ==
    \A x \in Occurred :
        /\ x \in Occurred'
        /\ Event(x).kind = "other" <=> (Event(x).kind = "other")'
        /\ Event(x).kind = "numbered" => (Event(x).kind = "numbered")'
        /\ x \in Listed => x \in Listed'

\* What becomes listed stands behind every listed pitch, or is late.
NewsIsLate == \A x \in Listed' \ Listed : x \in late' \/ \A y \in Listed : ~ Before(x, y)

\* The parts of the feed have their types.
LEMMA FeedParts ==
    ASSUME feed \in Seq(Plays)
    PROVE  /\ Len(feed) \in Nat
           /\ \A a \in 1 .. Len(feed) : /\ feed[a].indexed \in BOOLEAN
                                        /\ feed[a].events \in Seq(Events)
                                        /\ Len(feed[a].events) \in Nat
           /\ \A x \in Occurred : Event(x) \in Events /\ Event(x).kind \in Kinds
<1>1. Len(feed) \in Nat /\ \A a \in 1 .. Len(feed) : feed[a] \in Plays
  OBVIOUS
<1>2. \A a \in 1 .. Len(feed) : /\ feed[a].indexed \in BOOLEAN
                                /\ feed[a].events \in Seq(Events)
                                /\ Len(feed[a].events) \in Nat
  BY <1>1 DEF Plays
<1>3. ASSUME NEW x \in Occurred
      PROVE  Event(x) \in Events
  <2>1. x[1] \in 1 .. Len(feed) /\ x[2] \in 1 .. Len(feed[x[1]].events)
    BY <1>1, <1>2, PlacesArePairs, BoundsAssumption DEF Occurred
  <2>2. feed[x[1]].events \in Seq(Events)
    BY <1>2, <2>1
  <2> QED  BY <2>1, <2>2 DEF Event
<1> QED  BY <1>1, <1>2, <1>3 DEF Events

\* One place of a sequence is replaced.
LEMMA SequenceReplaced ==
    ASSUME NEW S, NEW s \in Seq(S), NEW i \in 1 .. Len(s), NEW v \in S
    PROVE  /\ [s EXCEPT ![i] = v] \in Seq(S) /\ Len([s EXCEPT ![i] = v]) = Len(s)
           /\ [s EXCEPT ![i] = v][i] = v
           /\ \A a \in 1 .. Len(s) : a # i => [s EXCEPT ![i] = v][a] = s[a]
OBVIOUS

\* NextPlay adds an empty play.
LEMMA NextPlayKeeps ==
    ASSUME feed \in Seq(Plays), NEW indexed \in BOOLEAN, NextPlay(indexed)
    PROVE  feed' \in Seq(Plays) /\ Kept /\ NewsIsLate
<1> DEFINE new == [indexed |-> indexed, events |-> <<>>]
<1>1. new \in Plays /\ feed' = Append(feed, new) /\ Len(feed) \in Nat
  BY DEF Plays, NextPlay
<1>2. feed' \in Seq(Plays)
  BY <1>1
<1>3. /\ Len(feed') = Len(feed) + 1
      /\ \A a \in 1 .. Len(feed) : feed'[a] = feed[a]
      /\ feed'[Len(feed) + 1].events = <<>>
  BY <1>1
<1>4. ASSUME NEW x \in Places
      PROVE  x \in Occurred' => x \in Occurred /\ feed'[x[1]] = feed[x[1]]
  <2>1. x[1] \in Nat /\ x[1] >= 1 /\ x[2] \in Nat /\ x[2] >= 1
    BY PlacesArePairs, BoundsAssumption
  <2>2. CASE x[1] <= Len(feed)
    BY <1>3, <2>1, <2>2 DEF Occurred
  <2>3. CASE x[1] > Len(feed)
    <3> SUFFICES ASSUME x \in Occurred' PROVE FALSE
      OBVIOUS
    <3>1. x[1] = Len(feed) + 1 /\ x[2] <= Len(feed'[x[1]].events)
      BY <1>1, <1>3, <2>1, <2>3 DEF Occurred
    <3>2. feed'[x[1]].events = <<>>
      BY <1>3, <3>1, Zenon
    <3>3. x[2] <= 0
      BY <3>1, <3>2
    <3> QED  BY <2>1, <3>3
  <2>4. x[1] <= Len(feed) \/ x[1] > Len(feed)
    BY <1>1, <2>1
  <2> QED  BY <2>2, <2>3, <2>4, Zenon
<1>5. ASSUME NEW x \in Occurred
      PROVE  x \in Occurred' /\ feed'[x[1]] = feed[x[1]]
  <2>1. x[1] \in 1 .. Len(feed)
    BY <1>1, PlacesArePairs, BoundsAssumption DEF Occurred
  <2> QED  BY <1>1, <1>3, <2>1 DEF Occurred
<1>6. Kept
  BY <1>5 DEF Kept, Event, Listed
<1>7. Listed' \subseteq Listed
  BY <1>4 DEF Listed, Event, Occurred
<1> QED  BY <1>2, <1>6, <1>7 DEF NewsIsLate

\* NextEvent adds an event at the end of the last play.
LEMMA NextEventKeeps ==
    ASSUME feed \in Seq(Plays), NEW event \in Events, NextEvent(event)
    PROVE  feed' \in Seq(Plays) /\ Kept /\ NewsIsLate
<1> DEFINE n == Len(feed)
           old == feed[n].events
           new == [feed[n] EXCEPT !.events = Append(@, event)]
<1>1. n \in Nat /\ n >= 1 /\ feed[n] \in Plays /\ old \in Seq(Events) /\ Len(old) \in Nat
  <2>1. feed # <<>>
    BY DEF NextEvent
  <2>2. n \in Nat /\ n >= 1
    BY <2>1
  <2>3. feed[n] \in Plays
    BY <2>2
  <2> QED  BY <2>2, <2>3, FeedParts
<1>2. new \in Plays /\ new.events = Append(old, event) /\ new.indexed = feed[n].indexed
  <2>1. Append(old, event) \in Seq(Events)
    BY <1>1
  <2>2. \A p \in Plays, q \in Seq(Events) :
           /\ [p EXCEPT !.events = q] \in Plays
           /\ [p EXCEPT !.events = q].events = q
           /\ [p EXCEPT !.events = q].indexed = p.indexed
    BY DEF Plays
  <2> QED  BY <1>1, <2>1, <2>2
<1>3. feed' = [feed EXCEPT ![n] = new]
  BY DEF NextEvent
<1> HIDE DEF new
<1>4. /\ feed' \in Seq(Plays) /\ Len(feed') = n
      /\ feed'[n] = new
      /\ \A a \in 1 .. n : a # n => feed'[a] = feed[a]
  <2>1. n \in 1 .. Len(feed)
    BY <1>1
  <2> QED  BY <1>2, <1>3, <2>1, SequenceReplaced
<1>5. /\ Len(new.events) = Len(old) + 1
      /\ \A e \in 1 .. Len(old) : new.events[e] = old[e]
  BY <1>1, <1>2
<1> HIDE DEF new, old, n
<1>6. ASSUME NEW x \in Occurred
      PROVE  /\ x \in Occurred' /\ Event(x)' = Event(x)
             /\ feed'[x[1]].indexed = feed[x[1]].indexed
             /\ x[1] <= n /\ (x[1] = n => x[2] <= Len(old))
  <2>1. x[1] \in 1 .. n /\ x[2] \in 1 .. Len(feed[x[1]].events) /\ x \in Places
    BY <1>1, PlacesArePairs, BoundsAssumption, FeedParts DEF Occurred, n
  <2>2. CASE x[1] = n
    <3>1. feed'[x[1]] = new /\ feed[x[1]].events = old /\ x[2] \in 1 .. Len(old)
      BY <1>4, <2>1, <2>2 DEF old
    <3>2. new.events[x[2]] = old[x[2]] /\ x[2] <= Len(new.events)
      BY <1>1, <1>5, <3>1
    <3> QED  BY <1>1, <1>2, <1>4, <2>1, <2>2, <3>1, <3>2 DEF Event, Occurred
  <2>3. CASE x[1] # n
    BY <1>1, <1>4, <2>1, <2>3 DEF Event, Occurred
  <2> QED  BY <2>2, <2>3
<1>7. Kept
  BY <1>6 DEF Kept, Listed
<1>8. ASSUME NEW x \in Listed', x \notin Listed
      PROVE  x[1] = n /\ x[2] > Len(old)
  <2>1. x \in Places /\ x \in Occurred'
    BY DEF Listed, Occurred
  <2>2. x[1] \in 1 .. n /\ x[2] \in Nat /\ x[2] >= 1
    BY <1>1, <1>4, <2>1, PlacesArePairs, BoundsAssumption DEF Occurred
  <2>3. x \notin Occurred
    BY <1>6, <1>8 DEF Listed
  <2>4. x[1] = n
    BY <1>4, <2>1, <2>2, <2>3 DEF Occurred, n
  <2>5. ~ (x[2] <= Len(old))
    BY <1>1, <2>1, <2>2, <2>3, <2>4 DEF Occurred, n, old
  <2> QED  BY <1>1, <2>2, <2>4, <2>5
<1>9. ASSUME NEW x \in Listed', x \notin Listed, NEW y \in Listed
      PROVE  ~ Before(x, y)
  <2>1. y[1] <= n /\ (y[1] = n => y[2] <= Len(old)) /\ y \in Places
    BY <1>6, PlacesArePairs
  <2>2. y[1] \in Nat /\ y[2] \in Nat /\ x \in Places /\ x[2] \in Nat
    BY <2>1, PlacesArePairs, BoundsAssumption DEF Listed, Occurred
  <2> QED  BY <1>1, <1>8, <1>9, <2>1, <2>2 DEF Before
<1> QED  BY <1>4, <1>7, <1>9 DEF NewsIsLate

\* What a correction lists behind a listed pitch is late, by definition.
LEMMA BehindIsLate ==
    ASSUME Behind
    PROVE  NewsIsLate
BY DEF Behind, NewsIsLate

\* A play keeps its events when it gets its index.
LEMMA FillInPlayKeeps ==
    ASSUME feed \in Seq(Plays), NEW a \in 1 .. MaxPlays, FillInPlay(a)
    PROVE  feed' \in Seq(Plays) /\ Kept /\ NewsIsLate
<1> DEFINE new == [feed[a] EXCEPT !.indexed = TRUE]
<1>1. a \in 1 .. Len(feed) /\ feed[a] \in Plays
  BY DEF FillInPlay, Unindexed
<1>2. new \in Plays /\ new.events = feed[a].events /\ new.indexed
  BY <1>1 DEF Plays
<1>3. feed' = [feed EXCEPT ![a] = new] /\ NewsIsLate
  BY BehindIsLate DEF FillInPlay
<1> HIDE DEF new
<1>4. /\ feed' \in Seq(Plays) /\ Len(feed') = Len(feed)
      /\ feed'[a] = new
      /\ \A i \in 1 .. Len(feed) : i # a => feed'[i] = feed[i]
  BY <1>1, <1>2, <1>3, SequenceReplaced
<1>5. \A i \in 1 .. Len(feed) : /\ feed'[i].events = feed[i].events
                                /\ feed[i].indexed => feed'[i].indexed
  BY <1>2, <1>4
<1>6. ASSUME NEW x \in Occurred
      PROVE  /\ x \in Occurred' /\ Event(x)' = Event(x)
             /\ feed[x[1]].indexed => feed'[x[1]].indexed
  <2>1. x[1] \in 1 .. Len(feed)
    BY PlacesArePairs, BoundsAssumption DEF Occurred
  <2>2. feed'[x[1]].events = feed[x[1]].events /\ (feed[x[1]].indexed => feed'[x[1]].indexed)
    BY <1>5, <2>1
  <2> QED  BY <1>4, <2>2 DEF Occurred, Event
<1>7. Kept
  BY <1>6 DEF Kept, Listed
<1> QED  BY <1>3, <1>4, <1>7

\* An event keeps its place when its data are filled in.
LEMMA FillInEventKeeps ==
    ASSUME feed \in Seq(Plays), NEW f \in Places, FillInEvent(f)
    PROVE  feed' \in Seq(Plays) /\ Kept /\ NewsIsLate
<1> DEFINE a == f[1]
           e == f[2]
           old == feed[a].events
           event == [kind |-> IF old[e].kind = "other" THEN "other" ELSE "numbered", readable |-> TRUE]
           events == [old EXCEPT ![e] = event]
           new == [feed[a] EXCEPT !.events = events]
<1>1. /\ a \in 1 .. Len(feed) /\ e \in 1 .. Len(old)
      /\ feed[a] \in Plays /\ old \in Seq(Events)
  <2>1. f \in Occurred
    BY DEF FillInEvent, Flaws
  <2>2. a \in 1 .. Len(feed)
    BY <2>1, PlacesArePairs, BoundsAssumption DEF Occurred
  <2>3. feed[a] \in Plays
    BY <2>2
  <2>4. old \in Seq(Events)
    BY <2>2, FeedParts
  <2>5. e \in 1 .. Len(old)
    BY <2>1, <2>4, PlacesArePairs, BoundsAssumption DEF Occurred
  <2> QED  BY <2>2, <2>3, <2>4, <2>5
<1>2. event \in Events
  BY DEF Events, Kinds
<1>3. /\ events \in Seq(Events) /\ Len(events) = Len(old)
      /\ events[e] = event
      /\ \A i \in 1 .. Len(old) : i # e => events[i] = old[i]
  <2> HIDE DEF event, old, e
  <2> QED  BY <1>1, <1>2, SequenceReplaced
<1>4. new \in Plays /\ new.events = events /\ new.indexed = feed[a].indexed
  <2>1. \A p \in Plays, q \in Seq(Events) :
           /\ [p EXCEPT !.events = q] \in Plays
           /\ [p EXCEPT !.events = q].events = q
           /\ [p EXCEPT !.events = q].indexed = p.indexed
    BY DEF Plays
  <2> HIDE DEF events, a
  <2> QED  BY <1>1, <1>3, <2>1
<1>5. feed' = [feed EXCEPT ![a] = new] /\ NewsIsLate
  <2>1. feed' = [feed EXCEPT ![a] = new]
    BY DEF FillInEvent
  <2> QED  BY <2>1, BehindIsLate DEF FillInEvent
<1> HIDE DEF new
<1>6. /\ feed' \in Seq(Plays) /\ Len(feed') = Len(feed)
      /\ feed'[a] = new
      /\ \A i \in 1 .. Len(feed) : i # a => feed'[i] = feed[i]
  <2> HIDE DEF a
  <2> QED  BY <1>1, <1>4, <1>5, SequenceReplaced
<1>7. /\ event.kind = "other" <=> old[e].kind = "other"
      /\ event.kind \in {"other", "numbered"}
      /\ old[e].kind = "numbered" => event.kind = "numbered"
  OBVIOUS
<1>8. \A i \in 1 .. Len(old) :
         /\ events[i].kind = "other" <=> old[i].kind = "other"
         /\ old[i].kind = "numbered" => events[i].kind = "numbered"
         /\ old[i].kind \in {"numbered", "unnumbered"} => events[i].kind \in {"numbered", "unnumbered"}
  <2> HIDE DEF event, old, events, e
  <2> TAKE i \in 1 .. Len(old)
  <2>1. CASE i = e
    BY <1>3, <1>7, <2>1
  <2>2. CASE i # e
    BY <1>3, <2>2
  <2> QED  BY <2>1, <2>2
<1> HIDE DEF event, events
<1>9. ASSUME NEW x \in Occurred
      PROVE  /\ x \in Occurred'
             /\ Event(x).kind = "other" <=> (Event(x).kind = "other")'
             /\ Event(x).kind = "numbered" => (Event(x).kind = "numbered")'
             /\ x \in Listed => x \in Listed'
  <2>1. x[1] \in 1 .. Len(feed) /\ x[2] \in 1 .. Len(feed[x[1]].events)
    <3>1. x[1] \in 1 .. Len(feed)
      BY PlacesArePairs, BoundsAssumption DEF Occurred
    <3>2. Len(feed[x[1]].events) \in Nat
      BY <3>1, FeedParts
    <3> QED  BY <3>1, <3>2, PlacesArePairs, BoundsAssumption DEF Occurred
  <2>2. CASE x[1] # a
    <3>1. feed'[x[1]] = feed[x[1]]
      BY <1>6, <2>1, <2>2
    <3> QED  BY <1>6, <3>1 DEF Occurred, Event, Listed
  <2>3. CASE x[1] = a
    <3>1. feed[x[1]].events = old /\ feed'[x[1]].events = events /\ x[2] \in 1 .. Len(old)
      BY <1>4, <1>6, <2>1, <2>3 DEF old
    <3>2. feed'[x[1]].indexed = feed[x[1]].indexed
      BY <1>4, <1>6, <2>3
    <3>3. Event(x) = old[x[2]] /\ Event(x)' = events[x[2]]
      BY <3>1 DEF Event
    <3>4. x \in Occurred'
      BY <1>3, <1>6, <3>1 DEF Occurred
    <3>5. x \in Listed => x \in Listed'
      BY <1>8, <3>1, <3>2, <3>3, <3>4 DEF Listed
    <3> QED  BY <1>8, <3>1, <3>3, <3>4, <3>5
  <2> QED  BY <2>2, <2>3
<1>10. Kept
  BY <1>9 DEF Kept
<1> QED  BY <1>5, <1>6, <1>10

\* Whatever MLB does, the feed keeps its shape.
LEMMA FeedStepKeeps ==
    ASSUME feed \in Seq(Plays), FeedStep
    PROVE  feed' \in Seq(Plays) /\ Kept /\ NewsIsLate
BY NextPlayKeeps, NextEventKeeps, FillInEventKeeps, FillInPlayKeeps DEF FeedStep

\* And so the numbers of the pitches stand.
LEMMA NumbersStay ==
    ASSUME feed \in Seq(Plays), Kept, NEW x \in Occurred
    PROVE  PitchNumber(x)' = PitchNumber(x)
<1>1. x \in Places /\ x[1] \in 1 .. MaxPlays /\ x[2] \in 1 .. MaxEvents
  BY PlacesArePairs
<1>2. ASSUME NEW e \in 1 .. x[2]
      PROVE  feed[x[1]].events[e].kind # "other" <=> feed'[x[1]].events[e].kind # "other"
  <2> DEFINE y == <<x[1], e>>
  <2>1. e \in 1 .. MaxEvents /\ e <= x[2]
    BY <1>1, BoundsAssumption
  <2>2. y \in Places
    BY <1>1, <2>1 DEF Places
  <2>3. y[1] = x[1] /\ y[2] = e
    OBVIOUS
  <2> HIDE DEF y
  <2>4. Len(feed[x[1]].events) \in Nat
    <3>1. x[1] \in 1 .. Len(feed)
      BY <1>1, BoundsAssumption DEF Occurred
    <3> QED  BY <3>1, FeedParts
  <2>5. y[2] <= Len(feed[y[1]].events)
    BY <1>1, <2>1, <2>3, <2>4, BoundsAssumption DEF Occurred
  <2>6. y \in Occurred
    BY <2>2, <2>3, <2>5 DEF Occurred
  <2> QED  BY <2>3, <2>6 DEF Kept, Event
<1> QED  BY <1>2 DEF PitchNumber

(***************************************************************************)
(* The inductive invariant.                                                *)
(***************************************************************************)
Log == {raw[i] : i \in DOMAIN raw}

\* A record is of a listed pitch, in its at-bat, and under its pitch number unless
\* numbers were guessed in that at-bat.
RecordOK(r) ==
    /\ r.pitch \in Listed
    /\ r.id[1] = r.pitch[1] - 1
    /\ \/ r.pitch[1] \in guessed
       \/ Event(r.pitch).kind = "numbered" /\ r.id[2] = PitchNumber(r.pitch)
Traced == \A r \in Log : RecordOK(r)

\* The cursor is the id of the last record.
CursorAtEnd == cursor = IF raw = <<>> THEN NoCursor ELSE raw[Len(raw)].id

\* r stands behind q: in a later at-bat, or in the same, further on, unless numbers
\* were guessed there.
Follows(r, q) ==
    /\ q.pitch[1] <= r.pitch[1]
    /\ q.pitch[1] = r.pitch[1] =>
          q.pitch[1] \in guessed \/ (q.pitch[2] < r.pitch[2] /\ q.id[2] < r.id[2])
InSequence == \A h, i \in DOMAIN raw : h < i => Follows(raw[i], raw[h])

\* What is listed and neither published nor late stands behind the last record.
Ahead ==
    raw # <<>> =>
        \A x \in Listed \ (Published \cup late) :
            x[1] \in guessed \/ Before(raw[Len(raw)].pitch, x)

IInv == TypeOK /\ Traced /\ CursorAtEnd /\ InSequence /\ Ahead

Records == [id : Nat \X Nat, pitch : Places]

\* Of two pitches one is before the other.
LEMMA PlacesInOrder ==
    ASSUME NEW x \in Places, NEW y \in Places
    PROVE  x = y \/ Before(x, y) \/ Before(y, x)
<1>1. /\ x[1] \in Nat /\ x[2] \in Nat /\ x = <<x[1], x[2]>>
      /\ y[1] \in Nat /\ y[2] \in Nat /\ y = <<y[1], y[2]>>
  BY BoundsAssumption DEF Places
<1>2. x = y \/ x[1] # y[1] \/ x[2] # y[2]
  BY <1>1, Zenon
<1> QED  BY <1>1, <1>2 DEF Before

\* The parts of the log have their types.
LEMMA LogParts ==
    ASSUME TypeOK
    PROVE  /\ raw \in Seq(Records) /\ Len(raw) \in Nat /\ DOMAIN raw = 1 .. Len(raw)
           /\ \A i \in DOMAIN raw : raw[i] \in Records /\ raw[i] \in Log
           /\ \A r \in Log : /\ r \in Records /\ r.pitch \in Places /\ r.pitch \in Published
                             /\ r.id[1] \in Nat /\ r.id[2] \in Nat /\ r.id = <<r.id[1], r.id[2]>>
                             /\ r.pitch[1] \in Nat /\ r.pitch[2] \in Nat
           /\ raw # <<>> => Len(raw) \in DOMAIN raw
<1>1. raw \in Seq(Records)
  BY DEF TypeOK, Records
<1>2. Len(raw) \in Nat /\ DOMAIN raw = 1 .. Len(raw) /\ (raw # <<>> => Len(raw) \in DOMAIN raw)
  BY <1>1
<1>3. \A i \in DOMAIN raw : raw[i] \in Records /\ raw[i] \in Log
  BY <1>1, <1>2 DEF Log
<1>4. ASSUME NEW r \in Log
      PROVE  /\ r \in Records /\ r.pitch \in Places /\ r.pitch \in Published
             /\ r.id[1] \in Nat /\ r.id[2] \in Nat /\ r.id = <<r.id[1], r.id[2]>>
             /\ r.pitch[1] \in Nat /\ r.pitch[2] \in Nat
  <2>1. r \in Records /\ r.pitch \in Published
    BY <1>3 DEF Log, Published
  <2>2. r.pitch \in Places /\ r.id \in Nat \X Nat
    BY <2>1 DEF Records
  <2>3. r.pitch[1] \in Nat /\ r.pitch[2] \in Nat
    BY <2>2, PlacesArePairs
  <2> QED  BY <2>1, <2>2, <2>3
<1> QED  BY <1>1, <1>2, <1>3, <1>4

\* A change of the feed leaves what is published as it was.
LEMMA FeedStepLeaves ==
    ASSUME FeedStep
    PROVE  UNCHANGED <<guessed, cursor, raw>> /\ late \subseteq late' /\ late' \subseteq late \cup Listed'
BY DEF FeedStep, NextPlay, NextEvent, FillInEvent, FillInPlay, Behind

LEMMA FeedStepPreserves ==
    ASSUME IInv, FeedStep
    PROVE  IInv'
<1>0. TypeOK /\ Traced /\ CursorAtEnd /\ InSequence /\ Ahead /\ feed \in Seq(Plays)
  BY DEF IInv, TypeOK, Plays
<1>1. feed' \in Seq(Plays) /\ Kept /\ NewsIsLate
  BY <1>0, FeedStepKeeps
<1>2. UNCHANGED <<guessed, cursor, raw>> /\ late \subseteq late' /\ late' \subseteq late \cup Listed'
  BY FeedStepLeaves
<1>3. TypeOK'
  <2>1. Listed' \subseteq Places
    BY DEF Listed, Occurred
  <2> QED  BY <1>0, <1>1, <1>2, <2>1 DEF TypeOK, Plays
<1>4. Traced'
  <2>1. Log' = Log
    BY <1>2 DEF Log
  <2>2. ASSUME NEW r \in Log
        PROVE  RecordOK(r)'
    <3>1. RecordOK(r) /\ r.pitch \in Occurred
      BY <1>0, PlacesArePairs DEF Traced, RecordOK
    <3>2. PitchNumber(r.pitch)' = PitchNumber(r.pitch)
      BY <1>0, <1>1, <3>1, NumbersStay
    <3>3. /\ r.pitch \in Listed'
          /\ Event(r.pitch).kind = "numbered" => (Event(r.pitch).kind = "numbered")'
      BY <1>1, <3>1 DEF Kept, RecordOK
    <3> QED  BY <1>2, <3>1, <3>2, <3>3 DEF RecordOK
  <2> QED  BY <2>1, <2>2 DEF Traced
<1>5. CursorAtEnd'
  BY <1>0, <1>2 DEF CursorAtEnd
<1>6. InSequence'
  BY <1>0, <1>2 DEF InSequence, Follows
<1>7. Ahead'
  <2> SUFFICES ASSUME raw # <<>>, NEW x \in Listed', x \notin Published, x \notin late',
                      x[1] \notin guessed
               PROVE  Before(raw[Len(raw)].pitch, x)
    BY <1>2 DEF Ahead, Published
  <2>1. CASE x \in Listed
    BY <1>0, <1>2, <2>1 DEF Ahead
  <2>2. CASE x \notin Listed
    <3> DEFINE l == raw[Len(raw)].pitch
    <3>1. raw[Len(raw)] \in Log /\ l \in Places
      BY <1>0, LogParts
    <3>2. l \in Listed
      BY <1>0, <3>1 DEF Traced, RecordOK
    <3>3. ~ Before(x, l)
      BY <1>1, <2>2, <3>2 DEF NewsIsLate
    <3>4. x \in Places
      BY DEF Listed, Occurred
    <3> QED  BY <2>2, <3>1, <3>2, <3>3, <3>4, PlacesInOrder
  <2> QED  BY <2>1, <2>2
<1> QED  BY <1>3, <1>4, <1>5, <1>6, <1>7 DEF IInv

\* What the cursor does not cover is in its at-bat, under a higher number, or in a
\* later one.
LEMMA AfterCursor ==
    ASSUME TypeOK, CursorAtEnd, Traced, raw # <<>>, NEW x \in Fresh
    PROVE  LET l == raw[Len(raw)]
           IN  l.pitch[1] <= x[1] /\ (l.pitch[1] = x[1] => l.id[2] < Number(x))
<1> DEFINE l == raw[Len(raw)]
<1>1. l \in Log
  BY LogParts
<1>2. /\ l.id[1] \in Nat /\ l.id[2] \in Nat /\ l.id = <<l.id[1], l.id[2]>>
      /\ l.pitch[1] \in Nat /\ l.id[1] = l.pitch[1] - 1
  BY <1>1, LogParts DEF Traced, RecordOK
<1>3. cursor = l.id
  BY DEF CursorAtEnd
<1>a. l.id \in Nat \X Nat
  BY <1>1, LogParts DEF Records
<1> HIDE DEF l
<1>4. cursor # NoCursor
  BY <1>a, <1>3, NoCursorAssumption, Zenon
<1>5. x \in Places /\ ~ Covers(cursor, EventId(x))
  BY PlacesArePairs DEF Fresh
<1>6. x[1] \in Nat /\ Number(x) \in Nat /\ EventId(x) = <<x[1] - 1, Number(x)>>
  BY <1>5, PlacesArePairs, NumberType, BoundsAssumption DEF EventId
<1>7. EventId(x) # l.id /\ ~ Before(EventId(x), l.id)
  BY <1>3, <1>4, <1>5 DEF Covers
<1>8. EventId(x)[1] = x[1] - 1 /\ EventId(x)[2] = Number(x)
  BY <1>6
<1>9. ~ (x[1] - 1 < l.id[1]) /\ (x[1] - 1 = l.id[1] => Number(x) # l.id[2] /\ ~ (Number(x) < l.id[2]))
  BY <1>2, <1>6, <1>7, <1>8 DEF Before
<1> QED  BY <1>2, <1>6, <1>9 DEF l

\* Where no number is guessed a poll uses those of the feed.
LEMMA GuessNoted ==
    ASSUME Poll
    PROVE  /\ guessed \subseteq guessed'
           /\ \A x \in Listed : x[1] \notin guessed' =>
                 Event(x).kind = "numbered" /\ Number(x) = PitchNumber(x)
<1>1. guessed' = guessed \cup {x[1] : x \in {y \in Listed : Event(y).kind = "unnumbered"}}
  BY DEF Poll
<1>2. ASSUME NEW x \in Listed, x[1] \notin guessed'
      PROVE  Event(x).kind = "numbered"
  BY <1>1, <1>2 DEF Listed
<1> QED  BY <1>1, <1>2 DEF Number

\* What a poll makes of the log: it adds the fresh pitches in the order of the feed.
Extends(fresh, n) ==
    /\ n = Cardinality(Fresh) /\ n \in Nat
    /\ Ordered(fresh)
    /\ raw' \in Seq(Records)
    /\ Len(raw') = Len(raw) + n
    /\ DOMAIN raw' = 1 .. Len(raw) + n
    /\ \A i \in 1 .. Len(raw) : raw'[i] = raw[i]
    /\ \A i \in 1 .. n : raw'[Len(raw) + i] = Record(fresh[i])

LEMMA PollExtends ==
    ASSUME TypeOK, Poll
    PROVE  \E fresh, n : Extends(fresh, n)
<1> DEFINE fresh == InOrder(Fresh, Precedence)
           n == Cardinality(Fresh)
           new == [i \in DOMAIN fresh |-> Record(fresh[i])]
<1>1. n \in Nat /\ Ordered(fresh)
  BY FreshListed, FS_CardinalityType
<1>2. raw \in Seq(Records) /\ Len(raw) \in Nat
  BY LogParts
<1>3. raw' = raw \o new
  BY DEF Poll
<1>4. DOMAIN fresh = 1 .. n /\ \A i \in 1 .. n : fresh[i] \in Fresh
  BY <1>1 DEF Ordered, Lists
<1>5. \A x \in Fresh : Record(x) \in Records
  BY PlacesArePairs, NumberType DEF Fresh, Record, Records
<1> HIDE DEF fresh, n
<1>6. /\ new \in Seq(Records) /\ Len(new) = n
      /\ \A i \in 1 .. n : new[i] = Record(fresh[i])
  BY <1>1, <1>4, <1>5
<1> HIDE DEF new
<1>7. /\ raw' \in Seq(Records)
      /\ Len(raw') = Len(raw) + n
      /\ DOMAIN raw' = 1 .. Len(raw) + n
      /\ \A i \in 1 .. Len(raw) : raw'[i] = raw[i]
      /\ \A i \in 1 .. n : raw'[Len(raw) + i] = new[i]
  <2>1. \A s, t \in Seq(Records) :
           /\ s \o t \in Seq(Records)
           /\ Len(s \o t) = Len(s) + Len(t)
           /\ DOMAIN (s \o t) = 1 .. Len(s) + Len(t)
           /\ \A i \in 1 .. Len(s) : (s \o t)[i] = s[i]
           /\ \A i \in 1 .. Len(t) : (s \o t)[Len(s) + i] = t[i]
    OBVIOUS
  <2> QED  BY <1>2, <1>3, <1>6, <2>1
<1>8. Extends(fresh, n)
  BY <1>1, <1>6, <1>7 DEF Extends, n
<1> QED  BY <1>8

\* A record of a poll.
LEMMA NewRecords ==
    ASSUME TypeOK, Poll, NEW x \in Fresh
    PROVE  /\ Record(x).id = EventId(x) /\ Record(x).pitch = x
           /\ x \in Listed /\ x \in Places /\ x \in Occurred
           /\ x[1] \in Nat /\ x[2] \in Nat /\ Number(x) \in Nat
           /\ EventId(x)[1] = x[1] - 1 /\ EventId(x)[2] = Number(x)
           /\ x[1] \notin guessed' => Event(x).kind = "numbered" /\ Number(x) = PitchNumber(x)
<1>1. x \in Listed /\ x \in Places /\ x \in Occurred
  BY PlacesArePairs DEF Fresh
<1>2. x[1] \in Nat /\ x[2] \in Nat /\ Number(x) \in Nat
  BY <1>1, PlacesArePairs, NumberType
<1>3. Record(x).id = EventId(x) /\ Record(x).pitch = x
  BY DEF Record
<1>4. EventId(x)[1] = x[1] - 1 /\ EventId(x)[2] = Number(x)
  BY DEF EventId
<1> QED  BY <1>1, <1>2, <1>3, <1>4, GuessNoted

\* The log gets the records of the fresh pitches and no others.
LEMMA PollAdds ==
    ASSUME TypeOK, NEW fresh, NEW n, Extends(fresh, n)
    PROVE  Log' = Log \cup {Record(x) : x \in Fresh}
<1>1. Len(raw) \in Nat /\ n \in Nat /\ DOMAIN raw = 1 .. Len(raw)
  BY LogParts DEF Extends
<1>2. \A i \in 1 .. n : fresh[i] \in Fresh
  BY DEF Extends, Ordered, Lists
<1>3. \A x \in Fresh : \E i \in 1 .. n : fresh[i] = x
  BY DEF Extends, Ordered, Lists
<1>4. ASSUME NEW i \in DOMAIN raw'
      PROVE  raw'[i] \in Log \cup {Record(x) : x \in Fresh}
  <2>1. i \in 1 .. Len(raw) + n
    BY DEF Extends
  <2>2. CASE i \in 1 .. Len(raw)
    BY <1>1, <2>2 DEF Extends, Log
  <2>3. CASE i \notin 1 .. Len(raw)
    <3>1. i - Len(raw) \in 1 .. n /\ i = Len(raw) + (i - Len(raw))
      BY <1>1, <2>1, <2>3
    <3>2. raw'[i] = Record(fresh[i - Len(raw)])
      BY <3>1 DEF Extends
    <3> QED  BY <1>2, <3>1, <3>2
  <2> QED  BY <2>2, <2>3
<1>5. ASSUME NEW r \in Log
      PROVE  r \in Log'
  <2>1. PICK i \in 1 .. Len(raw) : r = raw[i]
    BY <1>1 DEF Log
  <2>2. i \in 1 .. Len(raw) + n
    BY <1>1
  <2> QED  BY <2>1, <2>2 DEF Extends, Log
<1>6. ASSUME NEW x \in Fresh
      PROVE  Record(x) \in Log'
  <2>1. PICK i \in 1 .. n : fresh[i] = x
    BY <1>3
  <2>2. Len(raw) + i \in 1 .. Len(raw) + n
    BY <1>1
  <2> QED  BY <2>1, <2>2 DEF Extends, Log
<1>7. \A r \in Log' : r \in Log \cup {Record(x) : x \in Fresh}
  BY <1>4 DEF Log
<1> QED  BY <1>5, <1>6, <1>7, Zenon

\* A record stays what it was.
LEMMA PollTraces ==
    ASSUME IInv, Poll, NEW fresh, NEW n, Extends(fresh, n)
    PROVE  Traced'
<1>0. TypeOK /\ Traced
  BY DEF IInv
<1>1. Log' = Log \cup {Record(x) : x \in Fresh}
  BY <1>0, PollAdds
<1>2. UNCHANGED <<feed, late>> /\ guessed \subseteq guessed'
  BY GuessNoted DEF Poll
<1>3. Listed' = Listed /\ Occurred' = Occurred
  BY <1>2 DEF Listed, Occurred, Event
<1>4. \A x : PitchNumber(x)' = PitchNumber(x) /\ Event(x)' = Event(x)
  BY <1>2 DEF PitchNumber, Event
<1>5. ASSUME NEW r \in Log
      PROVE  RecordOK(r)'
  BY <1>0, <1>2, <1>3, <1>4 DEF Traced, RecordOK
<1>6. ASSUME NEW x \in Fresh, NEW r, r = Record(x)
      PROVE  RecordOK(r)'
  <2>1. /\ r.id = EventId(x) /\ r.pitch = x /\ x \in Listed
        /\ EventId(x)[1] = x[1] - 1 /\ EventId(x)[2] = Number(x)
        /\ x[1] \notin guessed' => Event(x).kind = "numbered" /\ Number(x) = PitchNumber(x)
    BY <1>0, <1>6, NewRecords
  <2>2. r.id[1] = r.pitch[1] - 1 /\ r.pitch \in Listed'
    BY <1>3, <2>1
  <2>3. \/ r.pitch[1] \in guessed'
        \/ Event(r.pitch)'.kind = "numbered" /\ r.id[2] = PitchNumber(r.pitch)'
    BY <1>4, <2>1
  <2> QED  BY <2>2, <2>3 DEF RecordOK
<1>7. ASSUME NEW r \in Log'
      PROVE  RecordOK(r)'
  <2>1. r \in Log \/ \E x \in Fresh : r = Record(x)
    BY <1>1
  <2> QED  BY <1>5, <1>6, <2>1
<1> QED  BY <1>7 DEF Traced

\* The cursor ends with the log.
LEMMA PollMovesCursor ==
    ASSUME IInv, Poll, NEW fresh, NEW n, Extends(fresh, n)
    PROVE  CursorAtEnd'
<1>0. TypeOK /\ CursorAtEnd
  BY DEF IInv
<1>1. raw \in Seq(Records) /\ raw' \in Seq(Records) /\ Len(raw) \in Nat /\ n \in Nat
  BY <1>0, LogParts DEF Extends
<1>2. cursor' = IF Fresh = {} THEN cursor ELSE raw'[Len(raw')].id
  BY DEF Poll, Last
<1>3. IsFiniteSet(Fresh) /\ (n = 0 <=> Fresh = {})
  BY FreshListed, FS_EmptySet DEF Extends
<1>4. Len(raw') = Len(raw) + n /\ \A i \in 1 .. Len(raw) : raw'[i] = raw[i]
  BY DEF Extends
<1>5. CASE Fresh = {}
  <2>1. raw' = raw
    BY <1>1, <1>3, <1>4, <1>5
  <2> QED  BY <1>0, <1>2, <1>5, <2>1 DEF CursorAtEnd
<1>6. CASE Fresh # {}
  <2>1. raw' # <<>>
    BY <1>1, <1>3, <1>4, <1>6
  <2> QED  BY <1>2, <1>6, <2>1 DEF CursorAtEnd
<1> QED  BY <1>5, <1>6

\* The fresh pitches stand behind the published ones, and in the order of the feed.
LEMMA PollInSequence ==
    ASSUME IInv, Poll, NEW fresh, NEW n, Extends(fresh, n)
    PROVE  InSequence'
<1>0. TypeOK /\ Traced /\ CursorAtEnd /\ InSequence /\ feed \in Seq(Plays)
  BY DEF IInv, TypeOK, Plays
<1>1. /\ Len(raw) \in Nat /\ n \in Nat /\ DOMAIN raw = 1 .. Len(raw)
      /\ guessed \subseteq guessed'
  BY <1>0, LogParts, GuessNoted DEF Extends
<1>2. n = Cardinality(Fresh) /\ Lists(fresh, Fresh, Precedence)
  BY DEF Extends, Ordered
\* Two old records.
<1>3. ASSUME NEW h \in 1 .. Len(raw), NEW i \in 1 .. Len(raw), h < i,
             NEW q, NEW r, q = raw[h], r = raw[i]
      PROVE  Follows(r, q)'
  BY <1>0, <1>1, <1>3 DEF InSequence, Follows
\* An old record and a new one.
<1>4. ASSUME NEW h \in 1 .. Len(raw), NEW x \in Fresh, NEW q, NEW r, q = raw[h], r = Record(x)
      PROVE  Follows(r, q)'
  <2> DEFINE l == raw[Len(raw)]
  <2>1. raw # <<>> /\ Len(raw) \in DOMAIN raw
    BY <1>1
  <2>2. l \in Log /\ q \in Log
    BY <1>0, <1>1, <1>4, <2>1, LogParts
  <2>3. /\ l.pitch[1] \in Nat /\ l.pitch[2] \in Nat /\ l.id[2] \in Nat
        /\ q.pitch[1] \in Nat /\ q.pitch[2] \in Nat /\ q.id[2] \in Nat
        /\ RecordOK(l) /\ l.pitch \in Places
    BY <1>0, <2>2, LogParts DEF Traced
  <2>4. /\ r.id = EventId(x) /\ r.pitch = x /\ r.id[2] = Number(x) /\ x \in Occurred
        /\ x[1] \in Nat /\ x[2] \in Nat /\ Number(x) \in Nat /\ x \in Listed
        /\ x[1] \notin guessed' => Event(x).kind = "numbered" /\ Number(x) = PitchNumber(x)
    BY <1>0, <1>4, NewRecords
  <2>5. l.pitch[1] <= x[1] /\ (l.pitch[1] = x[1] => l.id[2] < Number(x))
    BY <1>0, <2>1, AfterCursor
  <2>6. q = l \/ Follows(l, q)
    BY <1>0, <1>1, <1>4, <2>1 DEF InSequence
  <2>7. ASSUME l.pitch[1] = x[1], x[1] \notin guessed'
        PROVE  l.pitch[2] < x[2]
    <3>1. l.id[2] = PitchNumber(l.pitch) /\ l.pitch \in Occurred
      BY <1>1, <2>3, <2>7, PlacesArePairs DEF RecordOK
    <3>2. PitchNumber(l.pitch) < PitchNumber(x)
      BY <2>4, <2>5, <2>7, <3>1
    <3>3. /\ x[2] < l.pitch[2] => PitchNumber(x) <= PitchNumber(l.pitch)
          /\ PitchNumber(x) \in Nat /\ PitchNumber(l.pitch) \in Nat
      BY <1>0, <2>3, <2>4, <2>7, <3>1, NumbersGrow, NumberType, PlacesArePairs
    <3>4. x[2] = l.pitch[2] => x = l.pitch
      <4>1. x \in Places /\ x = <<x[1], x[2]>> /\ l.pitch = <<l.pitch[1], l.pitch[2]>>
        BY <2>3, <2>4, PlacesArePairs DEF Places
      <4> QED  BY <2>7, <4>1, Zenon
    <3> QED  BY <2>3, <2>4, <3>2, <3>3, <3>4
  <2> HIDE DEF l
  <2>8. q.pitch[1] <= l.pitch[1]
        /\ (q.pitch[1] = l.pitch[1] /\ q.pitch[1] \notin guessed' =>
               q.pitch[2] <= l.pitch[2] /\ q.id[2] <= l.id[2])
    BY <1>1, <2>3, <2>6 DEF Follows
  <2>9. q.pitch[1] <= x[1]
    BY <2>3, <2>4, <2>5, <2>8
  <2>10. q.pitch[1] = x[1] /\ q.pitch[1] \notin guessed' =>
            q.pitch[2] < x[2] /\ q.id[2] < Number(x)
    BY <2>3, <2>4, <2>5, <2>7, <2>8
  <2> QED  BY <2>4, <2>9, <2>10 DEF Follows
\* Two new records.
<1>5. ASSUME NEW x \in Fresh, NEW y \in Fresh, <<x, y>> \in Precedence,
             NEW q, NEW r, q = Record(x), r = Record(y)
      PROVE  Follows(r, q)'
  <2>1. /\ q.pitch = x /\ q.id[2] = Number(x) /\ x \in Occurred
        /\ x[1] \in Nat /\ x[2] \in Nat /\ x \in Listed
        /\ x[1] \notin guessed' => Event(x).kind = "numbered" /\ Number(x) = PitchNumber(x)
    BY <1>0, <1>5, NewRecords
  <2>2. /\ r.pitch = y /\ r.id[2] = Number(y) /\ y \in Occurred
        /\ y[1] \in Nat /\ y[2] \in Nat /\ y \in Listed
        /\ y[1] \notin guessed' => Event(y).kind = "numbered" /\ Number(y) = PitchNumber(y)
    BY <1>0, <1>5, NewRecords
  <2>3. Before(x, y)
    BY <1>5 DEF Precedence
  <2>4. x[1] <= y[1] /\ (x[1] = y[1] => x[2] < y[2])
    BY <2>1, <2>2, <2>3 DEF Before
  <2>5. x[1] = y[1] /\ x[1] \notin guessed' => Number(x) < Number(y)
    BY <1>0, <2>1, <2>2, <2>4, NumbersGrow
  <2> QED  BY <2>1, <2>2, <2>4, <2>5 DEF Follows
<1>6. ASSUME NEW h \in 1 .. Len(raw) + n, NEW i \in 1 .. Len(raw) + n, h < i,
             NEW q, NEW r, q = raw'[h], r = raw'[i]
      PROVE  Follows(r, q)'
  <2>1. CASE i <= Len(raw)
    <3>1. h \in 1 .. Len(raw) /\ i \in 1 .. Len(raw)
      BY <1>1, <1>6, <2>1
    <3>2. q = raw[h] /\ r = raw[i]
      BY <1>6, <3>1 DEF Extends
    <3> QED  BY <1>3, <1>6, <3>1, <3>2
  <2>2. CASE i > Len(raw)
    <3>1. i - Len(raw) \in 1 .. n /\ i = Len(raw) + (i - Len(raw))
      BY <1>1, <2>2
    <3>2. r = Record(fresh[i - Len(raw)]) /\ fresh[i - Len(raw)] \in Fresh
      BY <1>2, <1>6, <3>1 DEF Extends, Lists
    <3>3. CASE h <= Len(raw)
      <4>1. h \in 1 .. Len(raw) /\ q = raw[h]
        BY <1>1, <1>6, <3>3 DEF Extends
      <4> QED  BY <1>4, <3>2, <4>1
    <3>4. CASE h > Len(raw)
      <4>1. h - Len(raw) \in 1 .. n /\ h = Len(raw) + (h - Len(raw)) /\ h - Len(raw) < i - Len(raw)
        BY <1>1, <1>6, <3>4
      <4>2. q = Record(fresh[h - Len(raw)]) /\ fresh[h - Len(raw)] \in Fresh
        BY <1>2, <1>6, <4>1 DEF Extends, Lists
      <4>3. <<fresh[h - Len(raw)], fresh[i - Len(raw)]>> \in Precedence
        BY <1>2, <3>1, <4>1 DEF Lists
      <4> QED  BY <1>5, <3>2, <4>2, <4>3
    <3> QED  BY <1>1, <3>3, <3>4
  <2> QED  BY <1>1, <2>1, <2>2
<1>7. DOMAIN raw' = 1 .. Len(raw) + n
  BY DEF Extends
<1> QED  BY <1>6, <1>7 DEF InSequence

\* What the cursor covers is published or late, unless a number guessed in the same
\* at-bat stands in its place.
LEMMA NotCovered ==
    ASSUME IInv, NEW x \in Listed, x \notin Published, x \notin late,
           x[1] \notin guessed, Event(x).kind = "numbered"
    PROVE  ~ Covers(cursor, EventId(x))
<1>0. TypeOK /\ Traced /\ CursorAtEnd /\ Ahead /\ feed \in Seq(Plays)
  BY DEF IInv, TypeOK, Plays
<1>1. /\ x \in Places /\ x \in Occurred /\ x[1] \in Nat /\ x[2] \in Nat
      /\ Number(x) \in Nat /\ EventId(x) = <<x[1] - 1, Number(x)>>
  BY PlacesArePairs, NumberType DEF EventId
<1>2. Event(x).kind = "numbered" /\ Number(x) = PitchNumber(x) /\ x[1] \notin guessed
  BY DEF Number
<1> SUFFICES ASSUME Covers(cursor, EventId(x)) PROVE FALSE
  OBVIOUS
<1> DEFINE l == raw[Len(raw)]
<1>3. raw # <<>> /\ cursor = l.id
  BY <1>0 DEF Covers, CursorAtEnd
<1>4. Before(l.pitch, x)
  BY <1>0, <1>2, <1>3 DEF Ahead
<1>5. l \in Log /\ RecordOK(l)
  BY <1>0, <1>3, LogParts DEF Traced
<1>6. /\ l.pitch[1] \in Nat /\ l.pitch[2] \in Nat /\ l.id[2] \in Nat
      /\ l.id[1] = l.pitch[1] - 1 /\ l.pitch \in Occurred
  BY <1>0, <1>5, LogParts, PlacesArePairs DEF RecordOK
<1>7. l.pitch[1] = x[1] => l.id[2] < Number(x)
  <2> SUFFICES ASSUME l.pitch[1] = x[1] PROVE l.id[2] < Number(x)
    OBVIOUS
  <2>1. l.id[2] = PitchNumber(l.pitch)
    BY <1>2, <1>5 DEF RecordOK
  <2>2. l.pitch[2] < x[2]
    BY <1>1, <1>4, <1>6 DEF Before
  <2>3. PitchNumber(l.pitch) < PitchNumber(x)
    BY <1>0, <1>1, <1>2, <1>6, <2>2, NumbersGrow
  <2> QED  BY <1>2, <2>1, <2>3
<1>8. EventId(x)[1] = x[1] - 1 /\ EventId(x)[2] = Number(x)
  BY <1>1
<1> HIDE DEF l
<1>9. EventId(x) # l.id
  BY <1>1, <1>4, <1>6, <1>7, <1>8 DEF Before
<1>10. ~ Before(EventId(x), l.id)
  BY <1>1, <1>4, <1>6, <1>7, <1>8 DEF Before
<1> QED  BY <1>3, <1>9, <1>10 DEF Covers

\* A poll publishes what is left, apart from what is late or lost to a guess.
LEMMA PollPublishes ==
    ASSUME IInv, Poll, NEW x \in Listed, x \notin late, x[1] \notin guessed'
    PROVE  x \in Published'
<1>0. TypeOK
  BY DEF IInv
<1>1. PICK fresh, n : Extends(fresh, n)
  BY <1>0, PollExtends
<1>2. Log' = Log \cup {Record(y) : y \in Fresh}
  BY <1>0, <1>1, PollAdds
<1>3. Published = {r.pitch : r \in Log} /\ Published' = {r.pitch : r \in Log'}
  BY DEF Published, Log
<1>4. CASE x \in Published
  BY <1>2, <1>3, <1>4
<1>5. CASE x \notin Published
  <2>1. x[1] \notin guessed /\ Event(x).kind = "numbered"
    BY GuessNoted
  <2>2. x \in Fresh
    BY <1>5, <2>1, NotCovered DEF Fresh
  <2>3. Record(x) \in Log' /\ Record(x).pitch = x
    BY <1>2, <2>2 DEF Record
  <2> QED  BY <1>3, <2>3
<1> QED  BY <1>4, <1>5

LEMMA PollPreserves ==
    ASSUME IInv, Poll
    PROVE  IInv'
<1>0. TypeOK
  BY DEF IInv
<1>1. PICK fresh, n : Extends(fresh, n)
  BY <1>0, PollExtends
<1>2. UNCHANGED <<feed, late>>
  BY DEF Poll
<1>3. Listed' = Listed
  BY <1>2 DEF Listed, Occurred, Event
<1>4. raw' \in Seq(Records) /\ Log' = Log \cup {Record(x) : x \in Fresh}
  BY <1>0, <1>1, PollAdds DEF Extends
<1>5. TypeOK'
  <2>1. guessed' \subseteq 1 .. MaxPlays
    BY <1>0, PlacesArePairs DEF Poll, TypeOK
  <2>2. cursor' \in (Nat \X Nat) \cup {NoCursor}
    <3>1. CASE raw' = <<>>
      BY <1>1, <3>1, PollMovesCursor DEF CursorAtEnd
    <3>2. CASE raw' # <<>>
      <4>1. raw'[Len(raw')] \in Records
        BY <1>4, <3>2
      <4>2. cursor' = raw'[Len(raw')].id
        BY <1>1, <3>2, PollMovesCursor DEF CursorAtEnd
      <4> QED  BY <4>1, <4>2 DEF Records
    <3> QED  BY <3>1, <3>2
  <2> QED  BY <1>0, <1>2, <1>4, <2>1, <2>2 DEF TypeOK, Records
<1>6. Ahead'
  BY <1>2, <1>3, PollPublishes DEF Ahead
<1> QED  BY <1>1, <1>5, <1>6, PollTraces, PollMovesCursor, PollInSequence DEF IInv

LEMMA Inductive == Spec => []IInv
<1>1. Init => IInv
  BY DEF Init, IInv, TypeOK, Traced, Log, CursorAtEnd, InSequence, Ahead
<1>2. ASSUME IInv, [Next]_vars
      PROVE  IInv'
  <2>1. CASE Next
    <3>1. FeedStep \/ Poll
      BY <2>1 DEF Next, FeedStep
    <3> QED  BY <1>2, <3>1, FeedStepPreserves, PollPreserves
  <2>2. CASE UNCHANGED vars
    <3>1. UNCHANGED <<feed, late, guessed, cursor, raw>>
      BY <2>2 DEF vars
    <3>2. TypeOK' /\ CursorAtEnd' /\ InSequence'
      BY <1>2, <3>1 DEF IInv, TypeOK, CursorAtEnd, InSequence, Follows
    <3>3. Occurred' = Occurred /\ Log' = Log /\ Published' = Published
      BY <3>1 DEF Occurred, Log, Published
    <3>4. Listed' = Listed
      BY <3>1, <3>3 DEF Listed, Event
    <3>5. Traced'
      <4>1. \A r \in Log : RecordOK(r)'
        BY <1>2, <3>1, <3>4 DEF IInv, Traced, RecordOK, Event, PitchNumber
      <4> QED  BY <3>3, <4>1 DEF Traced
    <3>6. Ahead'
      BY <1>2, <3>1, <3>3, <3>4 DEF IInv, Ahead
    <3> QED  BY <3>2, <3>5, <3>6 DEF IInv
  <2> QED  BY <1>2, <2>1, <2>2
<1> QED  BY <1>1, <1>2, PTL DEF Spec

(***************************************************************************)
(* The properties.                                                         *)
(***************************************************************************)
\* Everything has the type the code gives it (parser.py, cursor.py).
THEOREM TypeCorrect == Spec => []TypeOK
<1>1. IInv => TypeOK
  BY DEF IInv
<1> QED  BY <1>1, Inductive, PTL

\* Apart from at-bats where the parser took an index for a pitch number, the records
\* of a game, and their ids, are in the order of the feed (parser.py:97-201,
\* ingestor.py:190-212).
THEOREM OrderOfTheFeed == Spec => []RecordsFollowFeed
<1>1. IInv => RecordsFollowFeed
  <2> SUFFICES ASSUME IInv, NEW h \in DOMAIN raw, NEW i \in DOMAIN raw, h < i
               PROVE  \/ Before(raw[h].pitch, raw[i].pitch) /\ Before(raw[h].id, raw[i].id)
                      \/ Guessed(raw[h].pitch) /\ Guessed(raw[i].pitch)
    BY DEF RecordsFollowFeed
  <2>1. Follows(raw[i], raw[h]) /\ RecordOK(raw[h]) /\ RecordOK(raw[i])
    BY LogParts DEF IInv, InSequence, Traced
  <2>2. /\ raw[h].pitch[1] \in Nat /\ raw[h].pitch[2] \in Nat
        /\ raw[i].pitch[1] \in Nat /\ raw[i].pitch[2] \in Nat
        /\ raw[h].id[1] = raw[h].pitch[1] - 1 /\ raw[i].id[1] = raw[i].pitch[1] - 1
    BY <2>1, LogParts DEF IInv, RecordOK
  <2> QED  BY <2>1, <2>2 DEF Follows, Before, Guessed
<1> QED  BY <1>1, Inductive, PTL

\* The cursor leaves a pitch behind only when MLB listed it behind one already listed,
\* or when a number was guessed in the same at-bat (parser.py:97-201,
\* ingestor.py:190-212).
THEOREM NothingSkippedOtherwise == Spec => []SkippedOnlyIfLateOrGuessed
<1>1. IInv => SkippedOnlyIfLateOrGuessed
  <2> SUFFICES ASSUME IInv, NEW x \in Listed, x \notin Published, Covers(cursor, EventId(x)),
                      x \notin late, ~ Guessed(x)
               PROVE  FALSE
    BY DEF SkippedOnlyIfLateOrGuessed
  <2>1. x[1] \notin guessed /\ Event(x).kind = "numbered"
    BY PlacesArePairs DEF Guessed, Listed
  <2> QED  BY <2>1, NotCovered
<1> QED  BY <1>1, Inductive, PTL

\* A poll that the feed lets through catches up with it, whatever went wrong before:
\* what it leaves unpublished is late, or lost to a guess in its at-bat
\* (ingestor.py:174-225).
THEOREM PollsCatchUp == Spec => [][Poll => CaughtUp']_vars
<1>1. IInv /\ Poll => CaughtUp'
  <2> SUFFICES ASSUME IInv, Poll, NEW x \in Listed', x \notin late', ~ Guessed(x)'
               PROVE  x \in Published'
    BY DEF CaughtUp
  <2>1. UNCHANGED <<feed, late>> /\ x[1] \notin guessed'
    BY DEF Poll, Guessed
  <2>2. x \in Listed
    BY <2>1 DEF Listed, Occurred, Event
  <2> QED  BY <2>1, <2>2, PollPublishes
<1>2. IInv /\ [Next]_vars => [Poll => CaughtUp']_vars
  BY <1>1
<1> QED  BY <1>2, Inductive, PTL DEF Spec
=============================================================================
