--------------------------- MODULE PayloadProofs ---------------------------
(***************************************************************************)
(* A message survives the way through its row, for all builds that keep    *)
(* the rules of schemas/proto/README.md.                                   *)
(***************************************************************************)
EXTENDS Payload, TLAPS

\* A value of a field: enum numbers have a name in both builds, a text is one of JSON,
\* and nothing but a text that says nothing is null in JSON.
IsValue(a, b, kind, v) ==
    /\ kind = "enum" => v \in DOMAIN a.names \cap DOMAIN b.names
    /\ kind = "text" => v = NoText \/ v = Text(v[2]) \/ v = TextOfColumn(v[2])
    /\ kind # "text" => ToJson(a, kind, v) # Null

IsMessage(a, b, m) ==
    /\ \A n \in Known(a.spine, m.spine) : IsValue(a, b, a.spine[n], m.spine[n])
    /\ \A n \in Known(a.body, m.body) : IsValue(a, b, a.body[n], m.body[n])

\* A value that is not null in JSON comes back as it was, a text with the layout of the
\* column.
LEMMA ValueComesBack ==
    ASSUME NEW a, NEW b, Compatible(a, b), NEW v,
           NEW kind \in {"scalar", "timestamp", "enum", "text"}, IsValue(a, b, kind, v),
           ToJson(a, kind, v) # Null
    PROVE  FromJson(b, kind, ToJson(a, kind, v)) = IF kind = "text" THEN TextOfColumn(v[2]) ELSE v
<1>1. CASE kind = "scalar"
  BY <1>1 DEF ToJson, FromJson
<1>2. CASE kind = "timestamp"
  BY <1>2 DEF ToJson, FromJson
<1>3. CASE kind = "text"
  BY <1>3 DEF ToJson, FromJson, IsValue, Text, NoText
<1>4. CASE kind = "enum"
  <2>1. v \in DOMAIN a.names /\ v \in DOMAIN b.names /\ a.names[v] = b.names[v]
    BY <1>4 DEF IsValue, Compatible
  <2>2. \A x \in DOMAIN b.names : b.names[x] = b.names[v] => x = v
    BY <2>1 DEF Compatible, IsBuild, Injective
  <2>3. (CHOOSE x \in DOMAIN b.names : b.names[x] = a.names[v]) = v
    BY <2>1, <2>2
  <2> QED  BY <1>4, <2>3 DEF ToJson, FromJson
<1> QED  BY <1>1, <1>2, <1>3, <1>4

\* Only a text that says nothing is null in JSON.
LEMMA NullIsSilent ==
    ASSUME NEW a, NEW b, NEW m, IsBuild(a), IsMessage(a, b, m), NEW n \in Known(a.body, m.body)
    PROVE  ToJson(a, a.body[n], m.body[n]) = Null <=> Silent(m, n)
<1>1. IsValue(a, b, a.body[n], m.body[n]) /\ n \in DOMAIN a.body
  BY DEF IsMessage, Known
<1>2. CASE n = RawField
  <2>1. a.body[n] = "text"
    BY <1>1, <1>2 DEF IsBuild
  <2> QED  BY <1>2, <2>1 DEF ToJson, Silent
<1>3. CASE n # RawField
  <2>1. a.body[n] # "text"
    BY <1>1, <1>3 DEF IsBuild
  <2> QED  BY <1>1, <1>3, <2>1 DEF IsValue, Silent
<1> QED  BY <1>2, <1>3

Keys(names) == {Key(n) : n \in names}

\* What a row holds of a message: its spine fields and its body fields, each under
\* its key.
RowHolds(a, m) ==
    /\ DOMAIN Flatten(a, m) = Known(a.spine, m.spine) \cup Keys(Known(a.body, m.body))
    /\ \A n \in Known(a.spine, m.spine) :
          Flatten(a, m)[n] = ToJson(a, a.spine[n], m.spine[n])
    /\ \A n \in Known(a.body, m.body) :
          Flatten(a, m)[Key(n)] = ToJson(a, a.body[n], m.body[n])

\* No two fields share a key.
LEMMA FlattenKeys ==
    ASSUME NEW a, NEW m, IsBuild(a)
    PROVE  RowHolds(a, m)
<1>1. \A n \in Known(a.body, m.body) :
         /\ Key(n) \notin Known(a.spine, m.spine)
         /\ n = IF Key(n) = RawKey THEN RawField ELSE Key(n)
  BY DEF Known, Key, IsBuild
<1> QED  BY <1>1 DEF Flatten, Keys, RowHolds

\* Stored by one build and replayed by another, a message has every field both of them
\* know, with the value it had, a text with the layout of the column, and no other.
THEOREM RoundTrip ==
    ASSUME NEW a, NEW b, Compatible(a, b), NEW m, IsMessage(a, b, m)
    PROVE  Rebuild(b, Flatten(a, m)) = Part(b, Part(a, m))
<1>0. IsBuild(a) /\ IsBuild(b)
  BY DEF Compatible
<1>a. RowHolds(a, m)
  BY <1>0, FlattenKeys
<1> DEFINE p == Flatten(a, m)
           present == {key \in DOMAIN p : p[key] # Null}
           spine == Known(a.spine, m.spine)
           body == {n \in Known(a.body, m.body) : ~ Silent(m, n)}
           held == {x \in DOMAIN b.body : Key(x) \in present}
<1>1. /\ DOMAIN p = spine \cup Keys(Known(a.body, m.body))
      /\ \A n \in spine : p[n] = ToJson(a, a.spine[n], m.spine[n])
      /\ \A n \in Known(a.body, m.body) : p[Key(n)] = ToJson(a, a.body[n], m.body[n])
  BY <1>a DEF RowHolds
<1> HIDE DEF p
<1>2. \A n \in spine : /\ a.spine[n] \in {"scalar", "timestamp", "enum"}
                       /\ IsValue(a, b, a.spine[n], m.spine[n])
                       /\ p[n] # Null
  BY <1>0, <1>1 DEF IsBuild, IsMessage, IsValue, Known
<1>3. \A n \in Known(a.body, m.body) : p[Key(n)] # Null <=> ~ Silent(m, n)
  BY <1>0, <1>1, NullIsSilent
<1>4. present = spine \cup Keys(body)
  BY <1>1, <1>2, <1>3 DEF Keys
<1> HIDE DEF present
<1>5. DOMAIN b.spine \cap present = DOMAIN b.spine \cap spine
  <2>1. \A n \in body : Key(n) \notin DOMAIN b.spine
    BY <1>0 DEF Compatible, Key, Known, IsBuild
  <2> QED  BY <1>4, <2>1 DEF Keys
<1>6. held = DOMAIN b.body \cap body
  <2>1. \A x \in DOMAIN b.body : Key(x) \notin spine /\ x # RawKey
    BY <1>0 DEF Compatible, Key, Known, IsBuild
  <2>2. \A n \in body : n # RawKey
    BY <1>0 DEF Known, IsBuild
  <2>3. \A x \in DOMAIN b.body, n \in body : Key(x) = Key(n) => x = n
    BY <2>1, <2>2 DEF Key
  <2> QED  BY <1>4, <2>1, <2>3 DEF Keys
<1>7. \A n \in DOMAIN b.spine \cap spine : FromJson(b, b.spine[n], p[n]) = m.spine[n]
  <2> TAKE n \in DOMAIN b.spine \cap spine
  <2>1. b.spine[n] = a.spine[n]
    BY DEF Compatible, Known
  <2> QED  BY <1>1, <1>2, <2>1, ValueComesBack
<1>8. \A n \in DOMAIN b.body \cap body : FromJson(b, b.body[n], p[Key(n)]) = Content(m, n)
  <2> TAKE n \in DOMAIN b.body \cap body
  <2>1. b.body[n] = a.body[n] /\ n \in Known(a.body, m.body)
    BY DEF Compatible, Known
  <2>2. a.body[n] \in {"scalar", "timestamp", "enum", "text"}
    BY <1>0, <2>1 DEF IsBuild, Known
  <2>3. IsValue(a, b, a.body[n], m.body[n])
    BY <2>1 DEF IsMessage
  <2>4. ToJson(a, a.body[n], m.body[n]) # Null
    BY <1>1, <1>3, <2>1
  <2>5. a.body[n] = "text" <=> n = RawField
    BY <1>0, <2>1 DEF IsBuild, Known
  <2>6. p[Key(n)] = ToJson(a, a.body[n], m.body[n])
    BY <1>1, <2>1
  <2>7. FromJson(b, a.body[n], ToJson(a, a.body[n], m.body[n]))
           = IF a.body[n] = "text" THEN TextOfColumn(m.body[n][2]) ELSE m.body[n]
    BY <2>2, <2>3, <2>4, ValueComesBack
  <2> QED  BY <2>1, <2>5, <2>6, <2>7 DEF Content
<1>9. Rebuild(b, p) = [spine |-> [n \in DOMAIN b.spine \cap spine |-> m.spine[n]],
                       body |-> [n \in DOMAIN b.body \cap body |-> Content(m, n)]]
  <2>1. Rebuild(b, p) = [spine |-> [n \in DOMAIN b.spine \cap present |-> FromJson(b, b.spine[n], p[n])],
                         body |-> [n \in held |-> FromJson(b, b.body[n], p[Key(n)])]]
    BY DEF Rebuild, present
  <2>2. [n \in DOMAIN b.spine \cap present |-> FromJson(b, b.spine[n], p[n])]
           = [n \in DOMAIN b.spine \cap spine |-> m.spine[n]]
    BY <1>5, <1>7
  <2>3. [n \in held |-> FromJson(b, b.body[n], p[Key(n)])]
           = [n \in DOMAIN b.body \cap body |-> Content(m, n)]
    BY <1>6, <1>8
  <2> QED  BY <2>1, <2>2, <2>3
<1>10. Part(b, Part(a, m)) = [spine |-> [n \in DOMAIN b.spine \cap spine |-> m.spine[n]],
                              body |-> [n \in DOMAIN b.body \cap body |-> Content(m, n)]]
  <2> DEFINE q == [spine |-> [n \in spine |-> m.spine[n]], body |-> [n \in body |-> Content(m, n)]]
  <2>1. Part(a, m) = q
    BY DEF Part
  <2>2. q.spine = [n \in spine |-> m.spine[n]] /\ q.body = [n \in body |-> Content(m, n)]
    OBVIOUS
  <2> HIDE DEF q
  <2>3. Known(b.spine, q.spine) = DOMAIN b.spine \cap spine
    BY <2>2 DEF Known
  <2>4. {n \in Known(b.body, q.body) : ~ Silent(q, n)} = DOMAIN b.body \cap body
    <3>1. Known(b.body, q.body) = DOMAIN b.body \cap body
      BY <2>2 DEF Known
    <3>2. ASSUME NEW n \in body
          PROVE  ~ Silent(q, n)
      <4>1. CASE n = RawField
        <5>1. q.body[n] = TextOfColumn(m.body[n][2])
          BY <2>2, <4>1 DEF Content
        <5>2. q.body[n][2] = m.body[n][2] /\ q.body[n] # NoText
          BY <5>1 DEF TextOfColumn, NoText
        <5> QED  BY <4>1, <5>2 DEF Silent
      <4>2. CASE n # RawField
        BY <4>2 DEF Silent
      <4> QED  BY <4>1, <4>2
    <3> QED  BY <3>1, <3>2
  <2>5. [n \in DOMAIN b.spine \cap spine |-> q.spine[n]] = [n \in DOMAIN b.spine \cap spine |-> m.spine[n]]
    BY <2>2
  <2>6. [n \in DOMAIN b.body \cap body |-> Content(q, n)]
           = [n \in DOMAIN b.body \cap body |-> Content(m, n)]
    <3>1. ASSUME NEW n \in body
          PROVE  Content(q, n) = Content(m, n)
      <4>1. q.body[n] = Content(m, n)
        BY <2>2
      <4> QED  BY <4>1 DEF Content, TextOfColumn
    <3> QED  BY <3>1
  <2> QED  BY <2>1, <2>3, <2>4, <2>5, <2>6 DEF Part
<1> QED  BY <1>9, <1>10 DEF p
=============================================================================
