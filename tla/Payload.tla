------------------------------ MODULE Payload ------------------------------
(***************************************************************************)
(* The two forms of an event (schemas/proto_utils.py): the protobuf        *)
(* message in Kafka and the flat JSON payload of its row in Postgres.      *)
(*                                                                         *)
(* A message [spine, body] has a value for each field that is set.  Fields *)
(* are known by the build that reads them: its "spine" and "body" give the *)
(* kind of every field it knows, its "names" the short names of its enum   *)
(* numbers.  What a build does not know it passes over.                    *)
(***************************************************************************)
EXTENDS Integers, Sequences

CONSTANT Null  \* JSON null

RawField == "raw_payload_json"
RawKey == "raw_payload"

\* JSON values and their texts; "" is the text of none.  A JSONB column keeps the value
\* and not the layout, the order of keys and white space: its value has another text.
Text(v) == <<"feed", v>>
TextOfColumn(v) == <<"jsonb", v>>
NoText == <<"none">>

Injective(f) == \A x, y \in DOMAIN f : f[x] = f[y] => x = y

\* What the .proto files promise of every build: the spine has no JSON text, and a
\* field is called neither by the name of a spine field nor by RawKey.
IsBuild(b) ==
    /\ \A n \in DOMAIN b.spine : b.spine[n] \in {"scalar", "timestamp", "enum"}
    /\ \A n \in DOMAIN b.body :
          IF n = RawField THEN b.body[n] = "text" ELSE b.body[n] \in {"scalar", "enum"}
    /\ DOMAIN b.spine \cap DOMAIN b.body = {}
    /\ RawField \notin DOMAIN b.spine
    /\ RawKey \notin DOMAIN b.spine \cup DOMAIN b.body
    /\ Injective(b.names)

\* Fields and enum numbers are permanent (schemas/proto/README.md): what two builds
\* both know means the same.
Compatible(a, b) ==
    /\ IsBuild(a) /\ IsBuild(b)
    /\ \A n \in DOMAIN a.spine \cap DOMAIN b.spine : a.spine[n] = b.spine[n]
    /\ \A n \in DOMAIN a.body \cap DOMAIN b.body : a.body[n] = b.body[n]
    /\ DOMAIN a.spine \cap DOMAIN b.body = {} /\ DOMAIN a.body \cap DOMAIN b.spine = {}
    /\ \A x \in DOMAIN a.names \cap DOMAIN b.names : a.names[x] = b.names[x]

\* The fields a build knows and the message has.  A field without presence always counts
\* as set: by rule 5 of the schema the producer of every message has those.
Known(kinds, values) == DOMAIN kinds \cap DOMAIN values
Key(n) == IF n = RawField THEN RawKey ELSE n

(***************************************************************************)
(* The conversions of a field.                                             *)
(***************************************************************************)
\* _field_to_value
ToJson(b, kind, v) ==
    CASE kind = "timestamp" -> <<"iso", v>>
      [] kind = "enum" -> b.names[v]
      [] kind = "text" -> IF v = NoText THEN Null ELSE v[2]
      [] kind = "scalar" -> v

\* _value_to_field, and what payload_dict_to_proto does with timestamps and texts
FromJson(b, kind, v) ==
    CASE kind = "timestamp" -> v[2]
      [] kind = "enum" -> CHOOSE number \in DOMAIN b.names : b.names[number] = v
      [] kind = "text" -> TextOfColumn(v)
      [] kind = "scalar" -> v

(***************************************************************************)
(* A slip one could make in this code, to test the properties with.        *)
(***************************************************************************)
\* The stored JSON of the feed's event is looked for under the name of its field.
RebuildByName(b, payload) ==
    LET present == {key \in DOMAIN payload : payload[key] # Null}
    IN  [spine |-> [n \in DOMAIN b.spine \cap present |-> FromJson(b, b.spine[n], payload[n])],
         body |-> [n \in DOMAIN b.body \cap present |-> FromJson(b, b.body[n], payload[n])]]

(***************************************************************************)
(* The conversions of a message.                                           *)
(***************************************************************************)
\* proto_to_payload_dict
Flatten(b, m) ==
    LET spine == Known(b.spine, m.spine)
        body == Known(b.body, m.body)
        Field(key) == IF key = RawKey THEN RawField ELSE key
    IN  [key \in spine \cup {Key(n) : n \in body} |->
            IF key \in spine THEN ToJson(b, b.spine[key], m.spine[key])
                             ELSE ToJson(b, b.body[Field(key)], m.body[Field(key)])]

\* payload_dict_to_proto
Rebuild(b, payload) ==
    LET present == {key \in DOMAIN payload : payload[key] # Null}
    IN  [spine |-> [n \in DOMAIN b.spine \cap present |-> FromJson(b, b.spine[n], payload[n])],
         body |-> [n \in {x \in DOMAIN b.body : Key(x) \in present} |->
                      FromJson(b, b.body[n], payload[Key(n)])]]

(***************************************************************************)
(* What should come through.                                               *)
(***************************************************************************)
\* The part of a message that a build knows, apart from a text that says nothing; of a
\* text that does say something, the value.
Silent(m, n) == n = RawField /\ (m.body[n] = NoText \/ m.body[n][2] = Null)
Content(m, n) == IF n = RawField THEN TextOfColumn(m.body[n][2]) ELSE m.body[n]
Part(b, m) ==
    [spine |-> [n \in Known(b.spine, m.spine) |-> m.spine[n]],
     body |-> [n \in {x \in Known(b.body, m.body) : ~ Silent(m, x)} |-> Content(m, n)]]
=============================================================================
