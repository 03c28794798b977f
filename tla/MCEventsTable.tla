--------------------------- MODULE MCEventsTable ---------------------------
(***************************************************************************)
(* Instances of EventsTable for TLC: pitches whose numbers and at-bat      *)
(* indexes are in another order as text, and two builds of the schema, the *)
(* new one with a field more of each kind.                                 *)
(***************************************************************************)
EXTENDS EventsTable

MCPitches == {<<1, 2>>, <<1, 10>>}

MCSpine == [sport |-> "enum", event_time |-> "timestamp"]
MCOld == [spine |-> MCSpine,
          body |-> [pitch_number |-> "scalar", raw_payload_json |-> "text"],
          names |-> <<"mlb">>]
MCNew == [spine |-> MCSpine,
          body |-> [pitch_number |-> "scalar", raw_payload_json |-> "text",
                    added |-> "scalar", added_enum |-> "enum"],
          names |-> <<"mlb", "nfl">>]
MCBuilds == {MCOld, MCNew}
=============================================================================
