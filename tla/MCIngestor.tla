----------------------------- MODULE MCIngestor -----------------------------
(***************************************************************************)
(* Instances of Ingestor for TLC: two at-bats, the first of two pitches,   *)
(* or a single pitch.                                                      *)
(***************************************************************************)
EXTENDS Ingestor

CONSTANT g1

MCPitches == {<<0, 1>>, <<0, 2>>, <<1, 1>>}
MCOnePitch == {<<0, 1>>}
=============================================================================
