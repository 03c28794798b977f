----------------------------- MODULE MCPipeline -----------------------------
(***************************************************************************)
(* An instance of Pipeline for TLC: one at-bat of two pitches.             *)
(***************************************************************************)
EXTENDS Pipeline

CONSTANT g1

MCPitches == {<<0, 1>>, <<0, 2>>}
=============================================================================
