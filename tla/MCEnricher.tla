----------------------------- MODULE MCEnricher -----------------------------
(***************************************************************************)
(* Instances of Enricher for TLC.  The pitches of g1: one that carries     *)
(* inning and outs, a later one without outs.  g2 shares its partition;    *)
(* records that cannot be read are on both.                                *)
(***************************************************************************)
EXTENDS Enricher, TLC

CONSTANTS p1, p2, g1, g2, full, part, other, bad, inning, outs

MCHome == g1 :> p1 @@ g2 :> p1
MCGameOf == [m \in Msgs |-> IF m \in {full, part} THEN g1 ELSE g2]
MCOneHome == g1 :> p1
MCOneGame == [m \in Msgs |-> g1]
MCCarries ==
    [m \in Msgs |-> inning :> (IF m = part THEN 2 ELSE 1) @@
                    outs :> (IF m = part THEN Unset ELSE 1)]
=============================================================================
