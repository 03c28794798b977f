----------------------- MODULE MCPersistenceConsumer -----------------------
(***************************************************************************)
(* Instances of PersistenceConsumer for TLC.  On p1: two versions of one   *)
(* pitch and a payload that does not decode.  On p2: a payload the insert  *)
(* rejects and one with an enum number this build has no name for.         *)
(***************************************************************************)
EXTENDS PersistenceConsumer, TLC

CONSTANTS p1, p2, v1, v2, bad, rejected, unknown, i1, i2, i3, i4

MCHome == [m \in Msgs |-> IF m \in {v1, v2, bad} THEN p1 ELSE p2]
IdOf == v1 :> i1 @@ v2 :> i1 @@ bad :> i2 @@ rejected :> i3 @@ unknown :> i4
MCId == [m \in Msgs |-> IdOf[m]]
=============================================================================
