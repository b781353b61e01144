----------------------------- MODULE MCSelfHeal -----------------------------
(* The primary B10 and one deepening pack.                                 *)
EXTENDS SelfHeal

CONSTANTS b10, b10x

MCMethodCount == [b \in Batches |-> IF b = b10 THEN 3 ELSE 1]

(* With the deepening pack each is collected once; alone B10 may use up its*)
(* methods.                                                                *)
MCCollectMax == [b \in Batches |-> IF Batches = {b10} THEN 5 ELSE 1]
=============================================================================
