------------------------------ MODULE HeavyRole ------------------------------
(***************************************************************************)
(* What src/probe/fe/origin_coordinator.js promises the collectors of one  *)
(* origin: the heavy role (B10 and the silicon packs) belongs to one tab   *)
(* at a time, and passes from one tab to the next only through nobody.     *)
(***************************************************************************)
CONSTANT Tabs

VARIABLE heavy     \* the tabs whose role is heavy

Init == heavy = {}

Take(t) == heavy = {} /\ heavy' = {t}

Leave(t) == heavy = {t} /\ heavy' = {}

Next == \E t \in Tabs : Take(t) \/ Leave(t)

Spec == Init /\ [][Next]_heavy

=============================================================================
