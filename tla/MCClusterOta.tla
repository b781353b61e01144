---------------------------- MODULE MCClusterOta ----------------------------
(* Modules and starting points for model checking ClusterOta.               *)
EXTENDS ClusterOta, TLC

CONSTANTS analyze, brain, p1, p2

MCModule == {analyze, brain}

MCPanel == {p1, p2}

(* Two sessions overlap; the second one only declares.                      *)
MCAsks == (p1 :> Kind) @@ (p2 :> {"set_url"})

(* An installed node: every module of release 1 is active.                  *)
Installed == {[m \in MCModule |-> 1]}

(* No row yet, or the row of release 1 with unattended apply switched on.    *)
MCDesired == {None, [version |-> 1, activate |-> TRUE, auto_apply |-> TRUE]}

=============================================================================
