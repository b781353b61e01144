------------------------ MODULE MCClusterHeartbeat --------------------------
(* Two nodes for TLC: n1 sends beats to n2, which has no CLUSTER_PEERS.     *)
EXTENDS ClusterHeartbeat
CONSTANTS n1, n2, k1

MCKeyOf == [n \in Node |-> k1]

MCMaxGen == [n \in Node |-> IF n = n1 THEN 2 ELSE 1]

MCMaxBeats == [n \in Node |-> IF n = n1 THEN 2 ELSE 0]

=============================================================================
