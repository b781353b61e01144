-------------------------- MODULE ClusterHeartbeat --------------------------
(***************************************************************************)
(* The peer heartbeats of crates/gr-cluster (ClusterHub) and the thread of *)
(* crates/gr-service that sends them.  Every node keeps its own NodeInfo   *)
(* (self_info) and a table of the peers it has heard from.  The sender     *)
(* clones its NodeInfo, reads the clock, signs both and posts the beat;    *)
(* the network may lose, delay, reorder or repeat it.  ingest_peer decides *)
(* whether a beat replaces the table entry, snapshot drops silent peers.   *)
(*                                                                         *)
(* Abstractions.  A NodeInfo is its ts_ms and a generation that identifies *)
(* the rest of its content (two infos are byte-identical iff both agree).  *)
(* A signature is the key it was made with: HMAC is assumed unforgeable.   *)
(* Wall clocks differ by a constant offset; now is real (monotonic) time.  *)
(***************************************************************************)
EXTENDS Integers, FiniteSets

CONSTANTS Node,         \* node ids
          Key,          \* cluster keys
          KeyOf,        \* KeyOf[n]: the cluster key node n is configured with
          Window,       \* HEARTBEAT_WINDOW_MS
          StaleAfter,   \* Inner.stale_after
          MaxSkew,      \* bound on wall-clock offsets
          MaxTime,      \* bound on now
          MaxGen,       \* MaxGen[n]: bound on updates and restarts of n
          MaxBeats,     \* MaxBeats[n]: bound on beats n signs; 0 for a node
                        \* whose CLUSTER_PEERS is empty, which never sends
          NoEntry       \* absence of a table entry / of a clone in progress

ASSUME ConstAssumption ==
    /\ KeyOf \in [Node -> Key]
    /\ Window \in Nat /\ StaleAfter \in Nat /\ MaxSkew \in Nat
    /\ MaxTime \in Nat
    /\ MaxGen \in [Node -> Nat] /\ MaxBeats \in [Node -> Nat]

VARIABLES
    now,        \* real time
    offset,     \* offset[n]: wall clock of n minus now
    up,         \* the running nodes
    selfInfo,   \* selfInfo[n]: Inner.self_info
    clone,      \* clone[n]: the info sign_heartbeat cloned, ts not yet read
    net,        \* every beat ever posted (it may arrive never, once or often)
    peers,      \* peers[n][p]: Inner.peers of n
    sent,       \* sent[n]: beats signed by n so far (bounds net)
    diedAt      \* diedAt[n]: when n last stopped (history variable)

vars == <<now, offset, up, selfInfo, clone, net, peers, sent, diedAt>>

NodeInfo == [gen : Nat, ts : Nat]

(* clonedAt is history: the sender's wall clock when the info was cloned.  *)
Beat == [from : Node, key : Key, info : NodeInfo, ts : Nat, clonedAt : Nat]

(* The code keeps info and last_seen; wire and clonedAt are history: the   *)
(* ts_ms of the accepted beat and when its info was cloned.                *)
PeerEntry == [info : NodeInfo, seen : Nat, wire : Nat, clonedAt : Nat]

Clone == [info : NodeInfo, at : Nat]

now_ms(n) == now + offset[n]

(* A node never lists itself as a peer.                                    *)
NoOwnEntry == \A n \in Node : peers[n][n] = NoEntry

(* Types, and no table holds an entry of its own node: a beat that carries *)
(* the node's own id is answered without touching the table (ingest_peer). *)
TypeOK ==
    /\ now \in Nat
    /\ offset \in [Node -> 0..MaxSkew]
    /\ up \subseteq Node
    /\ selfInfo \in [Node -> NodeInfo]
    /\ clone \in [Node -> Clone \cup {NoEntry}]
    /\ net \subseteq Beat
    /\ peers \in [Node -> [Node -> PeerEntry \cup {NoEntry}]]
    /\ NoOwnEntry
    /\ sent \in [Node -> Nat]
    /\ diedAt \in [Node -> Nat]

(* ClusterHub::new at boot: a fresh NodeInfo stamped with the wall clock.  *)
Init ==
    /\ now = 0
    /\ offset \in [Node -> 0..MaxSkew]
    /\ up = Node
    /\ selfInfo = [n \in Node |-> [gen |-> 0, ts |-> offset[n]]]
    /\ clone = [n \in Node |-> NoEntry]
    /\ net = {}
    /\ peers = [n \in Node |-> [p \in Node |-> NoEntry]]
    /\ sent = [n \in Node |-> 0]
    /\ diedAt = [n \in Node |-> 0]

(* update_self under the write lock: new content, stamped now.             *)
update_self(n) ==
    /\ n \in up
    /\ selfInfo[n].gen < MaxGen[n]
    /\ selfInfo' = [selfInfo EXCEPT ![n] =
                       [gen |-> selfInfo[n].gen + 1, ts |-> now_ms(n)]]
    /\ UNCHANGED <<now, offset, up, clone, net, peers, sent, diedAt>>

(* sign_heartbeat, first half: the info is cloned under the read lock,     *)
(* which is released before the clock is read.                             *)
sign_heartbeat_clone(n) ==
    /\ n \in up
    /\ clone[n] = NoEntry
    /\ sent[n] < MaxBeats[n]
    /\ clone' = [clone EXCEPT ![n] = [info |-> selfInfo[n], at |-> now_ms(n)]]
    /\ UNCHANGED <<now, offset, up, selfInfo, net, peers, sent, diedAt>>

(* sign_heartbeat, second half, and the post to every configured peer.     *)
sign_heartbeat_post(n) ==
    /\ n \in up
    /\ clone[n] # NoEntry
    /\ net' = net \cup {[from |-> n, key |-> KeyOf[n], info |-> clone[n].info,
                         ts |-> now_ms(n), clonedAt |-> clone[n].at]}
    /\ clone' = [clone EXCEPT ![n] = NoEntry]
    /\ sent' = [sent EXCEPT ![n] = @ + 1]
    /\ UNCHANGED <<now, offset, up, selfInfo, peers, diedAt>>

\* Mutant: the skew compared without abs(), so old beats always pass.
InWindow_Mut(n, b) == b.ts - now_ms(n) <= Window

(* The +-Window test on the beat's own timestamp.                          *)
InWindow(n, b) ==
    /\ now_ms(n) - b.ts <= Window
    /\ b.ts - now_ms(n) <= Window

\* Mutant: the monotonic test dropped.
Monotonic_Mut(n, b) == TRUE

(* The monotonic test.  It compares the beat's ts_ms with the ts_ms inside *)
(* the stored NodeInfo (when the peer last updated itself), and lets an    *)
(* equal timestamp through only with identical content.                    *)
Monotonic(n, b) ==
    LET e == peers[n][b.from] IN
    e # NoEntry => \/ b.ts > e.info.ts
                   \/ b.ts = e.info.ts /\ b.info = e.info

(* The gates of ingest_peer, in the code's order: key, window, signature,  *)
(* monotonicity.                                                           *)
Accepts(n, b) ==
    /\ b.key = KeyOf[n]
    /\ InWindow(n, b)
    /\ Monotonic(n, b)

\* Mutant: a beat that carries the node's own id is stored as a peer.
ingest_peer_Mut(n, b) ==
    /\ n \in up
    /\ Accepts(n, b)
    /\ peers' = [peers EXCEPT ![n][b.from] =
                    [info |-> b.info, seen |-> now, wire |-> b.ts,
                     clonedAt |-> b.clonedAt]]
    /\ UNCHANGED <<now, offset, up, selfInfo, clone, net, sent, diedAt>>

(* ingest_peer storing a beat.  A beat that fails a gate, or the node's    *)
(* own beat, changes nothing and is no step of its own.                    *)
ingest_peer(n, b) ==
    /\ n \in up
    /\ b.from # n
    /\ Accepts(n, b)
    /\ peers' = [peers EXCEPT ![n][b.from] =
                    [info |-> b.info, seen |-> now, wire |-> b.ts,
                     clonedAt |-> b.clonedAt]]
    /\ UNCHANGED <<now, offset, up, selfInfo, clone, net, sent, diedAt>>

Fresh(e) == now - e.seen < StaleAfter

(* snapshot: silent peers are removed from the table for good.             *)
snapshot(n) ==
    /\ n \in up
    /\ peers' = [peers EXCEPT ![n] =
                    [p \in Node |->
                        IF peers[n][p] # NoEntry /\ Fresh(peers[n][p])
                        THEN peers[n][p] ELSE NoEntry]]
    /\ UNCHANGED <<now, offset, up, selfInfo, clone, net, sent, diedAt>>

(* What snapshot returns besides the node itself.                          *)
LivePeers(n) == {p \in Node : peers[n][p] # NoEntry /\ Fresh(peers[n][p])}

(* The process stops; the peer table and a half-signed beat are memory.    *)
Crash(n) ==
    /\ n \in up
    /\ up' = up \ {n}
    /\ peers' = [peers EXCEPT ![n] = [p \in Node |-> NoEntry]]
    /\ clone' = [clone EXCEPT ![n] = NoEntry]
    /\ diedAt' = [diedAt EXCEPT ![n] = now]
    /\ UNCHANGED <<now, offset, selfInfo, net, sent>>

(* Restart under the same NODE_ID: ClusterHub::new again.  The content     *)
(* generation moves on so that generations of one node never repeat.       *)
Restart(n) ==
    /\ n \notin up
    /\ selfInfo[n].gen < MaxGen[n]
    /\ up' = up \cup {n}
    /\ selfInfo' = [selfInfo EXCEPT ![n] =
                       [gen |-> selfInfo[n].gen + 1, ts |-> now_ms(n)]]
    /\ diedAt' = [diedAt EXCEPT ![n] = 0]
    /\ UNCHANGED <<now, offset, clone, net, peers, sent>>

Tick ==
    /\ now < MaxTime
    /\ now' = now + 1
    /\ UNCHANGED <<offset, up, selfInfo, clone, net, peers, sent, diedAt>>

Next ==
    \/ \E n \in Node : \/ update_self(n)
                       \/ sign_heartbeat_clone(n)
                       \/ sign_heartbeat_post(n)
                       \/ snapshot(n)
                       \/ Crash(n)
                       \/ Restart(n)
                       \/ \E b \in net : ingest_peer(n, b)
    \/ Tick

Spec == Init /\ [][Next]_vars

-----------------------------------------------------------------------------
(* A node that stopped leaves every peer's snapshot after a bounded time,  *)
(* whatever delayed or repeated beats of it still arrive: a beat is only   *)
(* accepted within Window of its timestamp, and an entry is only listed    *)
(* for StaleAfter after it was last refreshed (ingest_peer, snapshot).     *)
DeadPeerForgotten ==
    \A n \in up, p \in Node \ up :
        now >= diedAt[p] + Window + StaleAfter + offset[p] - offset[n]
            => p \notin LivePeers(n)

(* The table never goes back to an older NodeInfo of a peer except through *)
(* a beat whose clone was taken before the newer info existed and whose    *)
(* timestamp was read after it: the window inside sign_heartbeat.          *)
RegressionOnlyAcrossSigning ==
    [][\A n \in Node, p \in Node :
          LET e == peers[n][p]
              f == peers'[n][p]
          IN (e # NoEntry /\ f # NoEntry /\ f.info.gen < e.info.gen)
                => f.clonedAt <= e.info.ts /\ e.info.ts <= f.wire]_vars

=============================================================================
