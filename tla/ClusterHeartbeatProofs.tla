----------------------- MODULE ClusterHeartbeatProofs -----------------------
(***************************************************************************)
(* Proofs about ClusterHeartbeat for every set of nodes, every window and  *)
(* every bound.  The inductive invariant says where timestamps come from:  *)
(* a beat was stamped while its sender ran, an entry repeats a beat that   *)
(* was posted, and it was stored while that beat was inside the window.    *)
(***************************************************************************)
EXTENDS ClusterHeartbeat, TLAPS

(* The last instant at which p was running.                                *)
LastAlive(p) == IF p \in up THEN now ELSE diedAt[p]

BeatsStampedAlive ==
    /\ \A p \in Node : diedAt[p] <= now
    /\ \A b \in net : b.ts <= LastAlive(b.from) + offset[b.from]

EntryOfBeat(n, p, b) ==
    /\ b.from = p
    /\ b.info = peers[n][p].info
    /\ b.ts = peers[n][p].wire
    /\ b.clonedAt = peers[n][p].clonedAt

EntriesFromBeats ==
    \A n \in Node, p \in Node : peers[n][p] # NoEntry =>
        /\ \E b \in net : EntryOfBeat(n, p, b)
        /\ peers[n][p].seen + offset[n] <= peers[n][p].wire + Window

IInv == TypeOK /\ BeatsStampedAlive /\ EntriesFromBeats

-----------------------------------------------------------------------------
LEMMA TypeInit == Init => TypeOK
  BY ConstAssumption DEF Init, TypeOK, NodeInfo, NoOwnEntry

LEMMA TypeNext == TypeOK /\ [Next]_vars => TypeOK'
<1> SUFFICES ASSUME TypeOK, [Next]_vars PROVE TypeOK'
  OBVIOUS
<1> USE ConstAssumption DEF TypeOK, NoOwnEntry
<1>1. ASSUME NEW n \in Node, update_self(n) PROVE TypeOK'
  BY <1>1 DEF update_self, now_ms, NodeInfo
<1>2. ASSUME NEW n \in Node, sign_heartbeat_clone(n) PROVE TypeOK'
  BY <1>2 DEF sign_heartbeat_clone, now_ms, Clone
<1>3. ASSUME NEW n \in Node, sign_heartbeat_post(n) PROVE TypeOK'
  <2>1. [from |-> n, key |-> KeyOf[n], info |-> clone[n].info,
         ts |-> now_ms(n), clonedAt |-> clone[n].at] \in Beat
    BY <1>3 DEF sign_heartbeat_post, now_ms, Clone, Beat
  <2> QED BY <1>3, <2>1 DEF sign_heartbeat_post
<1>4. ASSUME NEW n \in Node, snapshot(n) PROVE TypeOK'
  <2>1. [p \in Node |-> IF peers[n][p] # NoEntry /\ Fresh(peers[n][p])
                        THEN peers[n][p] ELSE NoEntry]
           \in [Node -> PeerEntry \cup {NoEntry}]
    OBVIOUS
  <2> QED BY <1>4, <2>1 DEF snapshot
<1>5. ASSUME NEW n \in Node, Crash(n) PROVE TypeOK'
  BY <1>5 DEF Crash
<1>6. ASSUME NEW n \in Node, Restart(n) PROVE TypeOK'
  BY <1>6 DEF Restart, now_ms, NodeInfo
<1>7. ASSUME NEW n \in Node, NEW b \in net, ingest_peer(n, b) PROVE TypeOK'
  <2>1. [info |-> b.info, seen |-> now, wire |-> b.ts,
         clonedAt |-> b.clonedAt] \in PeerEntry
    BY DEF Beat, PeerEntry
  <2>2. b.from \in Node
    BY DEF Beat
  <2> QED BY <1>7, <2>1, <2>2 DEF ingest_peer
<1>8. CASE Tick
  BY <1>8 DEF Tick
<1>9. CASE UNCHANGED vars
  BY <1>9 DEF vars
<1> QED BY <1>1, <1>2, <1>3, <1>4, <1>5, <1>6, <1>7, <1>8, <1>9 DEF Next

(* Every reachable state of the heartbeat protocol is well typed.          *)
THEOREM TypeCorrect == Spec => []TypeOK
  BY TypeInit, TypeNext, PTL DEF Spec

-----------------------------------------------------------------------------
LEMMA BeatsStampedAliveNext ==
    TypeOK /\ BeatsStampedAlive /\ [Next]_vars => BeatsStampedAlive'
<1> SUFFICES ASSUME TypeOK, BeatsStampedAlive, [Next]_vars
             PROVE  BeatsStampedAlive'
  OBVIOUS
<1> USE DEF TypeOK, BeatsStampedAlive, LastAlive, Beat
<1>1. ASSUME NEW n \in Node, update_self(n) PROVE BeatsStampedAlive'
  BY <1>1 DEF update_self
<1>2. ASSUME NEW n \in Node, sign_heartbeat_clone(n) PROVE BeatsStampedAlive'
  BY <1>2 DEF sign_heartbeat_clone
<1>3. ASSUME NEW n \in Node, sign_heartbeat_post(n) PROVE BeatsStampedAlive'
  BY <1>3 DEF sign_heartbeat_post, now_ms
<1>4. ASSUME NEW n \in Node, snapshot(n) PROVE BeatsStampedAlive'
  BY <1>4 DEF snapshot
<1>5. ASSUME NEW n \in Node, Crash(n) PROVE BeatsStampedAlive'
  BY <1>5 DEF Crash
<1>6. ASSUME NEW n \in Node, Restart(n) PROVE BeatsStampedAlive'
  BY <1>6 DEF Restart
<1>7. ASSUME NEW n \in Node, NEW b \in net, ingest_peer(n, b)
      PROVE  BeatsStampedAlive'
  BY <1>7 DEF ingest_peer
<1>8. CASE Tick
  BY <1>8 DEF Tick
<1>9. CASE UNCHANGED vars
  BY <1>9 DEF vars
<1> QED BY <1>1, <1>2, <1>3, <1>4, <1>5, <1>6, <1>7, <1>8, <1>9 DEF Next

LEMMA EntriesFromBeatsNext ==
    TypeOK /\ EntriesFromBeats /\ [Next]_vars => EntriesFromBeats'
<1> SUFFICES ASSUME TypeOK, EntriesFromBeats, [Next]_vars,
                    NEW m \in Node, NEW q \in Node, peers'[m][q] # NoEntry
             PROVE  /\ \E b \in net' : EntryOfBeat(m, q, b)'
                    /\ peers'[m][q].seen + offset'[m]
                         <= peers'[m][q].wire + Window
  BY DEF EntriesFromBeats
<1> USE DEF TypeOK, EntryOfBeat
<1>0. ASSUME peers'[m][q] = peers[m][q], net \subseteq net', offset' = offset
      PROVE  /\ \E b \in net' : EntryOfBeat(m, q, b)'
             /\ peers'[m][q].seen + offset'[m] <= peers'[m][q].wire + Window
  BY <1>0 DEF EntriesFromBeats
<1>1. ASSUME NEW n \in Node, update_self(n) \/ sign_heartbeat_clone(n)
                             \/ sign_heartbeat_post(n) \/ Restart(n)
      PROVE  peers' = peers /\ net \subseteq net' /\ offset' = offset
  BY <1>1 DEF update_self, sign_heartbeat_clone, sign_heartbeat_post, Restart
<1>2. ASSUME NEW n \in Node, snapshot(n)
      PROVE  peers'[m][q] = peers[m][q] /\ net' = net /\ offset' = offset
  BY <1>2 DEF snapshot
<1>3. ASSUME NEW n \in Node, Crash(n)
      PROVE  peers'[m][q] = peers[m][q] /\ net' = net /\ offset' = offset
  BY <1>3 DEF Crash
<1>4. ASSUME NEW n \in Node, NEW b \in net, ingest_peer(n, b)
      PROVE  /\ \E c \in net' : EntryOfBeat(m, q, c)'
             /\ peers'[m][q].seen + offset'[m] <= peers'[m][q].wire + Window
  <2>1. CASE m = n /\ q = b.from
    <3>1. peers'[m][q] = [info |-> b.info, seen |-> now, wire |-> b.ts,
                          clonedAt |-> b.clonedAt]
      BY <1>4, <2>1 DEF ingest_peer
    <3>2. EntryOfBeat(m, q, b)' /\ b \in net'
      BY <1>4, <2>1, <3>1 DEF ingest_peer
    <3>3. now + offset[m] <= b.ts + Window /\ offset' = offset
      BY <1>4, <2>1, ConstAssumption
         DEF ingest_peer, Accepts, InWindow, now_ms, Beat
    <3> QED BY <3>1, <3>2, <3>3
  <2>2. CASE ~(m = n /\ q = b.from)
    <3>1. peers'[m][q] = peers[m][q] /\ net' = net /\ offset' = offset
      BY <1>4, <2>2 DEF ingest_peer, Beat
    <3> QED BY <3>1, <1>0
  <2> QED BY <2>1, <2>2
<1>5. CASE Tick \/ UNCHANGED vars
  BY <1>5, <1>0 DEF Tick, vars
<1> QED BY <1>0, <1>1, <1>2, <1>3, <1>4, <1>5 DEF Next

LEMMA Inductive == Spec => []IInv
<1>1. Init => IInv
  <2>1. Init => TypeOK
    BY TypeInit
  <2>2. Init => BeatsStampedAlive
    BY ConstAssumption DEF Init, BeatsStampedAlive
  <2>3. Init => EntriesFromBeats
    BY DEF Init, EntriesFromBeats
  <2> QED BY <2>1, <2>2, <2>3 DEF IInv
<1>2. IInv /\ [Next]_vars => IInv'
  BY TypeNext, BeatsStampedAliveNext, EntriesFromBeatsNext DEF IInv
<1> QED BY <1>1, <1>2, PTL DEF Spec

-----------------------------------------------------------------------------
(* A stopped node is listed by nobody once Window + StaleAfter (plus the   *)
(* clock difference) have passed, for any network behaviour: a replayed    *)
(* or delayed beat cannot keep it in an LB pool or on a panel for longer.  *)
THEOREM DeadPeerBound == Spec => []DeadPeerForgotten
<1>1. IInv => DeadPeerForgotten
  <2> SUFFICES ASSUME IInv, NEW n \in up, NEW p \in Node \ up,
                      now >= diedAt[p] + Window + StaleAfter
                               + offset[p] - offset[n],
                      peers[n][p] # NoEntry
               PROVE  ~ Fresh(peers[n][p])
    BY DEF DeadPeerForgotten, LivePeers
  <2> USE DEF IInv, TypeOK
  <2>1. PICK b \in net : EntryOfBeat(n, p, b)
    BY DEF EntriesFromBeats
  <2>2. peers[n][p] \in PeerEntry
    OBVIOUS
  <2>3. peers[n][p].wire <= diedAt[p] + offset[p]
    BY <2>1 DEF EntryOfBeat, BeatsStampedAlive, LastAlive
  <2>4. peers[n][p].seen + offset[n] <= peers[n][p].wire + Window
    BY DEF EntriesFromBeats
  <2>5. n \in Node /\ offset[n] \in Int /\ offset[p] \in Int /\ diedAt[p] \in Int
    OBVIOUS
  <2>6. peers[n][p].seen \in Int /\ peers[n][p].wire \in Int
    BY <2>2 DEF PeerEntry
  <2> QED BY <2>3, <2>4, <2>5, <2>6, ConstAssumption DEF Fresh
<1> QED BY <1>1, Inductive, PTL

-----------------------------------------------------------------------------
(* The generation order of a node's infos agrees with its clock: whatever  *)
(* was cloned from an older generation was cloned no later than a newer    *)
(* generation was stamped.                                                 *)
CloneOrder(info, at, newer) == info.gen < newer.gen => at <= newer.ts

GenerationsOrdered ==
    /\ \A b \in net :
          /\ b.info.gen <= selfInfo[b.from].gen
          /\ b.clonedAt <= now_ms(b.from)
          /\ CloneOrder(b.info, b.clonedAt, selfInfo[b.from])
    /\ \A n \in Node : clone[n] # NoEntry =>
          /\ clone[n].info.gen <= selfInfo[n].gen
          /\ clone[n].at <= now_ms(n)
          /\ CloneOrder(clone[n].info, clone[n].at, selfInfo[n])
    /\ \A b \in net, c \in net :
          b.from = c.from => CloneOrder(b.info, b.clonedAt, c.info)
    /\ \A b \in net : clone[b.from] # NoEntry =>
          /\ CloneOrder(b.info, b.clonedAt, clone[b.from].info)
          /\ CloneOrder(clone[b.from].info, clone[b.from].at, b.info)

LEMMA GenerationsOrderedNext ==
    TypeOK /\ GenerationsOrdered /\ [Next]_vars => GenerationsOrdered'
<1> SUFFICES ASSUME TypeOK, GenerationsOrdered, [Next]_vars
             PROVE  GenerationsOrdered'
  OBVIOUS
<1> USE DEF TypeOK, GenerationsOrdered, CloneOrder, now_ms, Beat, Clone, NodeInfo
<1>1. ASSUME NEW n \in Node, update_self(n) PROVE GenerationsOrdered'
  BY <1>1 DEF update_self
<1>2. ASSUME NEW n \in Node, sign_heartbeat_clone(n) PROVE GenerationsOrdered'
  <2>1. clone'[n] = [info |-> selfInfo[n], at |-> now_ms(n)]
    BY <1>2 DEF sign_heartbeat_clone
  <2>2. /\ net' = net /\ selfInfo' = selfInfo /\ now' = now /\ offset' = offset
        /\ \A m \in Node : m # n => clone'[m] = clone[m]
    BY <1>2 DEF sign_heartbeat_clone
  <2>3. \A m \in Node : clone'[m] # NoEntry =>
           /\ clone'[m].info.gen <= selfInfo[m].gen
           /\ clone'[m].at <= now_ms(m)
           /\ CloneOrder(clone'[m].info, clone'[m].at, selfInfo[m])
    BY <2>1, <2>2
  <2>4. ASSUME NEW b \in net, clone'[b.from] # NoEntry
        PROVE  /\ CloneOrder(b.info, b.clonedAt, clone'[b.from].info)
               /\ CloneOrder(clone'[b.from].info, clone'[b.from].at, b.info)
    <3>1. CASE b.from = n
      <4>1. clone'[b.from].info = selfInfo[n] /\ b.info.gen <= selfInfo[n].gen
        BY <2>1, <3>1
      <4>2. b.info.gen \in Nat /\ selfInfo[n].gen \in Nat
        OBVIOUS
      <4> QED BY <3>1, <4>1, <4>2
    <3>2. CASE b.from # n
      BY <2>2, <2>4, <3>2
    <3> QED BY <3>1, <3>2
  <2> QED BY <2>2, <2>3, <2>4
<1>3. ASSUME NEW n \in Node, sign_heartbeat_post(n) PROVE GenerationsOrdered'
  <2> DEFINE c == [from |-> n, key |-> KeyOf[n], info |-> clone[n].info,
                   ts |-> now_ms(n), clonedAt |-> clone[n].at]
  <2>1. /\ clone[n] # NoEntry /\ net' = net \cup {c} /\ clone'[n] = NoEntry
        /\ selfInfo' = selfInfo /\ now' = now /\ offset' = offset
        /\ \A m \in Node : m # n => clone'[m] = clone[m]
    BY <1>3 DEF sign_heartbeat_post
  <2>2. c.from = n /\ c.info = clone[n].info /\ c.clonedAt = clone[n].at
    OBVIOUS
  <2> HIDE DEF c
  <2>3. \A b \in net' : /\ b.info.gen <= selfInfo[b.from].gen
                        /\ b.clonedAt <= now_ms(b.from)
                        /\ CloneOrder(b.info, b.clonedAt, selfInfo[b.from])
    BY <2>1, <2>2
  <2>4. ASSUME NEW b \in net', NEW d \in net', b.from = d.from
        PROVE  CloneOrder(b.info, b.clonedAt, d.info)
    <3>1. CASE b \in net /\ d \in net
      BY <2>4, <3>1
    <3>2. CASE b = c /\ d = c
      <4>1. clone[n].info.gen \in Nat
        BY <2>1
      <4> QED BY <2>2, <3>2, <4>1
    <3>3. CASE b \in net /\ d = c
      BY <2>1, <2>2, <2>4, <3>3
    <3>4. CASE b = c /\ d \in net
      BY <2>1, <2>2, <2>4, <3>4
    <3> QED BY <2>1, <3>1, <3>2, <3>3, <3>4
  <2>5. \A b \in net' : clone'[b.from] # NoEntry =>
           b \in net /\ clone'[b.from] = clone[b.from]
    BY <2>1, <2>2
  <2> QED BY <2>1, <2>3, <2>4, <2>5
<1>4. ASSUME NEW n \in Node, snapshot(n) PROVE GenerationsOrdered'
  BY <1>4 DEF snapshot
<1>5. ASSUME NEW n \in Node, Crash(n) PROVE GenerationsOrdered'
  BY <1>5 DEF Crash
<1>6. ASSUME NEW n \in Node, Restart(n) PROVE GenerationsOrdered'
  BY <1>6 DEF Restart
<1>7. ASSUME NEW n \in Node, NEW b \in net, ingest_peer(n, b)
      PROVE  GenerationsOrdered'
  BY <1>7 DEF ingest_peer
<1>8. CASE Tick
  BY <1>8 DEF Tick
<1>9. CASE UNCHANGED vars
  BY <1>9 DEF vars
<1> QED BY <1>1, <1>2, <1>3, <1>4, <1>5, <1>6, <1>7, <1>8, <1>9 DEF Next

(* A peer's entry moves back to an older NodeInfo only through a beat that *)
(* was cloned before and stamped after the newer info: for every network   *)
(* behaviour the monotonic test of ingest_peer stops every other reordered *)
(* or repeated beat from undoing what the peer announced later.            *)
THEOREM RegressionBound == Spec => RegressionOnlyAcrossSigning
<1> DEFINE Step(n, p) ==
      (peers[n][p] # NoEntry /\ peers'[n][p] # NoEntry
         /\ peers'[n][p].info.gen < peers[n][p].info.gen)
      => peers'[n][p].clonedAt <= peers[n][p].info.ts
         /\ peers[n][p].info.ts <= peers'[n][p].wire
<1>1. Init => GenerationsOrdered
  BY DEF Init, GenerationsOrdered
<1>2. TypeOK /\ GenerationsOrdered /\ [Next]_vars => GenerationsOrdered'
  BY GenerationsOrderedNext
<1>3. ASSUME IInv, GenerationsOrdered, [Next]_vars,
             NEW n \in Node, NEW p \in Node
      PROVE  Step(n, p)
  <2> USE <1>3 DEF IInv, TypeOK
  <2>1. CASE peers'[n][p] = peers[n][p]
    <3>1. peers[n][p] # NoEntry => peers[n][p].info.gen \in Nat
      BY DEF PeerEntry, NodeInfo
    <3> QED BY <2>1, <3>1
  <2>2. CASE peers'[n][p] = NoEntry
    BY <2>2
  <2>3. ASSUME NEW m \in Node, NEW b \in net, ingest_peer(m, b)
        PROVE  Step(n, p)
    <3>1. b.from \in Node
      BY DEF Beat
    <3>2. CASE m = n /\ p = b.from /\ peers[n][p] # NoEntry
      <4>1. peers'[n][p] = [info |-> b.info, seen |-> now, wire |-> b.ts,
                            clonedAt |-> b.clonedAt]
        BY <2>3, <3>1, <3>2 DEF ingest_peer
      <4>2. PICK c \in net : EntryOfBeat(n, p, c)
        BY <3>2 DEF EntriesFromBeats
      <4>3. c.from = b.from /\ c.info = peers[n][p].info
        BY <3>2, <4>2 DEF EntryOfBeat
      <4>4. CloneOrder(b.info, b.clonedAt, c.info)
        BY <4>3 DEF GenerationsOrdered
      <4>5. peers[n][p].info.ts <= b.ts
        BY <2>3, <3>2 DEF ingest_peer, Accepts, Monotonic, PeerEntry, NodeInfo, Beat
      <4> QED BY <4>1, <4>3, <4>4, <4>5 DEF CloneOrder
    <3>3. CASE ~(m = n /\ p = b.from)
      <4>1. peers'[n][p] = peers[n][p]
        BY <2>3, <3>1, <3>3 DEF ingest_peer
      <4> QED BY <4>1, <2>1
    <3> QED BY <3>2, <3>3
  <2>4. ASSUME NEW m \in Node, snapshot(m) \/ Crash(m)
        PROVE  peers'[n][p] = peers[n][p] \/ peers'[n][p] = NoEntry
    BY <2>4 DEF snapshot, Crash
  <2>5. ASSUME NEW m \in Node,
               update_self(m) \/ sign_heartbeat_clone(m)
               \/ sign_heartbeat_post(m) \/ Restart(m)
        PROVE  peers' = peers
    BY <2>5 DEF update_self, sign_heartbeat_clone, sign_heartbeat_post, Restart
  <2>6. CASE Tick \/ UNCHANGED vars
    BY <2>6, <2>1 DEF Tick, vars
  <2> QED BY <1>3, <2>1, <2>2, <2>3, <2>4, <2>5, <2>6 DEF Next
<1>4. IInv /\ GenerationsOrdered /\ [Next]_vars
        => [\A n \in Node, p \in Node :
              LET e == peers[n][p]
                  f == peers'[n][p]
              IN (e # NoEntry /\ f # NoEntry /\ f.info.gen < e.info.gen)
                    => f.clonedAt <= e.info.ts /\ e.info.ts <= f.wire]_vars
  BY <1>3
<1>5. IInv => TypeOK
  BY DEF IInv
<1> HIDE DEF Step
<1> QED BY <1>1, <1>2, <1>4, <1>5, Inductive, PTL
       DEF Spec, RegressionOnlyAcrossSigning

=============================================================================
