---------------------------- MODULE TabLeaseProofs ----------------------------
(***************************************************************************)
(* For any number of tabs and any bounds: the coordinator is well typed,   *)
(* its heavy tab holds the lock and the lease, and it implements the       *)
(* exclusive heavy role.                                                   *)
(***************************************************************************)
EXTENDS TabLease, TLAPS

(* broadcast, clearMyLease and the ticket operators return values of their *)
(* types.                                                                  *)
LEMMA BroadcastType ==
    ASSUME NEW t, NEW M \in SUBSET Messages, inbox \in [Tabs -> SUBSET Messages]
    PROVE  broadcast(t, M) \in [Tabs -> SUBSET Messages]
BY DEF broadcast

LEMMA TicketTypes ==
    ASSUME NEW t \in Tabs, TypeOK, NEW f \in BOOLEAN
    PROVE  /\ NoTicket \in Ticket
           /\ clearHandoff(t, f) => ticket' \in Ticket
           /\ dropFinished(t, f) => ticket' \in Ticket
           /\ \A c, u \in BOOLEAN : writeDurableHandoff(t, c, u, f) => ticket' \in Ticket
<1>1. NoTicket \in Ticket
  BY DEF NoTicket, Ticket
<1>2. clearHandoff(t, f) => ticket' \in Ticket
  BY <1>1 DEF clearHandoff, TypeOK
<1>3. dropFinished(t, f) => ticket' \in Ticket
  BY <1>1, <1>2 DEF dropFinished
<1>4. ASSUME NEW c \in BOOLEAN, NEW u \in BOOLEAN, writeDurableHandoff(t, c, u, f)
      PROVE  ticket' \in Ticket
  <2>1. ticket \in Ticket
    BY DEF TypeOK
  <2>2. hasB10[t] \in BOOLEAN
    BY DEF TypeOK
  <2> DEFINE prev == /\ f
                     /\ \/ \E g \in Freshness : handoffIsActionable(t, ticket, g)
                        \/ ticket.upload
             collect2 == (c /\ ~hasB10[t]) \/ (prev /\ ticket.collect)
             upload2 == u \/ (prev /\ ticket.upload)
             by2 == IF prev /\ ticket.by # t THEN ticket.by ELSE NoTab
  <2>3. collect2 \in BOOLEAN /\ upload2 \in BOOLEAN
    OBVIOUS
  <2>4. by2 \in Tabs \cup {NoTab}
    BY <2>1 DEF Ticket
  <2>5. \/ ticket' = ticket
        \/ ticket' = [collect |-> collect2, upload |-> upload2, by |-> by2, expired |-> FALSE]
    BY <1>4 DEF writeDurableHandoff
  <2>6. \A x, y \in BOOLEAN : \A z \in Tabs \cup {NoTab} :
           [collect |-> x, upload |-> y, by |-> z, expired |-> FALSE] \in Ticket
    BY DEF Ticket
  <2> HIDE DEF collect2, upload2, by2
  <2> QED
    BY <2>1, <2>3, <2>4, <2>5, <2>6, Zenon
<1> QED
  BY <1>1, <1>2, <1>3, <1>4

(* Initially every variable has its type.                                  *)
LEMMA TypeInit == Init => TypeOK
<1> SUFFICES ASSUME Init PROVE TypeOK
  OBVIOUS
<1>1. /\ open \in [Tabs -> BOOLEAN] /\ hasB10 \in [Tabs -> BOOLEAN]
      /\ role \in [Tabs -> {"light", "heavy"}]
      /\ claiming \in [Tabs -> BOOLEAN]
  BY DEF Init
<1>2. req \in [Tabs -> SUBSET Sources] /\ inbox \in [Tabs -> SUBSET Messages]
  BY DEF Init
<1>3. lease \in [tab : Tabs \cup {NoTab}, alive : BOOLEAN] /\ lock \in Tabs \cup {NoTab}
  BY DEF Init, NoLease
<1>4. ticket \in Ticket
  BY DEF Init, NoTicket, Ticket
<1>5. b10 \in BOOLEAN
  BY DEF Init
<1>6. opens \in 0..MaxOpens /\ hides \in 0..MaxHides
  <2>1. opens = 0 /\ hides = 0
    BY DEF Init
  <2> QED
    BY <2>1, TabAssumption
<1> QED
  BY <1>1, <1>2, <1>3, <1>4, <1>5, <1>6 DEF TypeOK

(* A claim is fresh or not.                                                *)
LEMMA FreshType == Freshness \subseteq BOOLEAN
BY DEF Freshness

(* The request part of taking the role.                                    *)
LEMMA AcquireType ==
    ASSUME NEW t \in Tabs, NEW src \in Sources, TypeOK, tryAcquireHeavy(t, src)
    PROVE  /\ role' \in [Tabs -> {"light", "heavy"}]
           /\ req' \in [Tabs -> SUBSET Sources]
           /\ lock' = lock /\ lease' = lease
BY DEF tryAcquireHeavy, TypeOK

(* A document that ends.                                                   *)
LEMMA DocEndsType ==
    ASSUME NEW t \in Tabs, TypeOK, docEnds(t, role)
    PROVE  /\ open' \in [Tabs -> BOOLEAN] /\ hasB10' \in [Tabs -> BOOLEAN]
           /\ role' \in [Tabs -> {"light", "heavy"}]
           /\ claiming' \in [Tabs -> BOOLEAN]
           /\ req' \in [Tabs -> SUBSET Sources]
           /\ lock' \in Tabs \cup {NoTab}
BY DEF docEnds, TypeOK

(* Every step keeps the types.                                             *)
LEMMA TypeStep == TypeOK /\ [Next]_vars => TypeOK'
<1> SUFFICES ASSUME TypeOK, [Next]_vars PROVE TypeOK'
  OBVIOUS
<1> USE TabAssumption
<1>0. NoLease \in [tab : Tabs \cup {NoTab}, alive : BOOLEAN]
  BY DEF NoLease
<1>1. ASSUME NEW t \in Tabs, NEW src \in Sources, LockReply(t, src) PROVE TypeOK'
  <2>1. /\ claimEnds(t, lockGranted(t)) \/ UNCHANGED <<claiming, ticket>>
        /\ UNCHANGED <<tabVars, inbox, b10, boundVars>>
        /\ req' = [req EXCEPT ![t] = @ \ {src}]
        /\ \/ becomeHeavy(t)
           \/ role' = [role EXCEPT ![t] = "light"] /\ UNCHANGED <<lock, lease>>
    BY <1>1 DEF LockReply
  <2>2. [ticket EXCEPT !.by = NoTab] \in Ticket
    BY DEF TypeOK, Ticket
  <2>3. ticket' \in Ticket /\ claiming' \in [Tabs -> BOOLEAN]
    BY <2>1, <2>2 DEF claimEnds, TypeOK
  <2>4. req' \in [Tabs -> SUBSET Sources]
    BY <2>1 DEF TypeOK
  <2>5. /\ role' \in [Tabs -> {"light", "heavy"}]
        /\ lock' \in Tabs \cup {NoTab}
        /\ lease' \in [tab : Tabs \cup {NoTab}, alive : BOOLEAN]
    <3>1. CASE becomeHeavy(t)
      BY <3>1 DEF becomeHeavy, TypeOK
    <3>2. CASE role' = [role EXCEPT ![t] = "light"] /\ UNCHANGED <<lock, lease>>
      BY <3>2 DEF TypeOK
    <3> QED
      BY <2>1, <3>1, <3>2
  <2> QED
    BY <2>1, <2>3, <2>4, <2>5 DEF TypeOK, tabVars, boundVars
<1>2. ASSUME NEW t \in Tabs, PollLock(t) PROVE TypeOK'
  BY <1>2 DEF PollLock, TypeOK, tabVars, boundVars
<1>3. ASSUME NEW t \in Tabs, MaybeUpgrade(t) PROVE TypeOK'
  <2>1. "upgrade" \in Sources
    BY DEF Sources
  <2> QED
    BY <1>3, <2>1, AcquireType DEF MaybeUpgrade, TypeOK, tabVars, boundVars
<1>4. ASSUME NEW t \in Tabs, ProcessHandoff(t) PROVE TypeOK'
  <2>1. "handoff" \in Sources
    BY DEF Sources
  <2>2. PICK f \in BOOLEAN :
         \/ /\ dropFinished(t, f)
            /\ UNCHANGED <<roleVars, claiming>>
         \/ /\ ticket' = [ticket EXCEPT !.by = t]
            /\ UNCHANGED <<roleVars, claiming>>
         \/ /\ ticket' = [ticket EXCEPT !.by = t]
            /\ claiming' = [claiming EXCEPT ![t] = TRUE]
            /\ tryAcquireHeavy(t, "handoff")
         \/ /\ ticket' = [ticket EXCEPT !.by = NoTab]
            /\ UNCHANGED <<roleVars, claiming>>
    BY <1>4, FreshType DEF ProcessHandoff
  <2>3. ticket' \in Ticket
    BY <2>2, TicketTypes DEF TypeOK, Ticket
  <2>4. claiming' \in [Tabs -> BOOLEAN]
    BY <2>2 DEF TypeOK
  <2>5. UNCHANGED <<tabVars, inbox, b10, boundVars>>
    BY <1>4 DEF ProcessHandoff
  <2>6. UNCHANGED roleVars \/ tryAcquireHeavy(t, "handoff")
    BY <2>2
  <2>7. /\ role' \in [Tabs -> {"light", "heavy"}]
        /\ req' \in [Tabs -> SUBSET Sources]
        /\ lock' = lock /\ lease' = lease
    BY <2>1, <2>6, AcquireType DEF roleVars, TypeOK
  <2> QED
    BY <2>3, <2>4, <2>5, <2>7 DEF TypeOK, tabVars, boundVars
<1>5. ASSUME NEW t \in Tabs, Heartbeat(t) PROVE TypeOK'
  <2>1. ticket' \in Ticket
    BY <1>5, TicketTypes, FreshType DEF Heartbeat, TypeOK
  <2> QED
    BY <1>5, <2>1 DEF Heartbeat, TypeOK, tabVars, boundVars
<1>6. ASSUME NEW t \in Tabs, WatchDone(t) PROVE TypeOK'
  <2>1. ticket' \in Ticket
    BY <1>6, TicketTypes, FreshType DEF WatchDone, TypeOK
  <2>2. inbox' \in [Tabs -> SUBSET Messages]
    BY <1>6, BroadcastType DEF WatchDone, TypeOK, Messages
  <2> QED
    BY <1>6, <2>1, <2>2 DEF WatchDone, TypeOK, tabVars, roleVars, boundVars
<1>7. ASSUME NEW t \in Tabs, NEW m \in Messages, OnMessage(t, m) PROVE TypeOK'
  <2>1. [NoTicket EXCEPT !.collect = TRUE] \in Ticket
    BY DEF NoTicket, Ticket
  <2>2. ticket' \in Ticket
    BY <1>7, <2>1, TicketTypes, FreshType DEF OnMessage, TypeOK
  <2>3. /\ inbox' \in [Tabs -> SUBSET Messages]
        /\ role' \in [Tabs -> {"light", "heavy"}]
    BY <1>7 DEF OnMessage, demote, releaseHeavy, TypeOK
  <2>4. lease' \in [tab : Tabs \cup {NoTab}, alive : BOOLEAN]
    BY <1>7, <1>0 DEF OnMessage, demote, releaseHeavy, TypeOK, clearMyLease
  <2> QED
    BY <1>7, <2>2, <2>3, <2>4 DEF OnMessage, TypeOK, tabVars, boundVars
<1>7a. ASSUME NEW t \in Tabs, HearB10(t) PROVE TypeOK'
  <2>1. lease' \in [tab : Tabs \cup {NoTab}, alive : BOOLEAN]
    BY <1>7a, <1>0 DEF HearB10, demote, releaseHeavy, TypeOK, clearMyLease
  <2>2. role' \in [Tabs -> {"light", "heavy"}]
    BY <1>7a DEF HearB10, demote, releaseHeavy, TypeOK
  <2> QED
    BY <1>7a, <2>1, <2>2 DEF HearB10, TypeOK, tabVars, boundVars
<1>8. ASSUME NEW t \in Tabs, Start(t) PROVE TypeOK'
  <2>1. "upgrade" \in Sources
    BY DEF Sources
  <2> QED
    BY <1>8, <2>1, AcquireType DEF Start, TypeOK
<1>9. ASSUME NEW t \in Tabs, PageHide(t) PROVE TypeOK'
  <2>1. PICK c \in BOOLEAN, u \in BOOLEAN, f \in BOOLEAN :
          /\ writeDurableHandoff(t, c, u, f)
          /\ LET sent == IF c THEN broadcast(t, {"handoff"}) ELSE inbox
             IN \/ docEnds(t, role) /\ inbox' = [sent EXCEPT ![t] = {}]
                \/ /\ role' = [role EXCEPT ![t] = "light"]
                   /\ inbox' = sent
                   /\ UNCHANGED <<open, hasB10, claiming, req, lock>>
    BY <1>9 DEF PageHide
  <2>2. ticket' \in Ticket
    BY <2>1, TicketTypes
  <2>3. broadcast(t, {"handoff"}) \in [Tabs -> SUBSET Messages]
    BY BroadcastType DEF TypeOK, Messages
  <2>4. inbox' \in [Tabs -> SUBSET Messages]
    BY <2>1, <2>3 DEF TypeOK
  <2>5. /\ open' \in [Tabs -> BOOLEAN] /\ hasB10' \in [Tabs -> BOOLEAN]
        /\ role' \in [Tabs -> {"light", "heavy"}]
        /\ claiming' \in [Tabs -> BOOLEAN]
        /\ req' \in [Tabs -> SUBSET Sources]
        /\ lock' \in Tabs \cup {NoTab}
    <3>1. CASE docEnds(t, role)
      BY <3>1, DocEndsType
    <3>2. CASE /\ role' = [role EXCEPT ![t] = "light"]
               /\ UNCHANGED <<open, hasB10, claiming, req, lock>>
      BY <3>2 DEF TypeOK
    <3> QED
      BY <2>1, <3>1, <3>2
  <2>6. lease' \in [tab : Tabs \cup {NoTab}, alive : BOOLEAN]
    BY <1>9, <1>0 DEF PageHide, clearMyLease, TypeOK
  <2>7. b10' = b10 /\ opens' = opens /\ hides' \in 0..MaxHides
    BY <1>9 DEF PageHide, TypeOK
  <2> QED
    BY <2>2, <2>4, <2>5, <2>6, <2>7 DEF TypeOK
<1>10. ASSUME NEW t \in Tabs, Crash(t) PROVE TypeOK'
  <2>1. /\ lease' = lease /\ ticket' = ticket /\ b10' = b10 /\ opens' = opens
        /\ hides' \in 0..MaxHides
        /\ inbox' \in [Tabs -> SUBSET Messages]
        /\ docEnds(t, role)
    BY <1>10 DEF Crash, TypeOK
  <2> QED
    BY <2>1, DocEndsType DEF TypeOK
<1>11. ASSUME NEW t \in Tabs, Land(t) \/ LearnB10(t) PROVE TypeOK'
  BY <1>11 DEF Land, LearnB10, TypeOK, roleVars, boundVars
<1>12. CASE LeaseExpires
  BY <1>12 DEF LeaseExpires, TypeOK, tabVars, boundVars
<1>13. CASE TicketExpires
  BY <1>13 DEF TicketExpires, TypeOK, Ticket, tabVars, roleVars, boundVars
<1>14. CASE UNCHANGED vars
  BY <1>14 DEF vars, tabVars, roleVars, boundVars, TypeOK
<1> QED
  BY <1>1, <1>2, <1>3, <1>4, <1>5, <1>6, <1>7, <1>7a, <1>8, <1>9, <1>10, <1>11, <1>12,
     <1>13, <1>14 DEF Next, TabStep

(* The shared keys, the lock and every tab's state keep their types.       *)
THEOREM TypeCorrect == Spec => []TypeOK
BY TypeInit, TypeStep, PTL DEF Spec

-----------------------------------------------------------------------------
(* The heavy tab owns lock and lease                                       *)

LEMMA OwnerInit == Init => HeavyHoldsLock
BY DEF Init, HeavyHoldsLock

(* The invariant is inductive with the types: a grant needs a free lock,   *)
(* so nobody is heavy then; the poll frees the lock of a light tab, which  *)
(* no heavy tab can share; a lease is removed by its own tab only.         *)
LEMMA OwnerStep == TypeOK /\ HeavyHoldsLock /\ [Next]_vars => HeavyHoldsLock'
<1> SUFFICES ASSUME TypeOK, HeavyHoldsLock, [Next]_vars,
                    NEW u \in Tabs, role'[u] = "heavy"
             PROVE  open'[u] /\ lock' = u /\ lease'.tab = u
  BY DEF HeavyHoldsLock
<1> USE TabAssumption
<1>a. role[u] = "heavy" => open[u] /\ lock = u /\ lease.tab = u
  BY DEF HeavyHoldsLock
<1>1. ASSUME NEW t \in Tabs, NEW src \in Sources, LockReply(t, src)
      PROVE  open'[u] /\ lock' = u /\ lease'.tab = u
  <2>1. CASE lockGranted(t) /\ becomeHeavy(t)
    <3>1. lock = NoTab
      BY <2>1 DEF lockGranted
    <3>2. u = t
      BY <1>a, <2>1, <3>1 DEF becomeHeavy, TypeOK
    <3> QED
      BY <1>1, <2>1, <3>2 DEF LockReply, becomeHeavy, tabVars
  <2>2. CASE role' = [role EXCEPT ![t] = "light"] /\ UNCHANGED <<lock, lease>>
    BY <1>1, <1>a, <2>2 DEF LockReply, tabVars, TypeOK
  <2> QED
    BY <1>1, <2>1, <2>2 DEF LockReply
<1>2. ASSUME NEW t \in Tabs, PollLock(t) PROVE open'[u] /\ lock' = u /\ lease'.tab = u
  BY <1>2, <1>a DEF PollLock, tabVars
<1>3. ASSUME NEW t \in Tabs, MaybeUpgrade(t) PROVE open'[u] /\ lock' = u /\ lease'.tab = u
  BY <1>3, <1>a DEF MaybeUpgrade, tryAcquireHeavy, tabVars, TypeOK
<1>4. ASSUME NEW t \in Tabs, ProcessHandoff(t) PROVE open'[u] /\ lock' = u /\ lease'.tab = u
  <2>1. UNCHANGED roleVars \/ tryAcquireHeavy(t, "handoff")
    BY <1>4 DEF ProcessHandoff
  <2>2. open' = open
    BY <1>4 DEF ProcessHandoff, tabVars
  <2> QED
    BY <2>1, <2>2, <1>a DEF roleVars, tryAcquireHeavy, TypeOK
<1>5. ASSUME NEW t \in Tabs, Heartbeat(t) PROVE open'[u] /\ lock' = u /\ lease'.tab = u
  BY <1>5, <1>a DEF Heartbeat, tabVars, HeavyHoldsLock
<1>6. ASSUME NEW t \in Tabs, WatchDone(t) PROVE open'[u] /\ lock' = u /\ lease'.tab = u
  BY <1>6, <1>a DEF WatchDone, tabVars, roleVars
<1>7. ASSUME NEW t \in Tabs, NEW m \in Messages, OnMessage(t, m)
      PROVE  open'[u] /\ lock' = u /\ lease'.tab = u
  <2>1. \/ UNCHANGED <<role, lease>>
        \/ role' = [role EXCEPT ![t] = "light"] /\ lease' = clearMyLease(t)
    BY <1>7 DEF OnMessage, demote, releaseHeavy
  <2>2. open' = open /\ lock' = lock
    BY <1>7 DEF OnMessage, tabVars
  <2> QED
    BY <2>1, <2>2, <1>a DEF clearMyLease, TypeOK
<1>7a. ASSUME NEW t \in Tabs, HearB10(t)
       PROVE  open'[u] /\ lock' = u /\ lease'.tab = u
  <2>1. \/ UNCHANGED <<role, lease>>
        \/ role' = [role EXCEPT ![t] = "light"] /\ lease' = clearMyLease(t)
    BY <1>7a DEF HearB10, demote, releaseHeavy
  <2>2. open' = open /\ lock' = lock
    BY <1>7a DEF HearB10, tabVars
  <2> QED
    BY <2>1, <2>2, <1>a DEF clearMyLease, TypeOK
<1>8. ASSUME NEW t \in Tabs, Start(t) PROVE open'[u] /\ lock' = u /\ lease'.tab = u
  BY <1>8, <1>a DEF Start, tryAcquireHeavy, TypeOK
<1>9. ASSUME NEW t \in Tabs, PageHide(t) PROVE open'[u] /\ lock' = u /\ lease'.tab = u
  <2>1. /\ lease' = lease \/ lease' = clearMyLease(t)
        /\ \/ docEnds(t, role)
           \/ role' = [role EXCEPT ![t] = "light"] /\ UNCHANGED <<open, lock>>
    BY <1>9 DEF PageHide
  <2>2. u # t /\ role[u] = "heavy"
    BY <2>1 DEF docEnds, TypeOK
  <2> QED
    BY <2>1, <2>2, <1>a DEF docEnds, clearMyLease, TypeOK
<1>10. ASSUME NEW t \in Tabs, Crash(t) PROVE open'[u] /\ lock' = u /\ lease'.tab = u
  BY <1>10, <1>a DEF Crash, docEnds, TypeOK
<1>11. ASSUME NEW t \in Tabs, Land(t) \/ LearnB10(t)
       PROVE  open'[u] /\ lock' = u /\ lease'.tab = u
  BY <1>11, <1>a DEF Land, LearnB10, roleVars
<1>12. CASE LeaseExpires
  BY <1>12, <1>a DEF LeaseExpires, tabVars, TypeOK
<1>13. CASE TicketExpires
  BY <1>13, <1>a DEF TicketExpires, tabVars, roleVars
<1>14. CASE UNCHANGED vars
  BY <1>14, <1>a DEF vars, tabVars, roleVars
<1> QED
  BY <1>1, <1>2, <1>3, <1>4, <1>5, <1>6, <1>7, <1>7a, <1>8, <1>9, <1>10, <1>11, <1>12,
     <1>13, <1>14 DEF Next, TabStep

(* In every reachable state the heavy tab is open and owns the Web Lock    *)
(* and the stored lease.                                                   *)
THEOREM HeavyOwner == Spec => []HeavyHoldsLock
<1>1. Init => TypeOK /\ HeavyHoldsLock
  BY TypeInit, OwnerInit
<1>2. TypeOK /\ HeavyHoldsLock /\ [Next]_vars => (TypeOK /\ HeavyHoldsLock)'
  BY TypeStep, OwnerStep
<1> QED
  BY <1>1, <1>2, PTL DEF Spec

-----------------------------------------------------------------------------
(* Refinement                                                              *)

heavyTabs == {t \in Tabs : role[t] = "heavy"}

LEMMA RefineInit == Init => Role!Init
BY DEF Init, Role!Init

(* A step that makes a tab light, or leaves all roles, is a Leave or a     *)
(* stutter of the exclusive role.                                          *)
LEMMA LightStep ==
    ASSUME NEW t \in Tabs, TypeOK, HeavyHoldsLock,
           role' = [role EXCEPT ![t] = "light"] \/ role' = role
    PROVE  [Role!Next]_heavyTabs
<1>1. CASE role' = role
  BY <1>1 DEF heavyTabs
<1>2. CASE role' = [role EXCEPT ![t] = "light"]
  <2>1. CASE role[t] = "heavy"
    <3>1. heavyTabs = {t}
      BY <2>1 DEF heavyTabs, HeavyHoldsLock
    <3>2. heavyTabs' = {}
      BY <1>2, <3>1 DEF heavyTabs, TypeOK
    <3>3. Role!Leave(t)
      BY <3>1, <3>2 DEF heavyTabs, Role!Leave
    <3> QED
      BY <3>3 DEF Role!Next
  <2>2. CASE role[t] # "heavy"
    <3>1. heavyTabs' = heavyTabs
      BY <1>2, <2>2 DEF heavyTabs, TypeOK
    <3> QED
      BY <3>1
  <2> QED
    BY <2>1, <2>2
<1> QED
  BY <1>1, <1>2

(* Every step of the coordinator is a step of the exclusive role.          *)
LEMMA RefineStep == TypeOK /\ HeavyHoldsLock /\ [Next]_vars => [Role!Next]_heavyTabs
<1> SUFFICES ASSUME TypeOK, HeavyHoldsLock, [Next]_vars PROVE [Role!Next]_heavyTabs
  OBVIOUS
<1>1. ASSUME NEW t \in Tabs, NEW src \in Sources, LockReply(t, src)
      PROVE  [Role!Next]_heavyTabs
  <2>1. CASE lockGranted(t) /\ becomeHeavy(t)
    <3>1. heavyTabs = {}
      BY <2>1, TabAssumption DEF heavyTabs, HeavyHoldsLock, lockGranted
    <3>2. heavyTabs' = {t}
      BY <2>1, <3>1 DEF heavyTabs, becomeHeavy, TypeOK
    <3>3. Role!Take(t)
      BY <3>1, <3>2 DEF heavyTabs, Role!Take
    <3> QED
      BY <3>3 DEF Role!Next
  <2>2. CASE role' = [role EXCEPT ![t] = "light"]
    BY <2>2, LightStep
  <2> QED
    BY <1>1, <2>1, <2>2 DEF LockReply
<1>2. ASSUME NEW t \in Tabs,
             \/ PollLock(t) \/ MaybeUpgrade(t) \/ Heartbeat(t) \/ WatchDone(t)
             \/ (\E m \in Messages : OnMessage(t, m)) \/ HearB10(t)
             \/ Start(t) \/ PageHide(t) \/ Crash(t) \/ Land(t) \/ LearnB10(t)
      PROVE  [Role!Next]_heavyTabs
  <2>1. role' = [role EXCEPT ![t] = "light"] \/ role' = role
    BY <1>2 DEF PollLock, MaybeUpgrade, tryAcquireHeavy, Heartbeat, WatchDone,
                OnMessage, HearB10, demote, releaseHeavy, Start, PageHide, Crash,
                docEnds, Land, LearnB10, roleVars
  <2> QED
    BY <2>1, LightStep
<1>3. ASSUME NEW t \in Tabs, ProcessHandoff(t) PROVE [Role!Next]_heavyTabs
  <2>1. UNCHANGED roleVars \/ tryAcquireHeavy(t, "handoff")
    BY <1>3 DEF ProcessHandoff
  <2>2. role' = [role EXCEPT ![t] = "light"] \/ role' = role
    BY <2>1 DEF roleVars, tryAcquireHeavy
  <2> QED
    BY <2>2, LightStep
<1>4. CASE LeaseExpires \/ TicketExpires \/ UNCHANGED vars
  <2>1. role' = role
    BY <1>4 DEF LeaseExpires, TicketExpires, vars, roleVars
  <2> QED
    BY <2>1 DEF heavyTabs
<1> QED
  BY <1>1, <1>2, <1>3, <1>4 DEF Next, TabStep

(* The coordinator implements the exclusive heavy role, for any set of     *)
(* tabs: each behaviour of Spec, seen through the set of heavy tabs, takes *)
(* the role only when nobody has it.                                       *)
THEOREM Refinement == Spec => ImplementsHeavyRole
<1>1. Init => TypeOK /\ HeavyHoldsLock /\ Role!Init
  BY TypeInit, OwnerInit, RefineInit
<1>2. TypeOK /\ HeavyHoldsLock /\ [Next]_vars => (TypeOK /\ HeavyHoldsLock)'
  BY TypeStep, OwnerStep
<1>3. TypeOK /\ HeavyHoldsLock /\ [Next]_vars
        => [Role!Next]_{t \in Tabs : role[t] = "heavy"}
  BY RefineStep DEF heavyTabs
<1> QED
  BY <1>1, <1>2, <1>3, PTL DEF Spec, ImplementsHeavyRole, Role!Spec

=============================================================================
