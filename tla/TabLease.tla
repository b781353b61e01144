------------------------------- MODULE TabLease -------------------------------
(***************************************************************************)
(* The same-origin tab coordinator (src/probe/fe/origin_coordinator.js):   *)
(* which tab may collect the heavy packs, and how an unfinished collection *)
(* passes to another tab when its tab goes away.  Browsers with Web Locks: *)
(* the storage-only fallback is not modelled, and so neither is a lock     *)
(* request that the browser rejects with an error, which falls back to it. *)
(*                                                                         *)
(* Tabs are separate processes.  They share localStorage (the lease and    *)
(* the hand-off ticket), the browser's lock manager and a broadcast        *)
(* channel.  A handler is one step, except that the role is taken in the   *)
(* callback of a lock request, which runs later.  maybeUpgrade and         *)
(* processHandoff have actions of their own: the storage listener calls    *)
(* each alone, the heartbeat and the watch timer one after the other.      *)
(*                                                                         *)
(* Time.  A lease or a ticket is alive until an action of the environment  *)
(* ends it, which may happen at any time, because a hidden tab's two       *)
(* second heartbeat may be throttled far beyond the six second TTL.        *)
(* A stale progress record and a fresh claim are free choices.  Messages   *)
(* of one kind to one tab are merged: their handlers read shared state.  A *)
(* lease_free message only runs maybeUpgrade and processHandoff, which the *)
(* timers run anyway, and is left out.  Every tab sends its progress with  *)
(* every heartbeat; when such a message arrives is left open (HearB10).    *)
(* The tabs work on the visitor's cycle, whose id they share in storage; a *)
(* ticket may be left from another one.                                    *)
(***************************************************************************)
EXTENDS Naturals, FiniteSets

CONSTANTS
    Tabs,       \* tabs, by their tabId
    NoTab,      \* nobody
    MaxOpens,   \* bound: documents started
    MaxHides    \* bound: pagehide events and crashes

ASSUME TabAssumption ==
    /\ NoTab \notin Tabs
    /\ MaxOpens \in Nat /\ MaxHides \in Nat

VARIABLES
    open,       \* open[t]: t's document runs, its coordinator started
    role,       \* role[t]
    hasB10,     \* serverHasB10() in t
    claiming,   \* claimingHandoff in t
    req,        \* lock requests of t the lock manager has not answered
    lock,       \* holder of the Web Lock "gr-heavy-b10"
    lease,      \* LS_LEASE: whose, and is its heartbeat within the TTL
    ticket,     \* LS_HANDOFF
    inbox,      \* broadcast messages on their way to t
    b10,        \* the server has B10 for the cycle
    opens, hides

tabVars   == <<open, hasB10>>
roleVars  == <<role, req, lock, lease>>
boundVars == <<opens, hides>>
vars == <<tabVars, roleVars, claiming, ticket, inbox, b10, boundVars>>

Sources == {"upgrade", "handoff"}   \* who asked; start() counts as upgrade
Messages == {"handoff", "b10"}
NoLease == [tab |-> NoTab, alive |-> FALSE]
NoTicket == [collect |-> FALSE, upload |-> FALSE, by |-> NoTab, expired |-> FALSE]
Ticket == [collect : BOOLEAN, upload : BOOLEAN, by : Tabs \cup {NoTab},
           expired : BOOLEAN]

TypeOK ==
    /\ open \in [Tabs -> BOOLEAN] /\ hasB10 \in [Tabs -> BOOLEAN]
    /\ role \in [Tabs -> {"light", "heavy"}]
    /\ claiming \in [Tabs -> BOOLEAN]
    /\ req \in [Tabs -> SUBSET Sources]
    /\ lock \in Tabs \cup {NoTab}
    /\ lease \in [tab : Tabs \cup {NoTab}, alive : BOOLEAN]
    /\ ticket \in Ticket
    /\ inbox \in [Tabs -> SUBSET Messages]
    /\ b10 \in BOOLEAN
    /\ opens \in 0..MaxOpens /\ hides \in 0..MaxHides

Init ==
    /\ open = [t \in Tabs |-> FALSE] /\ hasB10 = [t \in Tabs |-> FALSE]
    /\ role = [t \in Tabs |-> "light"] /\ claiming = [t \in Tabs |-> FALSE]
    /\ req = [t \in Tabs |-> {}]
    /\ lock = NoTab /\ lease = NoLease /\ ticket = NoTicket
    /\ inbox = [t \in Tabs |-> {}]
    /\ b10 = FALSE /\ opens = 0 /\ hides = 0

broadcast(t, M) == [u \in Tabs |-> IF open[u] /\ u # t THEN inbox[u] \cup M ELSE inbox[u]]

leaseAlive == lease.alive

otherAlive(t) == leaseAlive /\ lease.tab # t

-----------------------------------------------------------------------------
(* Taking and giving up the role                                           *)

(* tryAcquireHeavy is refused at once when the server has B10 or another   *)
(* tab's lease is alive; else it asks the lock manager.                    *)
refused(t) == hasB10[t] \/ otherAlive(t)

tryAcquireHeavy(t, src) ==
    /\ role' = IF refused(t) THEN [role EXCEPT ![t] = "light"] ELSE role
    /\ req' = IF refused(t) THEN req ELSE [req EXCEPT ![t] = @ \cup {src}]
    /\ UNCHANGED <<lock, lease>>

becomeHeavy(t) ==
    /\ lock' = t
    /\ lease' = [tab |-> t, alive |-> TRUE]
    /\ role' = [role EXCEPT ![t] = "heavy"]

(* What processHandoff does when its attempt ends: a failure gives the     *)
(* claim back if the ticket still bears it.                                *)
claimEnds(t, ok) ==
    /\ claiming' = [claiming EXCEPT ![t] = FALSE]
    /\ ticket' = IF ~ok /\ ticket.by = t THEN [ticket EXCEPT !.by = NoTab] ELSE ticket

\* Mutant: the role is taken whether or not the lock was free.
lockGranted_Mut(t) == ~otherAlive(t)

(* The request is ifAvailable; the callback looks at the lease again.      *)
lockGranted(t) == lock = NoTab /\ ~otherAlive(t)

(* The lock manager answers.  A refusal makes the tab light, whatever its  *)
(* other requests brought meanwhile.                                       *)
LockReply(t, src) ==
    /\ open[t] /\ src \in req[t]
    /\ req' = [req EXCEPT ![t] = @ \ {src}]
    /\ \/ /\ lockGranted(t)
          /\ becomeHeavy(t)
       \/ /\ ~lockGranted(t)
          /\ role' = [role EXCEPT ![t] = "light"]
          /\ UNCHANGED <<lock, lease>>
    /\ IF src = "handoff" THEN claimEnds(t, lockGranted(t))
                          ELSE UNCHANGED <<claiming, ticket>>
    /\ UNCHANGED <<tabVars, inbox, b10, boundVars>>

\* Mutant: the poll does not look at the role.
PollLock_Mut(t) ==
    /\ open[t] /\ lock = t
    /\ lock' = NoTab
    /\ UNCHANGED <<tabVars, role, req, lease, claiming, ticket, inbox, b10, boundVars>>

(* The half-second poll inside the lock callback lets the lock go.         *)
PollLock(t) ==
    /\ open[t] /\ lock = t /\ role[t] # "heavy"
    /\ lock' = NoTab
    /\ UNCHANGED <<tabVars, role, req, lease, claiming, ticket, inbox, b10, boundVars>>

\* Mutant: the lease's owner is emptied instead of the lease removed.
clearMyLease_Mut(t) == IF lease.tab = t THEN [tab |-> "", alive |-> FALSE] ELSE lease

(* clearMyLease, within releaseHeavy.                                      *)
clearMyLease(t) == IF lease.tab = t THEN NoLease ELSE lease

-----------------------------------------------------------------------------
(* The hand-off ticket                                                     *)

needCollect(t, H) == ~hasB10[t] /\ H.collect

(* Whether a claim is younger than 15 s; a ticket without one has claim    *)
(* time 0.                                                                 *)
Freshness == IF ticket.by = NoTab THEN {FALSE} ELSE BOOLEAN

(* handoffIsActionable                                                     *)
handoffIsActionable(t, H, claimFresh) ==
    /\ ~H.expired
    /\ needCollect(t, H) \/ H.upload
    /\ needCollect(t, H) /\ H.by \notin {NoTab, t} =>
         /\ ~(leaseAlive /\ lease.tab = H.by)
         /\ ~(claimFresh /\ otherAlive(t))

(* clearHandoff, which its callers reach only when serverHasB10: not while *)
(* another tab's claim is being worked on.                                 *)
clearHandoff(t, claimFresh) ==
    ticket' = IF \/ ~hasB10[t]
                 \/ ticket.by \notin {t, NoTab} /\ handoffIsActionable(t, ticket, claimFresh)
              THEN ticket ELSE NoTicket

(* The ticket is not for t: clean up what is over.                         *)
dropFinished(t, claimFresh) ==
    \/ /\ (~ticket.collect /\ ~ticket.upload) \/ ticket.expired
       /\ ticket.by \in {t, NoTab}
       /\ ticket' = NoTicket
    \/ /\ hasB10[t] /\ ~ticket.upload
       /\ clearHandoff(t, claimFresh)

(* processHandoff.  Upload assistance only pumps the queue.  A heavy tab   *)
(* marks the claim; a light one claims and tries to become heavy.          *)
ProcessHandoff(t) ==
    /\ open[t] /\ ~claiming[t] /\ ticket # NoTicket
    /\ \E claimFresh \in Freshness :
         \/ /\ ~handoffIsActionable(t, ticket, claimFresh)
            /\ dropFinished(t, claimFresh)
            /\ UNCHANGED <<roleVars, claiming>>
         \/ /\ handoffIsActionable(t, ticket, claimFresh) /\ needCollect(t, ticket)
            /\ \/ /\ role[t] = "heavy"
                  /\ ticket' = [ticket EXCEPT !.by = t]
                  /\ UNCHANGED <<roleVars, claiming>>
               \/ /\ role[t] # "heavy" /\ ~refused(t)
                  /\ ticket' = [ticket EXCEPT !.by = t]
                  /\ claiming' = [claiming EXCEPT ![t] = TRUE]
                  /\ tryAcquireHeavy(t, "handoff")
               \/ /\ role[t] # "heavy" /\ refused(t)
                  /\ ticket' = [ticket EXCEPT !.by = NoTab]
                  /\ UNCHANGED <<roleVars, claiming>>
    /\ UNCHANGED <<tabVars, inbox, b10, boundVars>>

(* writeDurableHandoff: a ticket of the same cycle that is still open is   *)
(* merged with the new one and keeps another tab's claim; any other ticket *)
(* is overwritten.  Whether the claim is fresh matters to a ticket of the  *)
(* same cycle only, so the two free choices are one.                       *)
writeDurableHandoff(t, collect, upload, sameCycle) ==
    LET prev == /\ sameCycle
                /\ \/ \E claimFresh \in Freshness : handoffIsActionable(t, ticket, claimFresh)
                   \/ ticket.upload
        need == collect /\ ~hasB10[t]
    IN ticket' = IF ~need /\ ~upload THEN ticket
                 ELSE [collect |-> need \/ (prev /\ ticket.collect),
                       upload  |-> upload \/ (prev /\ ticket.upload),
                       by      |-> IF prev /\ ticket.by # t THEN ticket.by ELSE NoTab,
                       expired |-> FALSE]

-----------------------------------------------------------------------------
(* Timers and listeners                                                    *)

(* start(): a new document, its first attempt at the role.                 *)
Start(t) ==
    /\ ~open[t] /\ opens < MaxOpens
    /\ opens' = opens + 1
    /\ open' = [open EXCEPT ![t] = TRUE]
    /\ tryAcquireHeavy(t, "upgrade")
    /\ UNCHANGED <<hasB10, claiming, ticket, inbox, b10, hides>>

\* Mutant: only a removed lease is taken over, not one that ran out.
MaybeUpgrade_Mut(t) ==
    /\ open[t] /\ role[t] # "heavy" /\ ~refused(t) /\ lease.tab \in {t, NoTab}
    /\ tryAcquireHeavy(t, "upgrade")
    /\ UNCHANGED <<tabVars, claiming, ticket, inbox, b10, boundVars>>

(* maybeUpgrade: the lease is dead, or the progress record is stale.       *)
MaybeUpgrade(t) ==
    /\ open[t] /\ role[t] # "heavy" /\ ~refused(t)
    /\ tryAcquireHeavy(t, "upgrade")
    /\ UNCHANGED <<tabVars, claiming, ticket, inbox, b10, boundVars>>

(* The heartbeat of a heavy tab.  A light tab's sends its progress, and    *)
(* runs maybeUpgrade and processHandoff.                                   *)
Heartbeat(t) ==
    /\ open[t] /\ role[t] = "heavy"
    /\ lease' = [tab |-> t, alive |-> TRUE]
    /\ \E claimFresh \in Freshness :
          IF ticket.upload THEN UNCHANGED ticket ELSE clearHandoff(t, claimFresh)
    /\ UNCHANGED <<tabVars, role, req, lock, claiming, inbox, b10, boundVars>>

(* The watch timer once the server has B10.                                *)
WatchDone(t) ==
    /\ open[t] /\ hasB10[t]
    /\ \E claimFresh \in Freshness : clearHandoff(t, claimFresh)
    /\ inbox' = IF role[t] = "heavy" THEN broadcast(t, {"b10"}) ELSE inbox
    /\ UNCHANGED <<tabVars, roleVars, claiming, b10, boundVars>>

(* releaseHeavy                                                            *)
releaseHeavy(t) ==
    /\ role' = [role EXCEPT ![t] = "light"]
    /\ lease' = clearMyLease(t)

(* News of B10 demotes a heavy tab that knows it from the server.          *)
demote(t) ==
    IF role[t] = "heavy" /\ hasB10[t] THEN releaseHeavy(t) ELSE UNCHANGED <<role, lease>>

(* The broadcast channel: a hand-off is mirrored into the ticket when the  *)
(* one there is nothing t could act on; has_b10 ends ticket and role.      *)
OnMessage(t, m) ==
    /\ open[t] /\ m \in inbox[t]
    /\ \/ /\ m = "handoff"
          /\ \E claimFresh \in Freshness :
               ticket' = IF ~hasB10[t] /\ ~handoffIsActionable(t, ticket, claimFresh)
                         THEN [NoTicket EXCEPT !.collect = TRUE] ELSE ticket
          /\ UNCHANGED <<role, lease>>
       \/ /\ m = "b10"
          /\ \E claimFresh \in Freshness : clearHandoff(t, claimFresh)
          /\ demote(t)
    /\ inbox' = [inbox EXCEPT ![t] = @ \ {m}]
    /\ UNCHANGED <<tabVars, req, lock, claiming, b10, boundVars>>

(* A progress message that says B10 is there, from a document that may be  *)
(* light, and gone by now.                                                 *)
HearB10(t) ==
    /\ open[t] /\ b10 /\ opens > 1
    /\ demote(t)
    /\ UNCHANGED <<tabVars, req, lock, claiming, ticket, inbox, b10, boundVars>>

(* The browser drops what a document held.                                 *)
docEnds(t, newRole) ==
    /\ open' = [open EXCEPT ![t] = FALSE]
    /\ hasB10' = [hasB10 EXCEPT ![t] = FALSE]
    /\ role' = [newRole EXCEPT ![t] = "light"]
    /\ claiming' = [claiming EXCEPT ![t] = FALSE]
    /\ req' = [req EXCEPT ![t] = {}]
    /\ lock' = IF lock = t THEN NoTab ELSE lock

(* onPageHide: leave a ticket for what is unfinished, tell the others,     *)
(* release the role.  The document ends, or stays (a cancelled unload, the *)
(* back-forward cache).  collect: B10 is unfinished here; a heavy tab      *)
(* without B10 always says so.  A message about uploads alone changes      *)
(* nothing at its receivers and is left out.                               *)
PageHide(t) ==
    /\ open[t] /\ hides < MaxHides
    /\ hides' = hides + 1
    /\ \E collect, upload, sameCycle \in BOOLEAN :
         /\ role[t] = "heavy" /\ ~hasB10[t] => collect
         /\ writeDurableHandoff(t, collect, upload, sameCycle)
         /\ LET sent == IF collect THEN broadcast(t, {"handoff"}) ELSE inbox
            IN \/ /\ docEnds(t, role)
                  /\ inbox' = [sent EXCEPT ![t] = {}]
               \/ /\ role' = [role EXCEPT ![t] = "light"]
                  /\ inbox' = sent
                  /\ UNCHANGED <<open, hasB10, claiming, req, lock>>
    /\ lease' = IF role[t] = "heavy" THEN clearMyLease(t) ELSE lease
    /\ UNCHANGED <<b10, opens>>

(* The document is killed without a pagehide.                              *)
Crash(t) ==
    /\ open[t] /\ hides < MaxHides
    /\ hides' = hides + 1
    /\ docEnds(t, role)
    /\ inbox' = [inbox EXCEPT ![t] = {}]
    /\ UNCHANGED <<lease, ticket, b10, opens>>

-----------------------------------------------------------------------------
(* The environment                                                         *)

(* A heavy tab collects B10 (canHeavyCollect) and its upload is            *)
(* acknowledged.                                                           *)
Land(t) ==
    /\ open[t] /\ role[t] = "heavy" /\ ~hasB10[t]
    /\ b10' = TRUE
    /\ hasB10' = [hasB10 EXCEPT ![t] = TRUE]
    /\ UNCHANGED <<open, roleVars, claiming, ticket, inbox, boundVars>>

(* A status answer tells t what the server has.                            *)
LearnB10(t) ==
    /\ open[t] /\ b10 /\ ~hasB10[t]
    /\ hasB10' = [hasB10 EXCEPT ![t] = TRUE]
    /\ UNCHANGED <<open, roleVars, claiming, ticket, inbox, b10, boundVars>>

LeaseExpires ==
    /\ lease.alive
    /\ lease' = [lease EXCEPT !.alive = FALSE]
    /\ UNCHANGED <<tabVars, role, req, lock, claiming, ticket, inbox, b10, boundVars>>

TicketExpires ==
    /\ ticket # NoTicket /\ ~ticket.expired
    /\ ticket' = [ticket EXCEPT !.expired = TRUE]
    /\ UNCHANGED <<tabVars, roleVars, claiming, inbox, b10, boundVars>>

TabStep(t) ==
    \/ \E src \in Sources : LockReply(t, src)
    \/ PollLock(t) \/ MaybeUpgrade(t) \/ ProcessHandoff(t)
    \/ Heartbeat(t) \/ WatchDone(t)
    \/ (\E m \in Messages : OnMessage(t, m)) \/ HearB10(t)
    \/ Start(t) \/ PageHide(t) \/ Crash(t) \/ Land(t) \/ LearnB10(t)

Next == (\E t \in Tabs : TabStep(t)) \/ LeaseExpires \/ TicketExpires

(* Fairness.  The lock manager answers; the poll, the watch timer and the  *)
(* heartbeat keep firing while their document is open, so a tab that could *)
(* upgrade over a dead lease does; a lease nobody refreshes and a ticket   *)
(* expire (until then a tab may demote itself again and again, with the    *)
(* upgrade and the hand-off request of one heartbeat); a tab that stays    *)
(* heavy brings B10 home (its self-heal retries).  The lock has one holder,*)
(* so fairness of its poll is stated for all tabs at once.                 *)
deadLease == LeaseExpires /\ role[lease.tab] # "heavy"

Fairness ==
    /\ \A t \in Tabs : /\ \A src \in Sources : WF_vars(LockReply(t, src))
                       /\ WF_vars(MaybeUpgrade(t) /\ ~leaseAlive)
                       /\ WF_vars(Land(t))
    /\ WF_vars(\E t \in Tabs : PollLock(t))
    /\ WF_vars(deadLease) /\ WF_vars(TicketExpires)

Spec == Init /\ [][Next]_vars /\ Fairness

-----------------------------------------------------------------------------
(* Properties                                                              *)

(* The heavy tab owns the Web Lock and the lease in storage: a throttled   *)
(* tab whose lease looks dead to the others is still protected by the      *)
(* lock, a tab that lost the lock is no longer heavy, and the others can   *)
(* see who leads.                                                          *)
HeavyHoldsLock ==
    \A t \in Tabs : role[t] = "heavy" => open[t] /\ lock = t /\ lease.tab = t

(* The coordinator implements the exclusive heavy role: whatever crashes,  *)
(* hides, expires or races, the role is taken by one tab only after the    *)
(* one before has left it.                                                 *)
Role == INSTANCE HeavyRole WITH heavy <- {t \in Tabs : role[t] = "heavy"}
ImplementsHeavyRole == Role!Spec

(* As long as some tab stays open B10 is collected in the end, also when   *)
(* its first collector dies, when it dies holding a claim, and when a tab  *)
(* demotes itself by a second lock request.                                *)
B10Lands == <>[](\E t \in Tabs : open[t]) => <>b10

=============================================================================
