----------------------------- MODULE PackLoader -----------------------------
(***************************************************************************)
(* The pack loader of the browser probe (probe/fe/pack_loader.js): waves   *)
(* of packs (kickAll) that share one resource bus.                         *)
(*                                                                         *)
(* Several callers kick waves on one page: the boot sequence, the brain's  *)
(* route plan and the self-heal supervisor.  A wave's pump admits packs in *)
(* order, as many as its own class counters allow; an admitted pack loads  *)
(* its script, takes the bus locks of its resource classes and runs its    *)
(* collector under a timer.  A pump runs to its end without interruption,  *)
(* so while `pumping` names a wave nothing else moves; every other step is *)
(* a callback of its own.                                                  *)
(*                                                                         *)
(* Left out: the health table (read by diagnostics and by the supervisor,  *)
(* see SelfHeal), script URLs, priorities within a group, the engine and   *)
(* deadline gates of a route plan, which only filter the list.             *)
(***************************************************************************)
EXTENDS Integers, Sequences, FiniteSets

CONSTANTS
    Packs, Waves,       \* pack ids, and the kickAll calls of the page
    Classes,            \* EXCLUSIVE_CLASSES in acquire order, a sequence
    resourceClasses,    \* pack -> its exclusive classes; none = light
    B10,                \* the primary residual B10_hw_curves
    MustLand,           \* B10x_silicon_*, scheduled right after B10
    Lean,               \* hard anchors that need not wait for B10
    DespiteHalt,        \* packs allowed to run after an identity halt
    DependsOn,          \* pack -> dag_v2.depends_on
    Lists,              \* the pack lists a caller may pass, in any order
    MaxLight,           \* light packs of one wave at a time
    MaxEvents,          \* bound on what the rest of the page does
    None

VARIABLES
    wave,       \* kickAll's closure: list, next, serial, tried, timer
    run,        \* progress of runOne for <<wave, pack>>
    nested,     \* runs that took the re-entrant path
    bus,        \* __GR_RESOURCE_BUS__, with the promises it owes
    kicked,     \* packs marked as run
    b10Acked,   \* the primary B10 is acknowledged
    halted,     \* probeHalted()
    pumping,    \* the wave whose pump is on the stack, or None
    events

vars == <<wave, run, nested, bus, kicked, b10Acked, halted, pumping, events>>
env  == <<b10Acked, halted, events>>

Class == {Classes[i] : i \in DOMAIN Classes}
Gpu   == Classes[1]
Runs  == Waves \X Packs
Unkicked == [list |-> <<>>, next |-> 1, serial |-> FALSE, tried |-> {}, timer |-> FALSE]

(* Classes released by a run timeout and by a stall recovery.              *)
CONSTANT Forced

ASSUME ConstAssumption ==
    /\ None \notin Runs /\ None \notin Waves
    /\ Classes \in Seq(Class) /\ Classes # <<>> /\ Forced \subseteq Class
    /\ resourceClasses \in [Packs -> SUBSET Class]
    /\ DependsOn \in [Packs -> SUBSET Packs]
    \* a list names a pack once, so <<wave, pack>> is one run
    /\ \A l \in Lists : /\ l \in Seq(Packs)
                        /\ \A i, j \in DOMAIN l : l[i] = l[j] => i = j
    /\ MaxLight \in Nat \ {0} /\ MaxEvents \in Nat

RunState == {"none", "listed", "load", "lock", "run", "done"}

Wave == [list : Seq(Packs), next : Nat, serial : BOOLEAN, tried : SUBSET Packs,
         timer : BOOLEAN]

Bus == [holders : [Class -> Runs \cup {None}], depth : [Class -> Int],
        waiters : [Class -> Seq(Runs)], got : [Runs -> SUBSET Class],
        wakes : SUBSET (Class \X Runs)]

TypeOK ==
    /\ wave \in [Waves -> Wave]
    /\ \A w \in Waves : wave[w].next \in 1 .. Len(wave[w].list) + 1
    /\ run \in [Runs -> RunState]
    /\ nested \subseteq Runs
    /\ bus \in Bus
    /\ kicked \subseteq Packs
    /\ b10Acked \in BOOLEAN /\ halted \in BOOLEAN /\ events \in 0 .. MaxEvents
    /\ pumping \in Waves \cup {None}

Init ==
    /\ wave = [w \in Waves |-> Unkicked]
    /\ run = [o \in Runs |-> "none"]
    /\ nested = {}
    /\ bus = [holders |-> [c \in Class |-> None], depth |-> [c \in Class |-> 0],
              waiters |-> [c \in Class |-> <<>>], got |-> [o \in Runs |-> {}],
              wakes |-> {}]
    /\ kicked = {} /\ b10Acked = FALSE /\ halted = FALSE
    /\ pumping = None /\ events = 0

----------------------------------------------------------------------------
(* Waves and their pump.                                                   *)

classesForPack(w, p) == IF wave[w].serial THEN {Gpu} ELSE resourceClasses[p]

admitted(w) == {p \in Packs : run[<<w, p>>] \in {"load", "lock", "run"}}

light(w, p) == classesForPack(w, p) = {}

lightFree(w) == Cardinality({p \in admitted(w) : light(w, p)}) < MaxLight

classesFree(w, p) ==
    \A q \in admitted(w) : classesForPack(w, q) \cap classesForPack(w, p) = {}

(* A slot for p: a light lane, or all of its classes unused in this wave.  *)
ready(w, p) == IF light(w, p) THEN lightFree(w) ELSE classesFree(w, p)

(* Exclusive packs wait until the primary B10 is acknowledged.             *)
mustDefer(p) ==
    /\ p # B10 /\ p \notin Lean /\ resourceClasses[p] # {}
    /\ ~b10Acked

(* A declared dependency is neither kicked nor earlier in the list; each   *)
(* pack is put off for it once.                                            *)
dagDepUnmet(w, p) ==
    /\ p \notin wave[w].tried
    /\ \E d \in DependsOn[p] :
          d \notin kicked /\ \A j \in 1 .. wave[w].next - 1 : wave[w].list[j] # d

(* The orders in which a wave may try its packs: B10, the must-land silicon*)
(* packs by their priorities, the rest as shuffled.                        *)
kickOrders(l) ==
    LET rank(p) == IF p = B10 THEN 0 ELSE IF p \in MustLand THEN 1 ELSE 2
        sorted(f) == \A i, j \in DOMAIN l : i < j =>
                        /\ f[i] # f[j]
                        /\ rank(l[f[i]]) <= rank(l[f[j]])
                        /\ rank(l[f[i]]) = 2 => f[i] < f[j]
    IN {[i \in DOMAIN l |-> l[f[i]]] : f \in {f \in [DOMAIN l -> DOMAIN l] : sorted(f)}}

(* serial: the adaptive policy asks for one pack at a time.                *)
kickAll(w, l, serial) ==
    /\ pumping = None /\ ~halted
    /\ wave[w] = Unkicked /\ l # <<>>
    /\ \E o \in kickOrders(l) :
          wave' = [wave EXCEPT ![w] = [Unkicked EXCEPT !.list = o, !.serial = serial]]
    /\ run' = [o \in Runs |-> IF o[1] = w /\ \E i \in DOMAIN l : l[i] = o[2]
                              THEN "listed" ELSE run[o]]
    /\ pumping' = w
    /\ UNCHANGED <<nested, bus, kicked, env>>

(* The head gives its place to the first of the later packs in js; with    *)
(* none the pump returns.                                                  *)
pullAhead(w, js, rec) ==
    IF js = {}
    THEN wave' = [wave EXCEPT ![w] = rec] /\ pumping' = None
    ELSE \E j \in js : LET l == rec.list IN
            /\ \A k \in js : j <= k
            /\ wave' = [wave EXCEPT ![w] =
                  [rec EXCEPT !.list = [l EXCEPT ![rec.next] = l[j], ![j] = l[rec.next]],
                              !.timer = wave[w].timer]]
            /\ pumping' = w

later(w) == wave[w].next + 1 .. Len(wave[w].list)

PumpDep(w, p) ==
    /\ dagDepUnmet(w, p)
    /\ pullAhead(w, {j \in later(w) : LET q == wave[w].list[j]
                                      IN ~dagDepUnmet(w, q) /\ ready(w, q)},
                 [wave[w] EXCEPT !.tried = @ \cup {p}])
    /\ UNCHANGED run

PumpDefer(w, p) ==
    /\ ~dagDepUnmet(w, p) /\ ~light(w, p) /\ mustDefer(p)
    /\ pullAhead(w, {j \in later(w) : LET q == wave[w].list[j]
                                      IN ~mustDefer(q) /\ ready(w, q)},
                 wave[w])
    /\ UNCHANGED run

(* The head's classes are in use: only this case arms the re-pump timer.   *)
PumpBlocked(w, p) ==
    /\ ~dagDepUnmet(w, p) /\ ~light(w, p) /\ ~mustDefer(p) /\ ~classesFree(w, p)
    /\ pullAhead(w, {j \in later(w) : LET q == wave[w].list[j]
                                      IN /\ ready(w, q)
                                         /\ light(w, q) \/ (p # B10 /\ ~mustDefer(q))},
                 [wave[w] EXCEPT !.timer = TRUE])
    /\ UNCHANGED run

PumpAdmit_Mut(w, p) ==
    /\ ~dagDepUnmet(w, p) /\ ready(w, p) /\ (light(w, p) \/ ~mustDefer(p))
    /\ wave' = [wave EXCEPT ![w].next = @ + 2]
    /\ run' = [run EXCEPT ![<<w, p>>] = "load"]
    /\ UNCHANGED pumping

(* The pump starts the head and moves on.                                  *)
PumpAdmit(w, p) ==
    /\ ~dagDepUnmet(w, p) /\ ready(w, p) /\ (light(w, p) \/ ~mustDefer(p))
    /\ wave' = [wave EXCEPT ![w].next = @ + 1]
    /\ run' = [run EXCEPT ![<<w, p>>] = "load"]
    /\ UNCHANGED pumping

(* The list is done, or its head is light and the light lanes are full.    *)
PumpReturn(w) ==
    /\ \/ wave[w].next > Len(wave[w].list)
       \/ /\ wave[w].next <= Len(wave[w].list)
          /\ LET p == wave[w].list[wave[w].next]
             IN ~dagDepUnmet(w, p) /\ light(w, p) /\ ~lightFree(w)
    /\ pumping' = None
    /\ UNCHANGED <<wave, run>>

pump(w) ==
    /\ pumping = w
    /\ \/ PumpReturn(w)
       \/ /\ wave[w].next <= Len(wave[w].list)
          /\ LET p == wave[w].list[wave[w].next]
             IN PumpDep(w, p) \/ PumpDefer(w, p) \/ PumpBlocked(w, p) \/ PumpAdmit(w, p)
    /\ UNCHANGED <<nested, bus, kicked, env>>

PumpTimer(w) ==
    /\ pumping = None /\ wave[w].timer
    /\ wave' = [wave EXCEPT ![w].timer = FALSE]
    /\ pumping' = w
    /\ UNCHANGED <<run, nested, bus, kicked, env>>

----------------------------------------------------------------------------
(* The resource bus.                                                       *)

tryTake(b, c, o) ==
    IF b.holders[c] = None
    THEN [b EXCEPT !.holders[c] = o, !.depth[c] = 1, !.got[o] = @ \cup {c}]
    ELSE [b EXCEPT !.waiters[c] = Append(@, o)]

\* Mutant: a release leaves nestDepth as it is.
released_Mut(b, cs, queue, wakes) ==
    [b EXCEPT !.holders = [c \in Class |-> IF c \in cs THEN None ELSE @[c]],
              !.waiters = queue, !.wakes = wakes]

released(b, cs, queue, wakes) ==
    [b EXCEPT !.holders = [c \in Class |-> IF c \in cs THEN None ELSE @[c]],
              !.depth   = [c \in Class |-> IF c \in cs THEN 0 ELSE @[c]],
              !.waiters = queue, !.wakes = wakes]

releaseAll_Mut(b, cs) == released(b, cs, b.waiters, b.wakes)

(* releaseOne for every class in cs: whoever holds it loses it, and the    *)
(* first waiter is woken by a timer.                                       *)
releaseAll(b, cs) ==
    LET waited == {c \in cs : b.waiters[c] # <<>>}
    IN released(b, cs,
                [c \in Class |-> IF c \in waited THEN Tail(b.waiters[c]) ELSE b.waiters[c]],
                b.wakes \cup {<<c, Head(b.waiters[c])>> : c \in waited})

(* forceReleaseResource for every class in cs: all waiters try at once, so *)
(* the first one takes the class and the others queue up again.            *)
forceRelease(b, cs) ==
    LET waited == {c \in cs : b.waiters[c] # <<>>}
        r == released(b, cs,
                      [c \in Class |-> IF c \in waited THEN Tail(b.waiters[c]) ELSE b.waiters[c]],
                      b.wakes)
    IN [r EXCEPT !.holders = [c \in Class |-> IF c \in waited THEN Head(b.waiters[c]) ELSE @[c]],
                 !.depth   = [c \in Class |-> IF c \in waited THEN 1 ELSE @[c]],
                 !.got     = [o \in Runs |-> @[o] \cup
                                  {c \in waited : Head(b.waiters[c]) = o}]]

(* The end of a run: the bus as the run leaves it, and doneOne.            *)
afterRun(b, o) ==
    LET cs == classesForPack(o[1], o[2])
        l  == IF o \in nested
              THEN [b EXCEPT !.depth = [c \in Class |-> IF c \in cs THEN @[c] - 1 ELSE @[c]]]
              ELSE releaseAll(b, cs)
    IN [l EXCEPT !.got[o] = {}]

finish(o, b) ==
    /\ bus' = afterRun(b, o)
    /\ run' = [run EXCEPT ![o] = "done"]
    /\ nested' = nested \ {o}
    /\ pumping' = IF \A p \in Packs : run'[<<o[1], p>>] \in {"none", "done"}
                  THEN None ELSE o[1]
    /\ UNCHANGED <<wave, env>>

(* The script is loaded and withResourceLocks is called: without classes   *)
(* there is nothing to lock; when every class is held, by whichever run,   *)
(* the call counts as re-entrant.                                          *)
WithResourceLocks(o) ==
    /\ pumping = None /\ run[o] = "load"
    /\ run' = [run EXCEPT ![o] = "lock"]
    /\ LET cs == classesForPack(o[1], o[2])
       IN IF cs # {} /\ \A c \in cs : bus.depth[c] > 0
          THEN /\ bus' = [bus EXCEPT !.depth = [c \in Class |-> IF c \in cs THEN @[c] + 1 ELSE @[c]],
                                     !.got[o] = cs]
               /\ nested' = nested \cup {o}
          ELSE UNCHANGED <<bus, nested>>
    /\ UNCHANGED <<wave, kicked, pumping, env>>

missing(o) == classesForPack(o[1], o[2]) \ bus.got[o]

waiting(o) == \E c \in Class : <<c, o>> \in bus.wakes \/ \E i \in DOMAIN bus.waiters[c] : bus.waiters[c][i] = o

AcquireOne(o) ==
    /\ pumping = None /\ run[o] = "lock" /\ ~waiting(o)
    /\ \E i \in DOMAIN Classes :
          /\ Classes[i] \in missing(o)
          /\ \A j \in 1 .. i - 1 : Classes[j] \notin missing(o)
          /\ bus' = tryTake(bus, Classes[i], o)
    /\ UNCHANGED <<wave, run, nested, kicked, pumping, env>>

Wake(c, o) ==
    /\ pumping = None /\ <<c, o>> \in bus.wakes
    /\ bus' = tryTake([bus EXCEPT !.wakes = @ \ {<<c, o>>}], c, o)
    /\ UNCHANGED <<wave, run, nested, kicked, pumping, env>>

locked(o) == run[o] = "lock" /\ missing(o) = {}

(* execRun with its gates: halted; before B10, or GPU work of a tab whose  *)
(* peer holds the heavy role; a pack of any kind whose script did not      *)
(* define its run function.                                                *)
ExecSkip(o) ==
    /\ pumping = None /\ locked(o)
    /\ \/ halted /\ o[2] \notin DespiteHalt /\ UNCHANGED kicked
       \/ /\ ~halted \/ o[2] \in DespiteHalt
          /\ mustDefer(o[2]) \/ o[2] \in {B10} \cup MustLand
          /\ kicked' = kicked \ {o[2]}
       \/ /\ ~halted \/ o[2] \in DespiteHalt
          /\ ~mustDefer(o[2]) /\ UNCHANGED kicked
    /\ finish(o, bus)

ExecRun(o) ==
    /\ pumping = None /\ locked(o)
    /\ ~halted \/ o[2] \in DespiteHalt
    /\ ~mustDefer(o[2])
    /\ run' = [run EXCEPT ![o] = "run"]
    /\ UNCHANGED <<wave, nested, bus, kicked, pumping, env>>

(* The collector returns.  So does a run that a halt stops at the second   *)
(* test of the gates, just before its collector: it counts as run too.     *)
CollectOk(o) ==
    /\ pumping = None /\ run[o] = "run"
    /\ kicked' = kicked \cup {o[2]}
    /\ finish(o, bus)

CollectFail_Mut(o) ==
    /\ pumping = None /\ run[o] = "run"
    /\ kicked' = kicked \ {o[2]}
    /\ run' = [run EXCEPT ![o] = "done"]
    /\ UNCHANGED <<wave, nested, bus, pumping, env>>

(* The collector throws: the collect-fail event clears the mark.           *)
CollectFail(o) ==
    /\ pumping = None /\ run[o] = "run"
    /\ kicked' = kicked \ {o[2]}
    /\ finish(o, bus)

RunTimeout_Mut(o) ==
    /\ o[2] = B10 /\ pumping = None /\ run[o] = "run"
    /\ kicked' = kicked \cup {o[2]}
    /\ finish(o, forceRelease(bus, Forced))

(* The run's timer: three classes are freed whoever holds them, the pack   *)
(* counts as run.  Its collector may go on executing, unseen by the bus.   *)
RunTimeout(o) ==
    /\ pumping = None /\ run[o] = "run"
    /\ kicked' = kicked \cup {o[2]}
    /\ finish(o, forceRelease(bus, Forced))

----------------------------------------------------------------------------
(* What the rest of the page does to the loader.                           *)

(* primaryB10StillPending changes its answer: the registry's entry, the    *)
(* session outcome or a server hint says B10 has landed, whoever collected *)
(* it, or a recollected B10 is pending again.                              *)
SetAcked(v) ==
    /\ pumping = None /\ b10Acked # v
    /\ b10Acked' = v
    /\ IF v /\ B10 \in kicked THEN UNCHANGED events
       ELSE events < MaxEvents /\ events' = events + 1
    /\ UNCHANGED <<wave, run, nested, bus, kicked, halted, pumping>>

(* An identity halt, lifted again by the supervisor when it is thin.       *)
SetHalted(v) ==
    /\ pumping = None /\ halted # v /\ (v => events < MaxEvents)
    /\ halted' = v
    /\ events' = IF v THEN events + 1 ELSE events
    /\ UNCHANGED <<wave, run, nested, bus, kicked, b10Acked, pumping>>

(* The supervisor recovers from a stall or sees a stale run.               *)
StallRelease ==
    /\ pumping = None /\ events < MaxEvents
    /\ bus' = forceRelease(bus, Forced)
    /\ events' = events + 1
    /\ UNCHANGED <<wave, run, nested, kicked, b10Acked, halted, pumping>>

RunStep(o) ==
    \/ WithResourceLocks(o) \/ AcquireOne(o) \/ (\E c \in Class : Wake(c, o))
    \/ ExecSkip(o) \/ ExecRun(o)
    \/ CollectOk(o) \/ CollectFail(o) \/ RunTimeout(o)

Next ==
    \/ \E w \in Waves : \/ \E l \in Lists, s \in BOOLEAN : kickAll(w, l, s)
                        \/ pump(w) \/ PumpTimer(w)
    \/ \E o \in Runs : RunStep(o)
    \/ StallRelease \/ \E v \in BOOLEAN : SetAcked(v) \/ SetHalted(v)

Spec == Init /\ [][Next]_vars

(* What a run does next without help from outside: its script loads or     *)
(* fails, its promises settle, its timer fires.                            *)
Progress(o) ==
    \/ WithResourceLocks(o) \/ AcquireOne(o) \/ (\E c \in Class : Wake(c, o))
    \/ ExecSkip(o) \/ ExecRun(o) \/ RunTimeout(o)

(* The event loop does not stop while a callback of some run is due; a     *)
(* pump that polls every 120 ms may interrupt it again and again.  Which   *)
(* run is served is left open: each has finitely many steps.               *)
FairSpec ==
    /\ Spec
    /\ WF_vars(\E w \in Waves : pump(w) \/ PumpTimer(w))
    /\ SF_vars(\E o \in Runs : Progress(o))

----------------------------------------------------------------------------
(* Properties.                                                             *)

(* releaseOne and forceReleaseResource: runs that wait for a class are     *)
(* never forgotten.  Somebody holds the class and will pass it on, or a    *)
(* wake-up is on its way; also after forced releases and after a run has   *)
(* released a class that another one had taken.                            *)
NoLostWaiter ==
    \A c \in Class : bus.waiters[c] # <<>> =>
        bus.holders[c] # None \/ \E o \in Runs : <<c, o>> \in bus.wakes

(* withResourceLocks: a lock never outlives its run, whichever of success, *)
(* failure, skip, timeout and forced release ended it.  A leaked lock      *)
(* would stop every later pack of that class.                              *)
HolderAlive ==
    \A c \in Class : bus.holders[c] # None =>
        run[bus.holders[c]] \in {"lock", "run"} /\ bus.holders[c] \notin nested

(* withResourceLocks takes a request for re-entrant by nestDepth alone, a  *)
(* counter that nested runs lower, releases reset and holders set without  *)
(* knowing of each other: it is positive only while somebody holds the     *)
(* class, so nobody enters a free class by the re-entrant path, where it   *)
(* would run without a lock and without waking the waiters.                *)
NestedMeansHeld ==
    \A c \in Class : bus.depth[c] > 0 => bus.holders[c] # None

(* The bus queues and the timers bound a run: every pack a pump has        *)
(* admitted ends, hung collectors and forced releases included.            *)
Busy == \E w \in Waves : admitted(w) # {}
RunsEnd == Busy ~> ~Busy

(* Doc (getBus): per-class exclusive lock shared by all surfaces of the    *)
(* page, so two collectors of one class are not in progress at once.       *)
BusExclusive ==
    \A o1, o2 \in Runs :
        o1 # o2 /\ run[o1] = "run" /\ run[o2] = "run"
            => classesForPack(o1[1], o1[2]) \cap classesForPack(o2[1], o2[2]) = {}

=============================================================================
