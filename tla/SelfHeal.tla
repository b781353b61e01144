------------------------------ MODULE SelfHeal ------------------------------
(***************************************************************************)
(* The self-heal supervisor of the browser probe                           *)
(* (probe/fe/probe_self_heal.js): a table of gaps, one per wanted batch,   *)
(* and a tick that drives each of them to "the server has it" by nudging   *)
(* the upload (loop T), collecting again (loop C) and asking the brain     *)
(* (loop B).                                                               *)
(*                                                                         *)
(* A tick is one callback; here it is a step per gap, in order of          *)
(* priority, and while `ticking` nothing else moves.  Around it: collectors*)
(* that succeed, fail, return nothing, hang, are deferred and come back    *)
(* late; uploads that are acknowledged, answered without a proof or given  *)
(* up; polls answered late, and answers that claim too much; the tab's role*)
(* and the page's final state.  The page is seen from one tab with one     *)
(* session.                                                                *)
(*                                                                         *)
(* The supervisor takes a batch for running while the loader's health row  *)
(* is young: kick: "started" is never taken back, so a run that has ended  *)
(* counts as running until the row is stale.                               *)
(*                                                                         *)
(* Durations are counted in units: a health row is stale at 2; a kick is   *)
(* young (1), then past the soft stall (2) and the hard timeout (3); after *)
(* a collect the minimal gap (1) and the watchdog (2) pass.  An unbounded  *)
(* delay of the tick is any number of Elapse steps in a row.               *)
(***************************************************************************)
EXTENDS Naturals, FiniteSets

CONSTANTS
    Batches,        \* batch ids of the table
    B10,            \* the primary residual
    Hard,           \* hard anchors, B10 among them
    Missing,        \* the batches that open named as missing
    Deepen,         \* B10x and the other deepening packs; the rest is soft
    MethodCount,    \* batch -> number of probe methods in the matrix
    CollectMax,     \* batch -> collectMax
    Quiet,          \* deepen_circuit_quiet_ms, in units
    Renew,          \* the 15 s of recovery mode, in units
    MaxRuns,        \* bound on the runs of a batch that are counted
    MaxPolls,       \* bound on polls
    MaxFaults       \* bound on given up uploads and changes of the page

VARIABLES
    gap,        \* the table: a record per batch
    kicked,     \* pack loader: marked as run
    runs,       \* runs of the batch that the loader waits for
    late,       \* collectors that were given up and still execute
    pending,    \* upload queue: owns a capture
    stuck,      \* its registry says retry_wait, and nothing is queued
    acked,      \* upload queue: acknowledged
    received,   \* __GR_RECEIVED_BATCHES__, the page's own list
    stored,     \* what the server really has
    age,        \* of the health row
    elapsed,    \* since run_started_ms; 0: not set
    since,      \* since the last collect
    stalls, pause, recovery, debounce,      \* adaptive
    policyFresh,                            \* the policy was applied just now
    ticking, todo,                          \* the tick on the stack
    polls, inflight,                        \* loop B: sent, and not answered
    heavy, cool, faults

tickVars == <<ticking, todo>>
adaptive == <<stalls, pause, recovery, debounce, policyFresh>>
loader   == <<kicked, runs, late, age, elapsed, since>>
upload   == <<pending, stuck, acked, received, stored>>
brain    == <<polls, inflight>>
page     == <<heavy, cool, faults>>
vars == <<gap, tickVars, adaptive, loader, upload, brain, page>>

(* No collector of the tree reports "unsupported".                         *)
Terminals == {"no", "skipped_method", "degrade"}

Gap == [known : BOOLEAN, seen : BOOLEAN, landed : BOOLEAN,
        attempts : Nat, method : Nat, terminal : Terminals,
        softDone : BOOLEAN]

ASSUME ConstAssumption ==
    /\ B10 \in Hard /\ Hard \subseteq Batches /\ Deepen \subseteq Batches \ Hard
    /\ Missing \subseteq Batches
    /\ MethodCount \in [Batches -> Nat \ {0}] /\ MethodCount[B10] > 2
    /\ CollectMax \in [Batches -> Nat \ {0}]
    /\ Renew \in 1 .. Quiet /\ Quiet \in Nat
    /\ MaxRuns \in Nat \ {0} /\ MaxPolls \in Nat /\ MaxFaults \in Nat

TypeOK ==
    /\ gap \in [Batches -> Gap]
    /\ \A b \in Batches : /\ gap[b].attempts <= MethodCount[b] + 1
                          /\ gap[b].method <= MethodCount[b]
    /\ kicked \subseteq Batches /\ late \subseteq Batches /\ todo \subseteq Batches
    /\ runs \in [Batches -> 0 .. MaxRuns]
    /\ pending \subseteq Batches /\ stuck \subseteq Batches /\ acked \subseteq Batches
    /\ received \subseteq Batches /\ stored \subseteq Batches
    /\ age \in [Batches -> 0 .. 2] /\ elapsed \in [Batches -> 0 .. 3]
    /\ since \in [Batches -> 0 .. 2]
    /\ stalls \in 0 .. 2 /\ pause \in 0 .. Quiet
    /\ recovery \in BOOLEAN /\ debounce \in BOOLEAN /\ policyFresh \in BOOLEAN
    /\ ticking \in BOOLEAN /\ heavy \in BOOLEAN /\ cool \in BOOLEAN
    /\ polls \in 0 .. MaxPolls /\ inflight \in 0 .. polls /\ faults \in 0 .. MaxFaults
    /\ pending \cap (acked \cup stuck) = {} /\ acked \subseteq received

(* start(): a forced identity begins in recovery.                          *)
Init ==
    /\ heavy \in BOOLEAN
    /\ gap = [b \in Batches |->
                [known |-> b \in Missing \cup {B10}, seen |-> FALSE, landed |-> FALSE,
                 attempts |-> 0, method |-> 0, terminal |-> "no",
                 softDone |-> FALSE]]
    /\ kicked = {} /\ runs = [b \in Batches |-> 0] /\ late = {}
    /\ pending = {} /\ stuck = {} /\ acked = {} /\ received = {} /\ stored = {}
    /\ age = [b \in Batches |-> 2] /\ since = [b \in Batches |-> 2]
    /\ elapsed = [b \in Batches |-> 0]
    /\ stalls \in {0, 2} /\ recovery = (stalls = 2)
    /\ pause = IF stalls = 2 THEN Renew ELSE IF heavy THEN 0 ELSE 1
    /\ debounce = FALSE /\ policyFresh = TRUE
    /\ ticking = FALSE /\ todo = {}
    /\ polls = 0 /\ inflight = 0
    /\ cool = FALSE /\ faults = 0

----------------------------------------------------------------------------
(* Policy and predicates.                                                  *)

max(a, b) == IF a > b THEN a ELSE b

isSatisfied_Mut(b) == gap[b].seen \/ b \in acked \/ b \in received \/ b \in kicked

(* An analysis listed the batch, the upload has its ACK, or the page's own *)
(* list has the batch.                                                     *)
isSatisfied(b) == gap[b].seen \/ b \in acked \/ b \in received

(* applyAdaptivePolicy, from stalls s and pause p.  Recovery renews the    *)
(* pause that it is entered by; a light tab pauses deepening as well.      *)
applyAdaptivePolicy(s, p) ==
    LET rec == s >= 2 \/ p > 0
        q   == IF rec THEN max(p, Renew) ELSE p
    IN /\ recovery' = rec
       /\ pause' = IF heavy THEN q ELSE max(q, 1)
       /\ policyFresh' = TRUE

(* Hard batches are for the heavy tab; a pause or, for deepening packs, a  *)
(* missing B10 holds back the others.                                      *)
shouldSkipCollect(b) ==
    IF b \in Hard THEN ~heavy
    ELSE pause > 0 \/ (b \in Deepen /\ (~isSatisfied(B10) \/ ~heavy))

(* The matrix ends in a degraded method for B10 and in an honest skip for  *)
(* the others.                                                             *)
isLast(b, m) == m = MethodCount[b]
honestSkip(b, m) == b # B10 /\ isLast(b, m)
degrade(b, m)    == b = B10 /\ isLast(b, m)

shouldKick_Mut(b, g) ==
    /\ ~honestSkip(b, g.method)
    /\ degrade(b, g.method) /\ g.attempts > 0 => g.attempts <= 1

(* GRProbeMethodMatrix.shouldKick: one collect by the degraded method, and *)
(* one more than there are methods.                                        *)
shouldKick(b, g) ==
    /\ ~honestSkip(b, g.method)
    /\ degrade(b, g.method) /\ g.attempts > 0 => g.attempts <= 1
    /\ g.attempts < MethodCount[b] + 1

(* kickCollect's refusals up to the budget, and the ones after it.         *)
kickable(b, g) ==
    /\ ~cool /\ ~shouldSkipCollect(b)
    /\ g.terminal # "skipped_method"
    /\ shouldKick(b, g)
exhausted(b, g) == g.attempts >= CollectMax[b]
spaced(b, g) == (g.attempts = 0 \/ since[b] >= 1) /\ b \notin pending \cup acked

willKick(b, g) == kickable(b, g) /\ ~exhausted(b, g) /\ spaced(b, g)

(* kickAll: a run of the same batch that is still on its way is not        *)
(* cancelled.                                                              *)
starts(S) ==
    /\ runs' = [b \in Batches |-> IF b \in S /\ runs[b] < MaxRuns THEN runs[b] + 1 ELSE runs[b]]
    /\ age' = [b \in Batches |-> IF b \in S THEN 0 ELSE age[b]]
    /\ UNCHANGED late

kickCollect(b, g) ==
    /\ gap' = [gap EXCEPT ![b] = [g EXCEPT !.attempts = @ + 1, !.softDone = FALSE]]
    /\ kicked' = kicked \ {b}
    /\ starts({b})
    /\ elapsed' = [elapsed EXCEPT ![b] = 1]
    /\ since' = [since EXCEPT ![b] = 0]

isRunning(b) == age[b] < 2

(* The registry or the queue has material: loop C leaves the batch to      *)
(* loop T, which can nudge only what is queued.                            *)
owned(b) == b \in pending \cup stuck

----------------------------------------------------------------------------
(* The tick.                                                               *)

TickStart ==
    /\ ~ticking
    /\ ticking' = TRUE
    /\ todo' = {b \in Batches : gap[b].known}
    /\ IF policyFresh THEN UNCHANGED <<recovery, pause, policyFresh>>
                      ELSE applyAdaptivePolicy(stalls, pause)
    /\ UNCHANGED <<gap, stalls, debounce, loader, upload, brain, page>>

priority(b) == IF b = B10 THEN 2 ELSE IF b \in Hard THEN 1 ELSE 0

nextGap(b) == ticking /\ b \in todo /\ \A c \in todo : priority(c) <= priority(b)

tookGap(b) == todo' = todo \ {b} /\ UNCHANGED ticking

(* A gap seen satisfied for the first time; B10 ends the deepen pause.     *)
GapSatisfied(b) ==
    /\ nextGap(b) /\ isSatisfied(b)
    /\ gap' = [gap EXCEPT ![b].landed = TRUE]
    /\ IF b = B10 /\ ~gap[b].landed /\ pause > 0
       THEN applyAdaptivePolicy(stalls, 0)
       ELSE UNCHANGED <<recovery, pause, policyFresh>>
    /\ tookGap(b)
    /\ UNCHANGED <<stalls, debounce, loader, upload, brain, page>>

(* refreshLocalPhase starts the clock of a run it did not kick.            *)
refreshLocalPhase(b) ==
    elapsed' = [elapsed EXCEPT ![b] = IF ~owned(b) /\ isRunning(b) /\ @ = 0 THEN 1 ELSE @]

held(b) == recovery /\ ~isSatisfied(B10) /\ b \notin Hard

(* Nothing to collect: recovery serves hard anchors only.                  *)
GapHeld(b) ==
    /\ nextGap(b) /\ ~isSatisfied(b) /\ ~cool /\ held(b)
    /\ tookGap(b)
    /\ UNCHANGED <<gap, adaptive, loader, upload, brain, page>>

(* Nor when the page is cool, the upload has material, or the run is young *)
(* or was found stalled before.                                            *)
GapLeft(b) ==
    /\ nextGap(b) /\ ~isSatisfied(b) /\ (cool \/ ~held(b))
    /\ \/ cool \/ owned(b)
       \/ /\ isRunning(b)
          /\ IF gap[b].softDone THEN elapsed[b] < 3 ELSE elapsed[b] < 2
    /\ refreshLocalPhase(b)
    /\ tookGap(b)
    /\ UNCHANGED <<gap, adaptive, kicked, runs, late, age, since, upload, brain, page>>

served(b) == nextGap(b) /\ ~isSatisfied(b) /\ ~cool /\ ~held(b) /\ ~owned(b)

recovered ==
    /\ stalls' = IF stalls < 2 THEN stalls + 1 ELSE 2
    /\ debounce' = TRUE

(* The circuit: from the second recovery on deepening is paused.           *)
trips == applyAdaptivePolicy(stalls', IF stalls' >= 2 THEN Quiet ELSE pause)

(* recoverFromStall of a row, with the caller's changes of mark and clock: *)
(* nothing just after another recovery; otherwise the next method of the   *)
(* matrix, which ends the batch, is tried again at once (hard batches), or *)
(* waits.                                                                  *)
recoverFromStall(b, row, mark, clock) ==
    LET m == IF row.method < MethodCount[b] THEN row.method + 1 ELSE MethodCount[b]
        g == [row EXCEPT !.method = m]
    IN \/ /\ debounce
          /\ gap' = [gap EXCEPT ![b] = row]
          /\ kicked' = mark /\ elapsed' = [elapsed EXCEPT ![b] = clock]
          /\ UNCHANGED <<adaptive, runs, late, age, since>>
       \/ /\ ~debounce /\ isLast(b, m)
          /\ gap' = [gap EXCEPT ![b] = [g EXCEPT !.terminal =
                         IF b = B10 THEN "degrade" ELSE "skipped_method"]]
          /\ recovered
          /\ pause' = IF b \in Hard THEN pause ELSE Quiet
          /\ kicked' = mark /\ elapsed' = [elapsed EXCEPT ![b] = clock]
          /\ UNCHANGED <<recovery, policyFresh, runs, late, age, since>>
       \/ /\ ~debounce /\ ~isLast(b, m) /\ b \in Hard /\ willKick(b, g)
          /\ recovered /\ trips
          /\ kickCollect(b, g)
       \/ /\ ~debounce /\ ~isLast(b, m) /\ ~(b \in Hard /\ willKick(b, g))
          /\ recovered /\ trips
          /\ gap' = [gap EXCEPT ![b] = g]
          /\ kicked' = kicked \ {b} /\ elapsed' = [elapsed EXCEPT ![b] = 0]
          /\ UNCHANGED <<runs, late, age, since>>

(* A soft stall, once per run: hard batches recover.                       *)
SoftStall(b) ==
    /\ served(b) /\ isRunning(b) /\ elapsed[b] >= 2 /\ ~gap[b].softDone
    /\ \/ /\ b \in Hard
          /\ recoverFromStall(b, [gap[b] EXCEPT !.softDone = TRUE], kicked, elapsed[b])
       \/ /\ b \notin Hard
          /\ gap' = [gap EXCEPT ![b].softDone = TRUE]
          /\ UNCHANGED <<adaptive, loader>>
    /\ tookGap(b)
    /\ UNCHANGED <<upload, brain, page>>

(* A run whose row is still written after the hard timeout.                *)
HardTimeout(b) ==
    /\ served(b) /\ isRunning(b) /\ elapsed[b] = 3 /\ gap[b].softDone
    /\ recoverFromStall(b, [gap[b] EXCEPT !.softDone = FALSE], kicked \ {b}, 0)
    /\ tookGap(b)
    /\ UNCHANGED <<upload, brain, page>>

due_Mut(b) == b \notin kicked /\ (gap[b].attempts = 0 \/ since[b] = 2)

(* A run without a result counts as an orphan and is collected again at    *)
(* once, a missing one after the watchdog.                                 *)
due(b) == b \in kicked \/ gap[b].attempts = 0 \/ since[b] = 2

(* Loop C for a batch that neither the queue owns nor a run.               *)
LoopC(b) ==
    /\ served(b) /\ ~isRunning(b)
    /\ \/ /\ due(b) /\ willKick(b, gap[b])
          /\ kickCollect(b, gap[b])
          /\ UNCHANGED adaptive
       \/ /\ ~(due(b) /\ willKick(b, gap[b]))
          /\ pause' = IF due(b) /\ kickable(b, gap[b]) /\ exhausted(b, gap[b]) /\ b \notin Hard
                      THEN Quiet ELSE pause
          /\ UNCHANGED <<gap, loader, stalls, recovery, debounce, policyFresh>>
    /\ tookGap(b)
    /\ UNCHANGED <<upload, brain, page>>

(* The end of a tick: loop B, not in recovery without B10, polls.  Its     *)
(* spacing and its budget of plans lie beyond MaxPolls; polls that overlap *)
(* are answered in any order.                                              *)
TickEnd ==
    /\ ticking /\ todo = {}
    /\ ticking' = FALSE
    /\ IF ~(recovery /\ ~isSatisfied(B10)) /\ ~cool /\ polls < MaxPolls
       THEN polls' = polls + 1 /\ inflight' = inflight + 1
       ELSE UNCHANGED brain
    /\ UNCHANGED <<gap, todo, adaptive, loader, upload, page>>

----------------------------------------------------------------------------
(* Loop B.                                                                 *)

PollFails ==
    /\ ~ticking /\ inflight > 0
    /\ inflight' = inflight - 1
    /\ UNCHANGED <<gap, tickVars, adaptive, loader, upload, polls, page>>

(* What an answer may list: something stored, and B10 also for a server    *)
(* that takes another pack of the family for it (the false has_b10).       *)
claimable == stored \cup {b \in {B10} : stored \cap Deepen # {}}

(* A forced recollect forgets the server's copy, unless this very answer   *)
(* lists it.                                                               *)
merged(b, rec, packs, forced) ==
    [gap[b] EXCEPT !.known = @ \/ b \in rec \cup packs,
                   !.seen = b \in rec \/ (@ /\ b \notin forced)]

(* applyRoutePlan starts what is forced, not acknowledged, or not marked.  *)
(* The loader's gates come later, see CollectFail.                         *)
planRuns(packs, forced) == {b \in packs : b \in forced \/ b \notin acked \/ b \notin kicked}

(* An answer with the server's view rec (it may be behind) and a plan.  A  *)
(* forced recollect takes no acknowledgement back: allowForceRecollect has *)
(* spent the batch's only allowance when clearSentKeys asks for it.  Once  *)
(* it is spent the loader refuses; the allowance itself is not counted.    *)
PollAnswer(rec, packs, forced) ==
    /\ ~ticking /\ inflight > 0
    /\ inflight' = inflight - 1
    /\ gap' = [b \in Batches |-> merged(b, rec, packs, forced)]
    /\ LET satisfied(b) == gap'[b].seen \/ b \in acked \/ b \in received
           apply == ~cool /\ \E b \in packs : ~satisfied(b) \/ b \in forced
       IN \/ /\ apply
             /\ \E refused \in SUBSET (forced \cap acked) :
                   /\ starts(planRuns(packs, forced \ refused))
                   /\ kicked' = kicked \ (forced \ refused)
          \/ /\ ~apply
             /\ UNCHANGED <<kicked, runs, late, age>>
    /\ UNCHANGED <<tickVars, adaptive, elapsed, since, upload, polls, page>>

----------------------------------------------------------------------------
(* Collectors, uploads, time and the page.                                 *)

(* A new capture is the registry's latest state.                           *)
capture(b) ==
    /\ pending' = IF b \in acked THEN pending ELSE pending \cup {b}
    /\ stuck' = IF b \in acked THEN stuck ELSE stuck \ {b}

ends(b) ==
    /\ ~ticking /\ runs[b] > 0
    /\ runs' = [runs EXCEPT ![b] = @ - 1]
    /\ age' = [age EXCEPT ![b] = 0]
    /\ UNCHANGED <<gap, tickVars, adaptive, elapsed, since, brain, page>>

CollectOk(b) ==
    /\ ends(b)
    /\ kicked' = kicked \cup {b}
    /\ capture(b)
    /\ UNCHANGED <<late, acked, received, stored>>

(* Nothing was enqueued, or the loader's timer gave the run up.            *)
CollectEmpty(b, hung) ==
    /\ ends(b)
    /\ kicked' = kicked \cup {b}
    /\ late' = IF hung THEN late \cup {b} ELSE late
    /\ UNCHANGED upload

(* The collector failed, or execRun's gates deferred the run: deepening    *)
(* packs while the loader has no ACK of B10, and both while another tab    *)
(* leads (PackLoader and TabLease have the gates).                         *)
CollectFail(b) ==
    /\ ends(b)
    /\ kicked' = kicked \ {b}
    /\ UNCHANGED <<late, upload>>

LateCapture(b) ==
    /\ ~ticking /\ b \in late
    /\ late' = late \ {b}
    /\ capture(b)
    /\ UNCHANGED <<gap, tickVars, adaptive, kicked, runs, age, elapsed, since,
                   acked, received, stored, brain, page>>

leaves(b, arrived) ==
    /\ ~ticking /\ b \in pending
    /\ pending' = pending \ {b}
    /\ stored' = IF arrived THEN stored \cup {b} ELSE stored
    /\ UNCHANGED <<gap, tickVars, adaptive, loader, brain, page>>

(* Acknowledged; applyAck also verifies answers that prove no storage.     *)
Land(b, arrived) ==
    /\ leaves(b, arrived)
    /\ acked' = acked \cup {b} /\ received' = received \cup {b}
    /\ UNCHANGED stuck

(* An answer without a proof, a conflict, or a beacon the browser took.    *)
Unverified(b, arrived) ==
    /\ leaves(b, arrived)
    /\ received' = received \cup {b}
    /\ UNCHANGED <<stuck, acked>>

(* The attempts are used up: nothing is queued again and the registry keeps*)
(* "retry_wait".  The last payload may have arrived.                       *)
UploadLost(b, arrived) ==
    /\ ~ticking /\ b \in pending /\ faults < MaxFaults
    /\ pending' = pending \ {b} /\ stuck' = stuck \cup {b} /\ faults' = faults + 1
    /\ stored' = IF arrived THEN stored \cup {b} ELSE stored
    /\ UNCHANGED <<gap, tickVars, adaptive, loader, acked, received, brain, heavy, cool>>

Elapse ==
    /\ ~ticking
    /\ age' = [b \in Batches |-> IF age[b] < 2 THEN age[b] + 1 ELSE 2]
    /\ elapsed' = [b \in Batches |-> IF elapsed[b] \in {1, 2} THEN elapsed[b] + 1 ELSE elapsed[b]]
    /\ since' = [b \in Batches |-> IF since[b] < 2 THEN since[b] + 1 ELSE 2]
    /\ pause' = IF pause > 0 THEN pause - 1 ELSE 0
    /\ debounce' = FALSE /\ policyFresh' = FALSE
    /\ UNCHANGED <<gap, tickVars, stalls, recovery, kicked, runs, late, upload, brain, page>>

RoleChange ==
    /\ ~ticking /\ faults < MaxFaults
    /\ heavy' = ~heavy /\ faults' = faults + 1
    /\ UNCHANGED <<gap, tickVars, adaptive, loader, upload, brain, cool>>

Cool ==
    /\ ~ticking /\ ~cool /\ faults < MaxFaults
    /\ cool' = TRUE /\ faults' = faults + 1
    /\ UNCHANGED <<gap, tickVars, adaptive, loader, upload, brain, heavy>>

GapStep(b) ==
    \/ GapSatisfied(b) \/ GapHeld(b) \/ GapLeft(b)
    \/ SoftStall(b) \/ HardTimeout(b) \/ LoopC(b)

UploadStep(b, arrived) == Land(b, arrived) \/ Unverified(b, arrived)

Next ==
    \/ TickStart \/ TickEnd \/ PollFails \/ Elapse \/ RoleChange \/ Cool
    \/ \E b \in Batches : \/ GapStep(b)
                          \/ CollectOk(b) \/ CollectFail(b) \/ LateCapture(b)
                          \/ \E v \in BOOLEAN :
                                CollectEmpty(b, v) \/ UploadStep(b, v) \/ UploadLost(b, v)
    \/ \E rec \in SUBSET claimable, packs \in SUBSET Batches :
          \E forced \in SUBSET packs : PollAnswer(rec, packs, forced)

Spec == Init /\ [][Next]_vars

(* Timers fire (the tick's and the loader's run timeout), time passes, and *)
(* an upload that is retried without an end is answered.                   *)
FairSpec ==
    /\ Spec
    /\ WF_vars(TickStart \/ TickEnd \/ \E b \in Batches : GapStep(b))
    /\ SF_vars(Elapse)
    /\ \A b \in Batches : /\ SF_vars(CollectEmpty(b, TRUE))
                          /\ SF_vars(\E v \in BOOLEAN : UploadStep(b, v))

----------------------------------------------------------------------------
(* Properties.                                                             *)

(* Header: "material acked OR server received - NEVER only kicked".  What  *)
(* the table calls landed was taken by an answer or by the browser, or it  *)
(* arrived in an upload given up, or an answer mistook another pack for    *)
(* B10; a collect alone, a late or outdated answer or a forced recollect   *)
(* never suffices.                                                         *)
NeverOnlyKicked ==
    \A b \in Batches : gap[b].landed =>
        b \in received \cup stored \/ (b = B10 /\ stored \cap Deepen # {})

givenUp(b) ==
    \/ gap[b].terminal # "no"
    \/ ~shouldKick(b, gap[b])
    \/ exhausted(b, gap[b])

(* The supervisor's purpose: on a heavy tab B10 lands, its methods are used*)
(* up or its upload was given up, whatever hangs, returns nothing or comes *)
(* late.                                                                   *)
B10Settles == <>[](isSatisfied(B10) \/ givenUp(B10) \/ B10 \in stuck \/ ~heavy \/ cool)

(* Comment (tickOnce): "Primary B10 landed - clear deepen pause if any."   *)
(* The pause after B10 has landed comes to an end.                         *)
PauseEnds == (gap[B10].landed /\ heavy) ~> (pause = 0 \/ ~heavy)

=============================================================================
