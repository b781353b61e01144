----------------------------- MODULE UploadQueue -----------------------------
(***************************************************************************)
(* The upload queue of the browser probe (src/probe/fe/upload_queue.js),   *)
(* with the quiet windows it asks probe_lifecycle.js about and the two     *)
(* callers in gr.boot.js that change its session (the adoption of the      *)
(* server's cycle id) or correct its halt (reconcileProbeStatus).          *)
(*                                                                         *)
(* One page is single threaded: a handler runs to its end.  Handlers end   *)
(* in pump(), whose loop is unrolled into micro steps: while pc # "idle"   *)
(* nothing else is enabled, so no other handler runs inside a pump.  The   *)
(* real concurrency is between handlers: uploads in flight, retry timers,  *)
(* the unload of the page, halts and session changes.                      *)
(*                                                                         *)
(* Abstractions.  Priorities only order the queue, and callers choose      *)
(* them, so pump takes any pending capture.  The adaptive concurrency cap  *)
(* (AIMD, life cycle, pressure) is any value 1..ConcurrencyMax each time.  *)
(* The source is always "main", so a key is <<session, batch>>.  Counters  *)
(* kept for reports, the registry and the payloads are left out.           *)
(***************************************************************************)
EXTENDS Naturals, Sequences, FiniteSets, UploadVerdict

CONSTANTS
    Batches,         \* batch ids in use, by the code's own names
    Sessions,        \* cycle ids
    Replies,         \* the answers the server gives in this instance
    NoSession,       \* haltState = null
    MaxAttempts,     \* maxAttemptsForItem, per batch
    SealCap,         \* attempts allowed while the seal grant is missing
    SealWaitMax,     \* 16 in the code
    ConcurrencyMax,  \* cfg.concurrency_max
    HeavyMax,        \* POLICY.heavy_max_inflight, 1 unless the server's policy sets it
    RowCap,          \* rows pruneStaleInflight keeps: twice ConcurrencyMax in the code
    MaxCaptures,     \* bound: captures the collectors hand in
    MaxFaults,       \* bound: failed uploads
    MaxEvents        \* bound: session changes, halts, page events

B10 == "B10_hw_curves"
SiliconMust == {"B10x_silicon_ulp", "B10x_silicon_noderiv", "B10x_silicon_rint"}
SiliconDeep == "B10x_silicon_deep"
B10xBatches == SiliconMust \cup {SiliconDeep}
SecondaryInfra == {"B47_sab_clock", "B18_webgpu", "B46_audio_deep", SiliconDeep}
HardList == {B10, "B0_bootstrap", "B2_hardware", "B3_system", "B1_conflict",
             "B12_anti_camouflage", "B8_gateway", "B8_gateway_early"}
isDeepenBatch(b) == b \in B10xBatches \cup {"B15_cross_curves"}
isHardBatch(b) == b \in HardList \cup {"B7_sandbox"}
isHeavyBatch(b) == isDeepenBatch(b) \/ b \in {"B7_sandbox", B10, "B18_webgpu",
                       "B46_audio_deep", "B47_sab_clock", "B22_gpu_timer"}
isRpaBatch(b) == b = "B11_interaction"

ASSUME UploadAssumption ==
    /\ Replies \subseteq Reply
    /\ NoSession \notin Sessions
    /\ MaxAttempts \in [Batches -> Nat \ {0}]
    /\ SealCap \in Nat \ {0} /\ SealWaitMax \in Nat
    /\ ConcurrencyMax \in Nat \ {0} /\ HeavyMax \in Nat \ {0}
    /\ RowCap \in Nat \ {0} /\ MaxCaptures \in Nat
    /\ MaxFaults \in Nat /\ MaxEvents \in Nat

VARIABLES
    session,        \* cfg.session_id (and __GR_SESSION_ID__)
    captures,       \* items handed in so far; an item's number is its capture_id
    pending,        \* pending[]
    retry,          \* items behind a scheduleRetry timer
    wire,           \* items whose postOne promise is not settled
    sealing,        \* those of wire still preparing the sealed body
    aborted,        \* those of wire whose AbortController fired
    inflightItems, inflight, heavyInflight,
    attempts,       \* attempts[key]
    sentKeys,       \* sentKeys: keys with a verified ack
    batchesOk, batchesStarted,   \* sessionOutcome, by batch id only
    recollectUsed,  \* forceRecollectUsed
    haltState,      \* session of haltState, or NoSession
    flags,          \* __GR_HALT_UPLOADS__, __GR_CYCLE_CLOSED__, __GR_STOP_PROBE__
    page,           \* hiding (queue) and unloading (__GR_PAGE_UNLOADING__)
    quiet,          \* quiet windows of probe_lifecycle.js
    wake,           \* applyHalt's setTimeout(pump, 0) is armed
    pc, conc,       \* where the running handler is; pump's cap
    after,          \* <<answer, session, batch>> of a success handler in boostPendingB10x
    received,       \* batches in __GR_RECEIVED_BATCHES__
    faults, events

queueVars   == <<captures, pending, retry>>
wireVars    == <<wire, sealing, aborted, inflightItems, inflight, heavyInflight>>
ledgerVars  == <<attempts, sentKeys, batchesOk, batchesStarted, recollectUsed>>
haltVars    == <<haltState, flags, wake>>
pageVars    == <<page, quiet>>
pumpVars    == <<pc, conc, after>>
boundVars   == <<faults, events>>
vars == <<session, queueVars, wireVars, ledgerVars, haltVars, pageVars,
          pumpVars, received, boundVars>>

Keys == Sessions \X Batches
Item == [b : Batches, s : Sessions, g : Nat, start : BOOLEAN, k : Keys,
         deferred : BOOLEAN, waits : Nat]

keyOf(c) == <<captures[c].s, captures[c].b>>
batchOf(c) == captures[c].b

(* A capture waits in the queue, waits behind a timer, or is on the wire.  *)
OnePlace == pending \cap wire = {} /\ retry \cap wire = {} /\ pending \cap retry = {}

TypeOK ==
    /\ session \in Sessions
    /\ captures \in Seq(Item) /\ Len(captures) <= MaxCaptures
    /\ \A S \in {pending, retry, wire, inflightItems} : S \subseteq DOMAIN captures
    /\ sealing \subseteq wire /\ aborted \subseteq wire
    /\ OnePlace
    /\ inflight \in Nat /\ heavyInflight \in Nat
    /\ attempts \in [Keys -> Nat]
    /\ sentKeys \subseteq Keys
    /\ batchesOk \subseteq Batches /\ batchesStarted \subseteq Batches
    /\ recollectUsed \subseteq Batches /\ received \subseteq Batches
    /\ haltState \in Sessions \cup {NoSession}
    /\ flags \in [halt : BOOLEAN, closed : BOOLEAN, stop : BOOLEAN]
    /\ page \in [hiding : BOOLEAN, unloading : BOOLEAN]
    /\ quiet \subseteq {"soft", "deepen", "rpa"}
    /\ wake \in BOOLEAN
    /\ pc \in {"idle", "pump", "loop", "finish"}
    /\ conc \in 0..ConcurrencyMax
    /\ after \in {<<>>} \cup (Replies \X Sessions \X Batches)
    /\ faults \in 0..MaxFaults /\ events \in 0..MaxEvents

(* gr.micro.js stops probing before the queue exists when the page is still*)
(* in the cool time of an earlier visit.                                   *)
Init ==
    /\ session \in Sessions
    /\ captures = <<>> /\ pending = {} /\ retry = {}
    /\ wire = {} /\ sealing = {} /\ aborted = {}
    /\ inflightItems = {} /\ inflight = 0 /\ heavyInflight = 0
    /\ attempts = [k \in Keys |-> 0]
    /\ sentKeys = {} /\ batchesOk = {} /\ batchesStarted = {} /\ recollectUsed = {}
    /\ haltState = NoSession
    /\ \E cool \in BOOLEAN : flags = [halt |-> cool, closed |-> FALSE, stop |-> cool]
    /\ page = [hiding |-> FALSE, unloading |-> FALSE]
    /\ quiet = {} /\ wake = FALSE
    /\ pc = "idle" /\ conc = 0 /\ after = <<>>
    /\ received = {} /\ faults = 0 /\ events = 0

-----------------------------------------------------------------------------
(* Predicates of the code                                                  *)

(* The item flags force_after_halt and allow_during_stop exempt an item    *)
(* too; enqueue and the collectors set them for these packs and no others. *)
allowDespiteHalt(b) == b \in B10xBatches \cup SecondaryInfra

uploadsBlocked(b) ==
    /\ ~allowDespiteHalt(b)
    /\ haltState # NoSession \/ flags.halt \/ flags.closed

isHardAnchorBatch(b) ==
    IF b \in B10xBatches \cup SecondaryInfra
    THEN page.unloading \/ B10 \in batchesOk
    ELSE b \in HardList

isPagehideAllowlisted(b) ==
    \/ b \in SiliconMust \cup HardList \cup {"B7_sandbox"}
    \/ b \in SecondaryInfra \ {SiliconDeep}
    \/ b = SiliconDeep /\ (~page.unloading \/ SiliconMust \subseteq batchesOk)

(* probe_lifecycle.js; the compute-pressure gate on timing packs is left to*)
(* the caller.                                                             *)
allowEnqueue(b) ==
    \/ b \in SecondaryInfra
    \/ /\ ~(isRpaBatch(b) /\ "rpa" \in quiet)
       /\ ~(isDeepenBatch(b) /\ "deepen" \in quiet)
       /\ ~("soft" \in quiet /\ ~isHardBatch(b) /\ ~isDeepenBatch(b))

(* One pending item per key: a fresher or equal generation replaces.       *)
queuePending(P, c, caps) ==
    LET same == {p \in P : caps[p].b = caps[c].b /\ caps[p].s = caps[c].s}
    IN IF same = {} THEN P \cup {c}
       ELSE LET p == CHOOSE p \in same : TRUE
            IN IF caps[c].g < caps[p].g THEN P ELSE (P \ {p}) \cup {c}

-----------------------------------------------------------------------------
(* applyHalt: set the state and the globals, drop what may not pass a halt,*)
(* fire every AbortController, and arm a pump when something is left.      *)
(* aborting gets the uploads that stay on the wire.                        *)
applyHalt(sess, rest) ==
    /\ haltState' = sess
    /\ flags' = [halt |-> TRUE, closed |-> TRUE, stop |-> TRUE]
    /\ pending' = {p \in pending : allowDespiteHalt(batchOf(p))}
    /\ wake' = (wake \/ pending' # {})
    /\ aborted' = rest

noHalt == UNCHANGED <<haltState, flags, wake>>

\* Mutant: the row goes, the counter stays.
removeInflightItem_Mut(c) ==
    /\ inflightItems' = {i \in inflightItems : keyOf(i) # keyOf(c)}
    /\ UNCHANGED inflight

(* removeInflightItem drops every in-flight row with the item's key, and   *)
(* owns the counter.                                                       *)
removeInflightItem(c) ==
    LET gone == {i \in inflightItems : i = c \/ keyOf(i) = keyOf(c)}
        rest == Cardinality(inflightItems \ gone)
        left == IF inflight > Cardinality(gone) THEN inflight - Cardinality(gone) ELSE 0
    IN /\ inflightItems' = inflightItems \ gone
       /\ inflight' = IF left > rest THEN rest ELSE left

(* The promise of c settles.                                               *)
settle(c) ==
    /\ wire' = wire \ {c} /\ sealing' = sealing \ {c}
    /\ removeInflightItem(c)
    /\ heavyInflight' = IF isHeavyBatch(batchOf(c)) /\ heavyInflight > 0
                        THEN heavyInflight - 1 ELSE heavyInflight

goPump == pc' = "pump" /\ conc' = 0 /\ UNCHANGED after
goIdle == pc' = "idle" /\ conc' = 0 /\ UNCHANGED after

-----------------------------------------------------------------------------
(* pump()                                                                  *)

leavePump == /\ pc' = IF after = <<>> THEN "idle" ELSE "finish"
             /\ conc' = 0

stale == Cardinality(inflightItems) > RowCap \/ inflight > RowCap

(* pruneStaleInflight: rows beyond the cap are dropped, oldest first (any  *)
(* rows here: their order is not kept), though their uploads may be alive; *)
(* the counter follows the rows, the heavy counter falls to one.           *)
pruneStaleInflight ==
    /\ inflightItems' \in IF Cardinality(inflightItems) > RowCap
                          THEN {R \in SUBSET inflightItems : Cardinality(R) = RowCap}
                          ELSE {inflightItems}
    /\ heavyInflight' = IF stale /\ heavyInflight > 1 THEN 1 ELSE heavyInflight

atMost(a, b) == IF a > b THEN b ELSE a

effectiveUploadCap == 1..ConcurrencyMax

(* The head of pump: prune; nothing more to do after a halt unless         *)
(* something exempt is pending; else fix the cap, clamp the counter to it. *)
PumpEnter ==
    /\ pc = "pump"
    /\ pruneStaleInflight
    /\ LET rows == Cardinality(inflightItems')
           slots == IF stale THEN atMost(inflight, rows) ELSE inflight
       IN \/ /\ haltState # NoSession
             /\ \A p \in pending : ~allowDespiteHalt(batchOf(p))
             /\ leavePump
             /\ inflight' = slots
          \/ /\ haltState = NoSession \/ \E p \in pending : allowDespiteHalt(batchOf(p))
             /\ conc' \in effectiveUploadCap
             /\ pc' = "loop"
             /\ inflight' = IF slots > conc' THEN atMost(rows, conc') ELSE slots
    /\ UNCHANGED <<session, queueVars, wire, sealing, aborted, ledgerVars, haltVars,
                   pageVars, after, received, boundVars>>

(* The synchronous head of postOne: the material is frozen, the body built *)
(* and its sealing begins.  Its own test for a blocked item cannot fire    *)
(* behind pump's: see HaltDrains.                                          *)
postOne(c) == wire' = wire \cup {c} /\ sealing' = sealing \cup {c}

\* Mutant: the item is looked at, never taken out of the queue.
startUpload_Mut(c) ==
    /\ captures' = [captures EXCEPT ![c].k = keyOf(c)]
    /\ attempts' = [attempts EXCEPT ![keyOf(c)] = @ + 1]
    /\ UNCHANGED pending
    /\ postOne(c)
    /\ inflightItems' = inflightItems \cup {c} /\ inflight' = inflight + 1
    /\ heavyInflight' = IF isHeavyBatch(batchOf(c)) THEN heavyInflight + 1
                                                    ELSE heavyInflight
    /\ UNCHANGED <<aborted, pumpVars>>

(* The slot bookkeeping of pump, then startUpload.                         *)
startUpload(c) ==
    /\ captures' = [captures EXCEPT ![c].k = keyOf(c)]
    /\ attempts' = [attempts EXCEPT ![keyOf(c)] = @ + 1]
    /\ pending' = pending \ {c}
    /\ postOne(c)
    /\ inflightItems' = inflightItems \cup {c} /\ inflight' = inflight + 1
    /\ heavyInflight' = IF isHeavyBatch(batchOf(c)) THEN heavyInflight + 1
                                                    ELSE heavyInflight
    /\ UNCHANGED <<aborted, pumpVars>>

\* Mutant: one heavy upload too many.
heavyFull_Mut(c) == isHeavyBatch(batchOf(c)) /\ heavyInflight > HeavyMax

heavyFull(c) == isHeavyBatch(batchOf(c)) /\ heavyInflight >= HeavyMax

lights(c) == {l \in pending \ {c} : ~isHeavyBatch(batchOf(l))}

dropsFromPump(c) ==
    \/ uploadsBlocked(batchOf(c))
    \/ ~allowEnqueue(batchOf(c)) /\ ~isHardAnchorBatch(batchOf(c))

PumpDrop(c) ==
    /\ pending' = pending \ {c}
    /\ UNCHANGED <<captures, wireVars, attempts, pumpVars>>

(* A deferred head, or a heavy head with no light pack behind it, ends the *)
(* loop with the item back in the queue.                                   *)
PumpBreak ==
    /\ leavePump
    /\ UNCHANGED <<captures, pending, wireVars, attempts, after>>

PumpStep ==
    /\ pc = "loop"
    /\ IF inflight >= conc \/ pending = {}
       THEN PumpBreak
       ELSE \E c \in pending :
              IF dropsFromPump(c) THEN PumpDrop(c)
              ELSE IF captures[c].deferred THEN PumpBreak
              ELSE IF heavyFull(c)
                   THEN IF lights(c) = {} THEN PumpBreak
                        ELSE \E l \in lights(c) : startUpload(l)
              ELSE startUpload(c)
    /\ UNCHANGED <<session, retry, sentKeys, batchesOk, batchesStarted,
                   recollectUsed, haltVars, pageVars, received, boundVars>>

-----------------------------------------------------------------------------
(* postOne and the two handlers of startUpload                             *)

(* The sealed body is ready.  When the grant is for another, newer cycle   *)
(* the item moves to it; an aborted item fails at the fetch instead.       *)
SealReady(c) ==
    /\ pc = "idle" /\ c \in sealing \ aborted
    /\ sealing' = sealing \ {c}
    /\ \E s \in {captures[c].s, session} : captures' = [captures EXCEPT ![c].s = s]
    /\ UNCHANGED <<session, pending, retry, wire, aborted, inflightItems, inflight,
                   heavyInflight, ledgerVars, haltVars, pageVars, pumpVars,
                   received, boundVars>>

(* The page hides and the body is plain (sealing is not in use, or failed  *)
(* and was not needed): it goes by sendBeacon, also when the item is       *)
(* aborted or the queue halted.  The promise is fulfilled with an answer   *)
(* that verifies nothing, and the success handler runs as for one.         *)
Beacon(c) ==
    /\ pc = "idle" /\ c \in sealing /\ page.hiding
    /\ settle(c)
    /\ noHalt /\ aborted' = aborted \ {c}
    /\ received' = IF haltState = NoSession THEN received \cup {batchOf(c)} ELSE received
    /\ goPump
    /\ UNCHANGED <<session, queueVars, ledgerVars, pageVars, boundVars>>

(* noteOutcome and sentKeys for a verified answer; a start heartbeat is    *)
(* not a landing.  Landing B10 pumps at once (boostPendingB10x).           *)
recordAck(c, j) ==
    LET it == captures[c]
        ok == applyAck(j).verified
    IN /\ sentKeys' = IF ok THEN sentKeys \cup {it.k} ELSE sentKeys
       /\ batchesStarted' = IF ok /\ it.start THEN batchesStarted \cup {it.b}
                                              ELSE batchesStarted
       /\ batchesOk' = IF ok /\ ~it.start THEN batchesOk \cup {it.b} ELSE batchesOk
       /\ after' = <<j, it.s, it.b>>
       /\ pc' = IF ok /\ ~it.start /\ it.b = B10 THEN "pump" ELSE "finish"
       /\ UNCHANGED <<attempts, recollectUsed, conc>>

(* An HTTP answer of 200 or 410 arrives for an upload.  A terminal verdict *)
(* halts before the handler of startUpload runs; with a halt in force that *)
(* handler records nothing.                                                *)
Answer(c, j) ==
    /\ pc = "idle" /\ c \in wire \ (sealing \cup aborted)
    /\ settle(c)
    /\ LET term == parseTerminal(j, B10 \in batchesOk)
       IN \/ /\ term.terminal
             /\ applyHalt(captures[c].s, wire \ {c})
             /\ IF j.status = 200 THEN goPump ELSE goIdle
             /\ UNCHANGED ledgerVars
          \/ /\ ~term.terminal
             /\ noHalt /\ UNCHANGED pending
             /\ aborted' = aborted \ {c}
             /\ IF haltState # NoSession
                THEN goPump /\ UNCHANGED ledgerVars
                ELSE recordAck(c, j)
    /\ UNCHANGED <<session, captures, retry, pageVars, received, boundVars>>

(* The end of the success handler: the verdict is taken again, now that a  *)
(* landed B10 is on record; the batch joins the received list, verified or *)
(* not; the queue is pumped.                                               *)
FinishSuccess ==
    /\ pc = "finish"
    /\ LET term == parseTerminal(after[1], B10 \in batchesOk)
       IN IF term.terminal THEN applyHalt(after[2], wire)
                           ELSE noHalt /\ UNCHANGED <<pending, aborted>>
    /\ received' = received \cup {after[3]}
    /\ pc' = "pump" /\ conc' = 0 /\ after' = <<>>
    /\ UNCHANGED <<session, captures, retry, wire, sealing, inflightItems,
                   inflight, heavyInflight, ledgerVars, pageVars, boundVars>>

SealKinds == {"seal", "wasm", "sealreq"}

(* Batches whose dedupe key a retriable failure clears.                    *)
clearsSentKey(b, kind) ==
    \/ kind \in SealKinds
    \/ /\ kind \in {"network", "timeout"} \/ (kind = "edge" /\ (isHardAnchorBatch(b) \/ isDeepenBatch(b)))
       /\ \/ isHardAnchorBatch(b) \/ isDeepenBatch(b)
          \/ b \in {"B27_storage_privacy", "B65_client_hints_full", "B18_webgpu",
                    "B46_audio_deep", "B55_webrtc_ice_deep", "B2_hardware",
                    "B3_system", "B0_bootstrap", "B1_conflict", "B11_interaction",
                    "B12_anti_camouflage", "B7_sandbox"}

(* recordFail: network and timeout failures do not count against the soft  *)
(* budget (how full it is, is left open); exhaustion silences a class.     *)
recordFail(b, kind, exhausted) ==
    LET counted == exhausted \/ kind \notin {"network", "timeout", "halted"}
        classes == (IF isRpaBatch(b) /\ exhausted THEN {"rpa"} ELSE {})
                   \cup (IF isDeepenBatch(b) /\ (exhausted \/ kind = "network")
                         THEN {"deepen"} ELSE {})
    IN \E soft \in SUBSET (IF counted THEN {"soft"} ELSE {}) :
          quiet' = quiet \cup classes \cup soft

atLeast(a, b) == IF a < b THEN b ELSE a

(* The failure handler below its terminal and halted exits: seal races get *)
(* their own budget and a deferred requeue, other failures a retry timer   *)
(* until the attempts are used up, then the capture is given up.           *)
retryOrGiveUp(c, kind) ==
    LET it == captures[c]
        seal == kind \in SealKinds
        waits == IF seal THEN it.waits + 1 ELSE it.waits
        cap == IF seal THEN atLeast(MaxAttempts[it.b], SealCap) ELSE MaxAttempts[it.b]
        real == IF seal /\ ~(kind = "wasm" /\ waits >= 2) /\ attempts[it.k] > 0
                THEN attempts[it.k] - 1 ELSE attempts[it.k]
        tries == IF kind = "large" THEN atLeast(real, cap)
                 ELSE IF seal /\ waits < SealWaitMax /\ real >= cap THEN cap - 1
                 ELSE real
        again == atLeast(tries, 1) < cap \/ (seal /\ waits < SealWaitMax)
        item == [it EXCEPT !.waits = waits,
                           !.s = IF seal THEN session ELSE it.s,
                           !.deferred = seal /\ again]
    IN /\ captures' = [captures EXCEPT ![c] = item]
       /\ attempts' = [attempts EXCEPT ![it.k] = tries]
       /\ sentKeys' = IF clearsSentKey(it.b, kind) THEN sentKeys \ {it.k} ELSE sentKeys
       /\ pending' = IF again /\ seal THEN queuePending(pending, c, captures') ELSE pending
       /\ retry' = IF again /\ ~seal THEN retry \cup {c} ELSE retry
       /\ IF again /\ seal THEN UNCHANGED quiet
                           ELSE recordFail(it.b, kind, ~again)
       /\ goPump

(* startUpload's failure handler.                                          *)
handleError(c, kind, terminal) ==
    /\ settle(c)
    /\ \/ /\ terminal
          /\ applyHalt(captures[c].s, wire \ {c})
          /\ goIdle
          /\ UNCHANGED <<captures, retry, attempts, sentKeys, quiet>>
       \/ /\ ~terminal
          /\ noHalt /\ aborted' = aborted \ {c}
          /\ IF uploadsBlocked(batchOf(c)) \/ haltState # NoSession
             THEN goIdle /\ UNCHANGED <<captures, pending, retry, attempts, sentKeys, quiet>>
             ELSE retryOrGiveUp(c, kind)
    /\ UNCHANGED <<session, batchesOk, batchesStarted, recollectUsed, page, events>>

(* The sealed body cannot be made: no grant, or no WASM.                   *)
SealFail(c) ==
    /\ pc = "idle" /\ c \in sealing /\ faults < MaxFaults
    /\ faults' = faults + 1
    /\ \E kind \in {"seal", "wasm"} : handleError(c, kind, FALSE)
    /\ UNCHANGED received

HttpKinds == {"network", "timeout", "edge", "large", "sealreq", "status"}

(* The fetch fails.  While unloading or halted the catch of postOne turns  *)
(* every failure into a silent one, terminal for the cycle.                *)
Fail(c) ==
    /\ pc = "idle" /\ c \in wire \ (sealing \cup aborted) /\ faults < MaxFaults
    /\ faults' = faults + 1
    /\ \E kind \in HttpKinds :
         /\ kind = "timeout" => isHardAnchorBatch(batchOf(c)) \/ isHeavyBatch(batchOf(c))
         /\ LET conv == page.unloading \/ flags.halt
            IN handleError(c, IF conv THEN "halted" ELSE kind,
                           conv /\ (haltState # NoSession \/ page.unloading))
    /\ UNCHANGED received

(* An aborted upload rejects.                                              *)
Aborted(c) ==
    /\ pc = "idle" /\ c \in aborted
    /\ LET terminal == haltState # NoSession \/ page.unloading
       IN handleError(c, IF terminal THEN "halted" ELSE "timeout", terminal)
    /\ UNCHANGED <<faults, received>>

-----------------------------------------------------------------------------
(* Timers                                                                  *)

\* Mutant: the timer puts the item back without looking at the halt.
RetryTimer_Mut(c) ==
    /\ pc = "idle" /\ c \in retry
    /\ retry' = retry \ {c}
    /\ pending' = queuePending(pending, c, captures) /\ goPump
    /\ UNCHANGED <<session, captures, wireVars, ledgerVars, haltVars, pageVars,
                   received, boundVars>>

(* scheduleRetry's timer: requeue unless blocked or quiet by now.          *)
RetryTimer(c) ==
    /\ pc = "idle" /\ c \in retry
    /\ retry' = retry \ {c}
    /\ IF uploadsBlocked(batchOf(c)) \/ ~allowEnqueue(batchOf(c))
       THEN UNCHANGED <<pending, pumpVars>>
       ELSE pending' = queuePending(pending, c, captures) /\ goPump
    /\ UNCHANGED <<session, captures, wireVars, ledgerVars, haltVars, pageVars,
                   received, boundVars>>

HaltTimer ==
    /\ pc = "idle" /\ wake
    /\ wake' = FALSE
    /\ goPump
    /\ UNCHANGED <<session, queueVars, wireVars, ledgerVars, haltState, flags,
                   pageVars, received, boundVars>>

undefer(P) == [c \in DOMAIN captures |->
                 IF c \in P THEN [captures[c] EXCEPT !.deferred = FALSE] ELSE captures[c]]

(* The seal race's own timer, kick(), and nudgeTransport / pumpWhileOpen,  *)
(* which the self-heal timer calls as long as the page is open: deferrals  *)
(* of some pending items end and the queue is pumped.                      *)
Kick ==
    /\ pc = "idle" /\ pending # {}
    /\ \E P \in {{c} : c \in pending} \cup {pending} : captures' = undefer(P)
    /\ goPump
    /\ UNCHANGED <<session, pending, retry, wireVars, ledgerVars, haltVars,
                   pageVars, received, boundVars>>

QuietEnds(q) ==
    /\ pc = "idle" /\ q \in quiet
    /\ quiet' = quiet \ {q}
    /\ UNCHANGED <<session, queueVars, wireVars, ledgerVars, haltVars, page,
                   pumpVars, received, boundVars>>

-----------------------------------------------------------------------------
(* The calls of the rest of the front end                                  *)

isElevated(b) == b \in B10xBatches \cup SecondaryInfra \/ isHardAnchorBatch(b)

minus(a, b) == IF a < b THEN 0 ELSE a - b

(* The attempt budget at enqueue: a hard or silicon key that used it up is *)
(* re-armed, a soft one only when the seal grant is valid now.             *)
budgetOpens(k, b, mode, grant) ==
    LET cap == IF isElevated(b) THEN atLeast(MaxAttempts[b], SealCap) ELSE MaxAttempts[b]
        full == mode # "reset" /\ attempts[k] >= cap
    IN /\ full => isElevated(b) \/ grant
       /\ attempts' = [attempts EXCEPT ![k] =
                          IF mode = "reset" THEN 0
                          ELSE IF ~full THEN @
                          ELSE IF grant THEN minus(cap, 4) ELSE minus(cap, 5)]

(* enqueue: every early return of the code is a conjunct here; what is left*)
(* is frozen under a new capture number, queued and pumped.  mode: a plain *)
(* item, a recollect, or a recollect that resets the attempts.  start: the *)
(* heartbeat a silicon pack sends before its result.                       *)
Enqueue(b, mode, start) ==
    LET recollect == mode # "plain"
        k == <<session, b>>
        c == Len(captures) + 1
        item == [b |-> b, s |-> session, g |-> IF recollect THEN 2 ELSE 1,
                 start |-> start, k |-> k, deferred |-> FALSE, waits |-> 0]
    IN /\ pc = "idle" /\ Len(captures) < MaxCaptures
       /\ start => b \in B10xBatches
       /\ recollect \/ b \notin batchesOk
       /\ (page.hiding \/ page.unloading) => isPagehideAllowlisted(b) \/ recollect
       /\ \E grant \in BOOLEAN : budgetOpens(k, b, mode, grant)
       /\ ~uploadsBlocked(b)
       /\ flags.stop => allowDespiteHalt(b)
       /\ allowEnqueue(b) \/ isHardAnchorBatch(b)
       /\ k \in sentKeys => recollect \/ start \/ allowDespiteHalt(b) \/ b \in batchesStarted
       /\ ~(isRpaBatch(b) /\ (page.hiding \/ page.unloading))
       /\ captures' = Append(captures, item)
       /\ pending' = queuePending(pending, c, captures')
       /\ goPump
       /\ UNCHANGED <<session, retry, wireVars, sentKeys, batchesOk, batchesStarted,
                      recollectUsed, haltVars, pageVars, received, boundVars>>

event == pc = "idle" /\ events < MaxEvents /\ events' = events + 1

(* The server's open answer names another cycle than the page minted       *)
(* (gr.boot.js): configure, then rewriteSessionId, then kick, in one turn. *)
(* configure resets the session's ledgers and keeps only pending items of  *)
(* the new session; rewriteSessionId retags what is still pending under    *)
(* the old one and lifts a halt that belongs to it.                        *)
Supersede(to) ==
    LET kept == {c \in pending : captures[c].s = to}
        left == IF haltState \in {NoSession, to} THEN haltState ELSE NoSession
        retagged == {c \in kept : captures[c].s = session}
        dead == left = session
    IN /\ event /\ to # session
       /\ session' = to
       /\ batchesOk' = {} /\ batchesStarted' = {} /\ recollectUsed' = {}
       /\ sentKeys' = {} /\ attempts' = [k \in Keys |-> 0] /\ received' = {}
       /\ pending' = kept
       /\ captures' = [c \in DOMAIN captures |->
                         IF c \notin kept THEN captures[c]
                         ELSE [captures[c] EXCEPT !.deferred = FALSE,
                                 !.s = IF c \in retagged THEN to ELSE @]]
       /\ haltState' = IF dead THEN NoSession ELSE left
       /\ flags' = IF dead THEN [halt |-> FALSE, closed |-> FALSE, stop |-> FALSE]
                           ELSE flags
       /\ goPump
       /\ UNCHANGED <<retry, wireVars, wake, pageVars, faults>>

(* refreshSealGrant got a grant: it may name a newer cycle.                *)
SealRefreshed(to) ==
    /\ event
    /\ session' = to
    /\ goPump
    /\ UNCHANGED <<queueVars, wireVars, ledgerVars, haltVars, pageVars, received, faults>>

(* halt(): the open answer or the plan says the cycle is cool or stopped.  *)
Halt ==
    /\ event
    /\ applyHalt(session, wire)
    /\ UNCHANGED <<session, captures, retry, wire, sealing, inflightItems, inflight,
                   heavyInflight, ledgerVars, pageVars, pumpVars, received, faults>>

(* The refusal test of applyCorrections.                                   *)
refusesHalt(complete) ==
    /\ B10 \notin batchesOk
    /\ complete \/ \E c \in pending \cup inflightItems : isHardAnchorBatch(batchOf(c))

(* applyCorrections on the server's reconcile answer.  A halt correction   *)
(* is refused while B10 has not landed, and then fe_should_halt, which the *)
(* server sends with it, is honoured.  A resume correction lifts haltState *)
(* and two of the three globals.                                           *)
Reconcile ==
    /\ event
    /\ \/ \E complete, feShouldHalt \in BOOLEAN :
            IF ~refusesHalt(complete) \/ (feShouldHalt /\ haltState = NoSession)
            THEN applyHalt(session, wire)
            ELSE UNCHANGED <<haltVars, pending, aborted>>
       \/ /\ haltState' = NoSession
          /\ flags' = [flags EXCEPT !.closed = FALSE, !.stop = FALSE]
          /\ UNCHANGED <<wake, pending, aborted>>
    /\ UNCHANGED <<session, captures, retry, wire, sealing, inflightItems, inflight,
                   heavyInflight, ledgerVars, pageVars, pumpVars, received, faults>>

(* resume(id): refused for the halted session itself.                      *)
Resume ==
    /\ event /\ haltState # session
    /\ haltState' = NoSession
    /\ flags' = [flags EXCEPT !.halt = FALSE, !.closed = FALSE]
    /\ UNCHANGED <<session, queueVars, wireVars, ledgerVars, wake, pageVars,
                   pumpVars, received, faults>>

(* The boot and the self-heal want probing back: they clear two of the     *)
(* globals themselves, before they call resume, and leave haltState.       *)
ClearStop ==
    /\ event
    /\ flags' = [flags EXCEPT !.halt = FALSE, !.stop = FALSE]
    /\ UNCHANGED <<session, queueVars, wireVars, ledgerVars, haltState, wake, pageVars,
                   pumpVars, received, faults>>

(* flush("pagehide"): abort and drop all but the allowlist, then pump.     *)
Unload ==
    /\ event
    /\ page' = [hiding |-> TRUE, unloading |-> TRUE]
    /\ LET kept(b) ==
              \/ b \in SiliconMust \cup HardList \cup {"B7_sandbox"}
              \/ b \in SecondaryInfra \ {SiliconDeep}
              \/ b = SiliconDeep /\ SiliconMust \subseteq batchesOk
       IN /\ aborted' = aborted \cup {c \in wire : ~kept(batchOf(c))}
          /\ pending' = {c \in pending : kept(batchOf(c)) /\ batchOf(c) \notin batchesOk}
    /\ goPump
    /\ UNCHANGED <<session, captures, retry, wire, sealing, inflightItems, inflight,
                   heavyInflight, ledgerVars, haltVars, quiet, received, faults>>

(* markVisible: the tab is back; the unload flags stay.                    *)
MarkVisible ==
    /\ event
    /\ page' = [page EXCEPT !.hiding = FALSE]
    /\ goPump
    /\ UNCHANGED <<session, queueVars, wireVars, ledgerVars, haltVars, quiet,
                   received, faults>>

(* The server's received list at open, whatever it lists: seedSentKeys,    *)
(* and the list replaces the page's own.                                   *)
SeedSentKeys(B) ==
    /\ event
    /\ sentKeys' = sentKeys \cup ({session} \X B)
    /\ received' = B
    /\ UNCHANGED <<session, queueVars, wireVars, attempts, batchesOk, batchesStarted,
                   recollectUsed, haltVars, pageVars, pumpVars, faults>>

(* clearSentKeys: once landed, one recollect per session.                  *)
ClearSentKeys(b) ==
    /\ event
    /\ ~(b \in batchesOk /\ b \in recollectUsed)
    /\ recollectUsed' = IF b \in batchesOk THEN recollectUsed \cup {b} ELSE recollectUsed
    /\ sentKeys' = sentKeys \ {<<session, b>>}
    /\ batchesOk' = batchesOk \ {b} /\ batchesStarted' = batchesStarted \ {b}
    /\ UNCHANGED <<session, queueVars, wireVars, attempts, haltVars, pageVars,
                   pumpVars, received, faults>>

-----------------------------------------------------------------------------
Uploads == \E c \in wire : \/ SealReady(c) \/ SealFail(c) \/ Beacon(c)
                           \/ \E j \in Replies : Answer(c, j)
                           \/ Fail(c) \/ Aborted(c)

Pump == PumpEnter \/ PumpStep \/ FinishSuccess

Timers == \/ \E c \in retry : RetryTimer(c)
          \/ HaltTimer \/ Kick
          \/ \E q \in quiet : QuietEnds(q)

Calls == \/ \E b \in Batches, mode \in {"plain", "recollect", "reset"}, start \in BOOLEAN :
               Enqueue(b, mode, start)
         \/ \E s \in Sessions : Supersede(s) \/ SealRefreshed(s)
         \/ Halt \/ Reconcile \/ Resume \/ ClearStop \/ Unload \/ MarkVisible
         \/ \E B \in SUBSET Batches : SeedSentKeys(B)
         \/ \E b \in Batches : ClearSentKeys(b)

Next == Uploads \/ Pump \/ Timers \/ Calls

Spec == Init /\ [][Next]_vars

-----------------------------------------------------------------------------
(* Properties                                                              *)

heavyOnWire == {c \in wire : isHeavyBatch(batchOf(c))}

(* Whatever interleaves (retries, aborts, halts, session changes, the same *)
(* key sent twice, pruned rows), pump() never counts more than HeavyMax    *)
(* GPU-heavy uploads and never one that has settled, so no heavy slot      *)
(* leaks; with one slot, the default, the counter is exact and no two      *)
(* heavy uploads are ever on the wire together.                            *)
HeavySerial ==
    /\ heavyInflight <= Cardinality(heavyOnWire)
    /\ heavyInflight <= HeavyMax
    /\ HeavyMax = 1 => heavyInflight = Cardinality(heavyOnWire)

(* A blocked queue is drained: while the page is halted, or a global still *)
(* says so, nothing but silicon deepen and secondary packs is pending.     *)
(* Neither a retry timer, a seal requeue, an unload, a resume nor a session*)
(* change leaves an item behind that no pump may send.                     *)
HaltDrains == \A c \in pending : ~uploadsBlocked(batchOf(c))

(* The transport rows agree with the promises: a row in inflightItems is an*)
(* unsettled upload, and the counter never exceeds the rows, so a settled  *)
(* upload always gives its slot back.                                      *)
SlotsReturned ==
    /\ inflightItems \subseteq wire
    /\ inflight <= Cardinality(inflightItems)

=============================================================================
