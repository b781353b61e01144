--------------------------- MODULE SelfHealProofs ---------------------------
(***************************************************************************)
(* For any batches, methods, budgets and durations: the supervisor is well *)
(* typed, and calls nothing landed for the sole reason that it was         *)
(* collected.                                                              *)
(***************************************************************************)
EXTENDS SelfHeal, TLAPS

(* TypeOK by groups of variables.                                          *)
TableType ==
    /\ gap \in [Batches -> Gap]
    /\ \A b \in Batches : /\ gap[b].attempts <= MethodCount[b] + 1
                          /\ gap[b].method <= MethodCount[b]

LoaderType ==
    /\ kicked \subseteq Batches /\ late \subseteq Batches
    /\ runs \in [Batches -> 0 .. MaxRuns]
    /\ age \in [Batches -> 0 .. 2] /\ elapsed \in [Batches -> 0 .. 3]
    /\ since \in [Batches -> 0 .. 2]

AdaptiveType ==
    /\ stalls \in 0 .. 2 /\ pause \in 0 .. Quiet
    /\ recovery \in BOOLEAN /\ debounce \in BOOLEAN /\ policyFresh \in BOOLEAN

UploadType ==
    /\ pending \subseteq Batches /\ stuck \subseteq Batches /\ acked \subseteq Batches
    /\ received \subseteq Batches /\ stored \subseteq Batches
    /\ pending \cap (acked \cup stuck) = {} /\ acked \subseteq received

TickType == ticking \in BOOLEAN /\ todo \subseteq Batches

PageType ==
    /\ heavy \in BOOLEAN /\ cool \in BOOLEAN /\ faults \in 0 .. MaxFaults
    /\ polls \in 0 .. MaxPolls /\ inflight \in 0 .. polls

LEMMA TypeParts ==
    TypeOK <=> /\ TableType /\ LoaderType /\ AdaptiveType
               /\ UploadType /\ TickType /\ PageType
BY DEF TypeOK, TableType, LoaderType, AdaptiveType, UploadType, TickType, PageType

(* What a step leaves alone keeps its type.                                *)
LEMMA Kept ==
    ASSUME TypeOK
    PROVE  /\ UNCHANGED gap => TableType'
           /\ UNCHANGED loader => LoaderType'
           /\ UNCHANGED adaptive => AdaptiveType'
           /\ UNCHANGED upload => UploadType'
           /\ UNCHANGED tickVars => TickType'
           /\ UNCHANGED <<brain, page>> => PageType'
<1>1. UNCHANGED gap => TableType'
  BY DEF TypeOK, TableType
<1>2. UNCHANGED loader => LoaderType'
  BY DEF TypeOK, LoaderType, loader
<1>3. UNCHANGED adaptive => AdaptiveType'
  BY DEF TypeOK, AdaptiveType, adaptive
<1>4. UNCHANGED upload => UploadType'
  BY DEF TypeOK, UploadType, upload
<1>5. UNCHANGED tickVars => TickType'
  BY DEF TypeOK, TickType, tickVars
<1>6. UNCHANGED <<brain, page>> => PageType'
  BY DEF TypeOK, PageType, brain, page
<1> QED
  BY <1>1, <1>2, <1>3, <1>4, <1>5, <1>6

LEMMA MaxNat ==
    ASSUME NEW a \in Nat, NEW b \in Nat, NEW n \in Nat, a <= n, b <= n
    PROVE  max(a, b) \in 0 .. n
BY DEF max

(* applyAdaptivePolicy keeps the types of what it sets.                    *)
LEMMA PolicyType ==
    ASSUME TypeOK, NEW s \in Nat, NEW p \in 0 .. Quiet, applyAdaptivePolicy(s, p)
    PROVE  recovery' \in BOOLEAN /\ pause' \in 0 .. Quiet /\ policyFresh' \in BOOLEAN
<1> DEFINE rec == s >= 2 \/ p > 0
           q   == IF rec THEN max(p, Renew) ELSE p
<1>0. Renew \in Nat /\ 1 <= Renew /\ Renew <= Quiet /\ Quiet \in Nat
  BY ConstAssumption
<1>1. q \in 0 .. Quiet
  <2>1. p \in Nat /\ p <= Quiet
    BY <1>0
  <2>2. max(p, Renew) \in 0 .. Quiet
    BY <1>0, <2>1, MaxNat
  <2>3. CASE rec
    BY <2>2, <2>3
  <2>4. CASE ~rec
    BY <2>4
  <2> QED
    BY <2>3, <2>4
<1>2. max(q, 1) \in 0 .. Quiet
  <2> HIDE DEF q
  <2>1. q \in Nat /\ q <= Quiet /\ 1 \in Nat /\ 1 <= Quiet
    BY <1>0, <1>1
  <2> QED
    BY <1>0, <2>1, MaxNat
<1>3. pause' = IF heavy THEN q ELSE max(q, 1)
  BY DEF applyAdaptivePolicy
<1>4. pause' \in 0 .. Quiet
  BY <1>1, <1>2, <1>3
<1>5. recovery' = rec /\ policyFresh' = TRUE
  BY DEF applyAdaptivePolicy
<1> QED
  BY <1>4, <1>5

(* A recovery counts the stall and applies the policy.                     *)
LEMMA TripType ==
    ASSUME TypeOK, recovered, trips
    PROVE  AdaptiveType'
<1>1. stalls' \in 0 .. 2 /\ stalls' \in Nat /\ debounce' \in BOOLEAN
  BY DEF recovered, TypeOK
<1>2. (IF stalls' >= 2 THEN Quiet ELSE pause) \in 0 .. Quiet
  BY <1>1, ConstAssumption DEF TypeOK
<1>3. recovery' \in BOOLEAN /\ pause' \in 0 .. Quiet /\ policyFresh' \in BOOLEAN
  BY <1>1, <1>2, PolicyType DEF trips
<1> QED
  BY <1>1, <1>3 DEF AdaptiveType

(* kickAll counts no more runs than the bound.                             *)
LEMMA StartsType ==
    ASSUME TypeOK, NEW S \in SUBSET Batches, starts(S)
    PROVE  /\ runs' \in [Batches -> 0 .. MaxRuns] /\ age' \in [Batches -> 0 .. 2]
           /\ late' \subseteq Batches
<1>1. MaxRuns \in Nat
  BY ConstAssumption
<1>2. ASSUME NEW b \in Batches
      PROVE  (IF b \in S /\ runs[b] < MaxRuns THEN runs[b] + 1 ELSE runs[b]) \in 0 .. MaxRuns
  <2>1. runs[b] \in 0 .. MaxRuns
    BY DEF TypeOK
  <2> QED
    BY <1>1, <2>1
<1>3. runs' \in [Batches -> 0 .. MaxRuns]
  BY <1>2 DEF starts
<1> QED
  BY <1>3 DEF starts, TypeOK

(* kickCollect within its budget keeps the types of the table and of the   *)
(* loader.                                                                 *)
LEMMA KickType ==
    ASSUME TypeOK, NEW b \in Batches, NEW g \in Gap, willKick(b, g),
           g.method <= MethodCount[b], kickCollect(b, g)
    PROVE  TableType' /\ LoaderType'
<1> DEFINE h == [g EXCEPT !.attempts = @ + 1, !.softDone = FALSE]
<1>0. g.attempts + 1 \in Nat
  BY DEF Gap
<1>1. h \in Gap /\ h.attempts = g.attempts + 1 /\ h.method = g.method
  BY <1>0 DEF Gap
<1>2. g.attempts < MethodCount[b] + 1 /\ g.attempts \in Nat
  BY DEF willKick, kickable, shouldKick, Gap
<1>3. MethodCount[b] \in Nat
  BY ConstAssumption
<1>4. h.attempts <= MethodCount[b] + 1
  BY <1>1, <1>2, <1>3
<1>5. gap' = [gap EXCEPT ![b] = h]
  BY DEF kickCollect
<1>6. gap' \in [Batches -> Gap]
  BY <1>1, <1>5 DEF TypeOK
<1>7. ASSUME NEW c \in Batches
      PROVE  gap'[c].attempts <= MethodCount[c] + 1 /\ gap'[c].method <= MethodCount[c]
  BY <1>1, <1>4, <1>5 DEF TypeOK
<1>8. /\ runs' \in [Batches -> 0 .. MaxRuns] /\ age' \in [Batches -> 0 .. 2]
      /\ late' \subseteq Batches
  <2>1. {b} \in SUBSET Batches /\ starts({b})
    BY DEF kickCollect
  <2> QED
    BY <2>1, StartsType
<1>9. /\ kicked' \subseteq Batches
      /\ elapsed' \in [Batches -> 0 .. 3] /\ since' \in [Batches -> 0 .. 2]
  BY DEF kickCollect, TypeOK
<1> QED
  BY <1>6, <1>7, <1>8, <1>9 DEF TableType, LoaderType

(* A change of one row that keeps attempts and method within bounds keeps  *)
(* the table's type.                                                       *)
LEMMA RowType ==
    ASSUME TypeOK, NEW b \in Batches, NEW g \in Gap,
           g.attempts = gap[b].attempts, g.method <= MethodCount[b],
           gap' = [gap EXCEPT ![b] = g]
    PROVE  TableType'
BY DEF TypeOK, TableType

(* The rows that recoverFromStall writes: another method, or the end.      *)
LEMMA RecoverRow ==
    ASSUME NEW b \in Batches, NEW row \in Gap, row.method <= MethodCount[b]
    PROVE  LET m == IF row.method < MethodCount[b] THEN row.method + 1 ELSE MethodCount[b]
               g == [row EXCEPT !.method = m]
               t == IF b = B10 THEN "degrade" ELSE "skipped_method"
               e == [g EXCEPT !.terminal = t]
           IN /\ g \in Gap /\ g.attempts = row.attempts /\ g.method <= MethodCount[b]
              /\ g.seen = row.seen /\ g.landed = row.landed
              /\ e \in Gap /\ e.attempts = row.attempts /\ e.method <= MethodCount[b]
              /\ e.seen = row.seen /\ e.landed = row.landed
<1> DEFINE m == IF row.method < MethodCount[b] THEN row.method + 1 ELSE MethodCount[b]
           g == [row EXCEPT !.method = m]
           t == IF b = B10 THEN "degrade" ELSE "skipped_method"
           e == [g EXCEPT !.terminal = t]
<1>1. m \in Nat /\ m <= MethodCount[b]
  BY ConstAssumption DEF Gap
<1>2. /\ g \in Gap /\ g.attempts = row.attempts /\ g.method = m
      /\ g.seen = row.seen /\ g.landed = row.landed
  <2> HIDE DEF m
  <2> QED
    BY <1>1 DEF Gap
<1>3. t \in Terminals
  BY DEF Terminals
<1>4. /\ e \in Gap /\ e.attempts = g.attempts /\ e.method = g.method
      /\ e.seen = g.seen /\ e.landed = g.landed
  <2> HIDE DEF g, t
  <2> QED
    BY <1>2, <1>3 DEF Gap
<1> QED
  BY <1>1, <1>2, <1>4

(* recoverFromStall, whatever mark and clock its caller leaves.            *)
LEMMA RecoverType ==
    ASSUME TypeOK, NEW b \in Batches, NEW row \in Gap,
           row.attempts = gap[b].attempts, row.method = gap[b].method,
           NEW mark \in SUBSET Batches, NEW clock \in 0 .. 3,
           recoverFromStall(b, row, mark, clock)
    PROVE  TableType' /\ LoaderType' /\ AdaptiveType'
<1> DEFINE m == IF row.method < MethodCount[b] THEN row.method + 1 ELSE MethodCount[b]
           g == [row EXCEPT !.method = m]
           t == IF b = B10 THEN "degrade" ELSE "skipped_method"
           e == [g EXCEPT !.terminal = t]
<1>0. row.method <= MethodCount[b]
  BY DEF TypeOK
<1>1. /\ g \in Gap /\ g.attempts = row.attempts /\ g.method <= MethodCount[b]
      /\ e \in Gap /\ e.attempts = row.attempts /\ e.method <= MethodCount[b]
  BY <1>0, RecoverRow
<1> HIDE DEF g, e
<1>2. CASE /\ gap' = [gap EXCEPT ![b] = row]
           /\ kicked' = mark /\ elapsed' = [elapsed EXCEPT ![b] = clock]
           /\ UNCHANGED <<adaptive, runs, late, age, since>>
  <2>1. TableType'
    BY <1>0, <1>2, RowType
  <2>2. LoaderType'
    BY <1>2 DEF TypeOK, LoaderType
  <2> QED
    BY <1>2, <2>1, <2>2, Kept
<1>3. CASE /\ gap' = [gap EXCEPT ![b] = e]
           /\ recovered
           /\ pause' = IF b \in Hard THEN pause ELSE Quiet
           /\ kicked' = mark /\ elapsed' = [elapsed EXCEPT ![b] = clock]
           /\ UNCHANGED <<recovery, policyFresh, runs, late, age, since>>
  <2>1. TableType'
    BY <1>1, <1>3, RowType
  <2>2. LoaderType'
    BY <1>3 DEF TypeOK, LoaderType
  <2>3. AdaptiveType'
    BY <1>3, ConstAssumption DEF TypeOK, AdaptiveType, recovered
  <2> QED
    BY <2>1, <2>2, <2>3
<1>4. CASE willKick(b, g) /\ recovered /\ trips /\ kickCollect(b, g)
  BY <1>1, <1>4, KickType, TripType
<1>5. CASE /\ recovered /\ trips
           /\ gap' = [gap EXCEPT ![b] = g]
           /\ kicked' = kicked \ {b} /\ elapsed' = [elapsed EXCEPT ![b] = 0]
           /\ UNCHANGED <<runs, late, age, since>>
  <2>1. TableType'
    BY <1>1, <1>5, RowType
  <2>2. LoaderType'
    BY <1>5 DEF TypeOK, LoaderType
  <2> QED
    BY <1>5, <2>1, <2>2, TripType
<1> QED
  BY <1>2, <1>3, <1>4, <1>5 DEF recoverFromStall, g, e

(* Initially every variable has its type.                                  *)
LEMMA TypeInit == Init => TypeOK
<1> SUFFICES ASSUME Init PROVE TypeOK
  OBVIOUS
<1>0. Renew \in Nat /\ 1 <= Renew /\ Renew <= Quiet /\ Quiet \in Nat /\ MaxRuns \in Nat
  BY ConstAssumption
<1>1. TableType
  <2>1. gap \in [Batches -> Gap]
    BY DEF Init, Gap, Terminals
  <2>2. ASSUME NEW b \in Batches
        PROVE  gap[b].attempts <= MethodCount[b] + 1 /\ gap[b].method <= MethodCount[b]
    <3>1. MethodCount[b] \in Nat
      BY ConstAssumption
    <3> QED
      BY <3>1 DEF Init
  <2> QED
    BY <2>1, <2>2 DEF TableType
<1>2. LoaderType
  BY <1>0 DEF Init, LoaderType
<1>3. AdaptiveType
  <2>1. /\ stalls \in 0 .. 2 /\ recovery \in BOOLEAN
        /\ debounce \in BOOLEAN /\ policyFresh \in BOOLEAN
    <3>1. stalls \in 0 .. 2
      BY DEF Init
    <3>2. recovery = (stalls = 2)
      BY DEF Init
    <3>3. recovery \in BOOLEAN
      BY <3>2
    <3>4. debounce \in BOOLEAN /\ policyFresh \in BOOLEAN
      BY DEF Init
    <3> QED
      BY <3>1, <3>3, <3>4
  <2>2. pause \in 0 .. Quiet
    BY <1>0 DEF Init
  <2> QED
    BY <2>1, <2>2 DEF AdaptiveType
<1>4. UploadType /\ TickType
  <2>1. /\ pending = {} /\ stuck = {} /\ acked = {} /\ received = {} /\ stored = {}
        /\ ticking = FALSE /\ todo = {}
    BY DEF Init
  <2>2. UploadType
    BY <2>1 DEF UploadType
  <2>3. TickType
    BY <2>1 DEF TickType
  <2> QED
    BY <2>2, <2>3
<1>5. PageType
  <2>1. heavy \in BOOLEAN /\ cool \in BOOLEAN
    BY DEF Init
  <2>2. polls \in 0 .. MaxPolls /\ inflight \in 0 .. polls /\ faults \in 0 .. MaxFaults
    BY ConstAssumption DEF Init
  <2> QED
    BY <2>1, <2>2 DEF PageType
<1> QED
  BY <1>1, <1>2, <1>3, <1>4, <1>5, TypeParts

(* Every step of the tick on one gap keeps the types.                      *)
LEMMA GapStepType ==
    ASSUME TypeOK, NEW b \in Batches, GapStep(b)
    PROVE  TypeOK'
<1>0. gap[b] \in Gap /\ gap[b].method <= MethodCount[b]
  BY DEF TypeOK
<1>1. TickType'
  BY DEF GapStep, GapSatisfied, GapHeld, GapLeft, SoftStall, HardTimeout, LoopC, tookGap,
         TypeOK, TickType
<1>2. UploadType' /\ PageType'
  <2>1. UNCHANGED <<upload, brain, page>>
    BY DEF GapStep, GapSatisfied, GapHeld, GapLeft, SoftStall, HardTimeout, LoopC
  <2> QED
    BY <2>1, Kept
<1>3. SUFFICES TableType' /\ LoaderType' /\ AdaptiveType'
  BY <1>1, <1>2 DEF TypeOK, TableType, LoaderType, AdaptiveType, UploadType, TickType, PageType
<1>4. CASE GapSatisfied(b)
  <2>1. gap' = [gap EXCEPT ![b] = [gap[b] EXCEPT !.landed = TRUE]]
    BY <1>4 DEF GapSatisfied, TypeOK
  <2>2. /\ [gap[b] EXCEPT !.landed = TRUE] \in Gap
        /\ [gap[b] EXCEPT !.landed = TRUE].attempts = gap[b].attempts
        /\ [gap[b] EXCEPT !.landed = TRUE].method = gap[b].method
    BY <1>0 DEF Gap
  <2>3. TableType'
    BY <1>0, <2>1, <2>2, RowType
  <2>4. recovery' \in BOOLEAN /\ pause' \in 0 .. Quiet /\ policyFresh' \in BOOLEAN
    <3>1. stalls \in Nat /\ 0 \in 0 .. Quiet
      BY ConstAssumption DEF TypeOK
    <3>2. CASE applyAdaptivePolicy(stalls, 0)
      BY <3>1, <3>2, PolicyType
    <3>3. CASE UNCHANGED <<recovery, pause, policyFresh>>
      BY <3>3 DEF TypeOK
    <3> QED
      BY <1>4, <3>2, <3>3 DEF GapSatisfied
  <2>5. AdaptiveType'
    BY <1>4, <2>4 DEF GapSatisfied, TypeOK, AdaptiveType
  <2> QED
    BY <1>4, <2>3, <2>5, Kept DEF GapSatisfied
<1>5. CASE GapHeld(b)
  BY <1>5, Kept DEF GapHeld
<1>6. CASE GapLeft(b)
  <2>1. LoaderType'
    BY <1>6 DEF GapLeft, refreshLocalPhase, TypeOK, LoaderType
  <2> QED
    BY <1>6, <2>1, Kept DEF GapLeft
<1>7. CASE SoftStall(b)
  <2> DEFINE r == [gap[b] EXCEPT !.softDone = TRUE]
  <2>1. r \in Gap /\ r.attempts = gap[b].attempts /\ r.method = gap[b].method
    BY <1>0 DEF Gap
  <2>2. kicked \in SUBSET Batches /\ elapsed[b] \in 0 .. 3
    BY DEF TypeOK
  <2>3. CASE recoverFromStall(b, r, kicked, elapsed[b])
    <3> HIDE DEF r
    <3> QED
      BY <2>1, <2>2, <2>3, RecoverType
  <2>4. CASE gap' = [gap EXCEPT ![b].softDone = TRUE] /\ UNCHANGED <<adaptive, loader>>
    <3>1. gap' = [gap EXCEPT ![b] = r]
      BY <2>4 DEF TypeOK
    <3>2. TableType'
      <4> HIDE DEF r
      <4> QED
        BY <1>0, <2>1, <3>1, RowType
    <3> QED
      BY <2>4, <3>2, Kept
  <2> QED
    BY <1>7, <2>3, <2>4 DEF SoftStall
<1>8. CASE HardTimeout(b)
  <2> DEFINE r == [gap[b] EXCEPT !.softDone = FALSE]
  <2>1. r \in Gap /\ r.attempts = gap[b].attempts /\ r.method = gap[b].method
    BY <1>0 DEF Gap
  <2>2. kicked \ {b} \in SUBSET Batches /\ 0 \in 0 .. 3
    BY DEF TypeOK
  <2>3. recoverFromStall(b, r, kicked \ {b}, 0)
    BY <1>8 DEF HardTimeout
  <2> HIDE DEF r
  <2> QED
    BY <2>1, <2>2, <2>3, RecoverType
<1>9. CASE LoopC(b)
  <2>1. CASE willKick(b, gap[b]) /\ kickCollect(b, gap[b]) /\ UNCHANGED adaptive
    BY <1>0, <2>1, KickType, Kept
  <2>2. CASE /\ pause' \in {pause, Quiet}
             /\ UNCHANGED <<gap, loader, stalls, recovery, debounce, policyFresh>>
    <3>1. AdaptiveType'
      BY <2>2, ConstAssumption DEF TypeOK, AdaptiveType
    <3> QED
      BY <2>2, <3>1, Kept
  <2> QED
    BY <1>9, <2>1, <2>2 DEF LoopC
<1> QED
  BY <1>4, <1>5, <1>6, <1>7, <1>8, <1>9 DEF GapStep

(* So do the upload's steps.                                               *)
LEMMA UploadStepType ==
    ASSUME TypeOK, NEW b \in Batches, NEW v \in BOOLEAN,
           UploadStep(b, v) \/ UploadLost(b, v)
    PROVE  TypeOK'
<1>1. UploadType'
  <2>1. CASE Land(b, v)
    BY <2>1 DEF Land, leaves, TypeOK, UploadType
  <2>2. CASE Unverified(b, v)
    BY <2>2 DEF Unverified, leaves, TypeOK, UploadType
  <2>3. CASE UploadLost(b, v)
    BY <2>3 DEF UploadLost, TypeOK, UploadType
  <2> QED
    BY <2>1, <2>2, <2>3 DEF UploadStep
<1>2. PageType'
  <2>1. CASE UploadStep(b, v)
    BY <2>1, Kept DEF UploadStep, Land, Unverified, leaves
  <2>2. CASE UploadLost(b, v)
    BY <2>2, ConstAssumption DEF UploadLost, TypeOK, PageType, brain
  <2> QED
    BY <2>1, <2>2
<1>3. TableType' /\ LoaderType' /\ AdaptiveType' /\ TickType'
  BY Kept DEF UploadStep, Land, Unverified, leaves, UploadLost
<1> QED
  BY <1>1, <1>2, <1>3
     DEF TypeOK, TableType, LoaderType, AdaptiveType, UploadType, TickType, PageType

(* And the loader's.                                                       *)
LEMMA CollectType ==
    ASSUME TypeOK, NEW b \in Batches, NEW v \in BOOLEAN,
           CollectOk(b) \/ CollectEmpty(b, v) \/ CollectFail(b) \/ LateCapture(b)
    PROVE  TypeOK'
<1>0. MaxRuns \in Nat
  BY ConstAssumption
<1>1. CASE ends(b)
  <2>1. runs' \in [Batches -> 0 .. MaxRuns]
    <3>1. runs[b] \in 0 .. MaxRuns /\ runs[b] > 0 /\ runs' = [runs EXCEPT ![b] = runs[b] - 1]
      BY <1>1 DEF ends, TypeOK
    <3>2. runs[b] - 1 \in 0 .. MaxRuns
      BY <1>0, <3>1
    <3> QED
      BY <3>1, <3>2 DEF TypeOK
  <2>2. kicked' \subseteq Batches /\ late' \subseteq Batches
    BY DEF CollectOk, CollectEmpty, CollectFail, LateCapture, TypeOK
  <2>3. LoaderType'
    BY <1>1, <2>1, <2>2 DEF ends, TypeOK, LoaderType
  <2>4. UploadType'
    <3>1. CASE CollectOk(b)
      BY <3>1 DEF CollectOk, capture, TypeOK, UploadType
    <3>2. CASE LateCapture(b)
      BY <3>2 DEF LateCapture, capture, TypeOK, UploadType
    <3>3. CASE UNCHANGED upload
      BY <3>3, Kept
    <3> QED
      BY <3>1, <3>2, <3>3 DEF CollectEmpty, CollectFail
  <2>5. TableType' /\ AdaptiveType' /\ TickType' /\ PageType'
    BY <1>1, Kept DEF ends
  <2> QED
    BY <2>3, <2>4, <2>5
       DEF TypeOK, TableType, LoaderType, AdaptiveType, UploadType, TickType, PageType
<1>2. CASE LateCapture(b)
  <2>1. UploadType'
    BY <1>2 DEF LateCapture, capture, TypeOK, UploadType
  <2>2. LoaderType'
    BY <1>2 DEF LateCapture, TypeOK, LoaderType
  <2>3. TableType' /\ AdaptiveType' /\ TickType' /\ PageType'
    BY <1>2, Kept DEF LateCapture
  <2> QED
    BY <2>1, <2>2, <2>3
       DEF TypeOK, TableType, LoaderType, AdaptiveType, UploadType, TickType, PageType
<1> QED
  BY <1>1, <1>2 DEF CollectOk, CollectEmpty, CollectFail

(* An answer of the brain changes the table by rows and the loader by runs.*)
LEMMA MergedRow ==
    ASSUME TypeOK, NEW c \in Batches, NEW rec, NEW packs, NEW forced
    PROVE  /\ merged(c, rec, packs, forced) \in Gap
           /\ merged(c, rec, packs, forced).attempts = gap[c].attempts
           /\ merged(c, rec, packs, forced).method = gap[c].method
           /\ merged(c, rec, packs, forced).landed = gap[c].landed
           /\ merged(c, rec, packs, forced).seen => gap[c].seen \/ c \in rec
<1>1. PICK g \in Gap : g = gap[c]
  BY DEF TypeOK
<1>2. PICK k \in BOOLEAN, s \in BOOLEAN :
         /\ merged(c, rec, packs, forced) = [g EXCEPT !.known = k, !.seen = s]
         /\ s => g.seen \/ c \in rec
  BY <1>1 DEF merged, Gap
<1>3. /\ [g EXCEPT !.known = k, !.seen = s] \in Gap
      /\ [g EXCEPT !.known = k, !.seen = s].attempts = g.attempts
      /\ [g EXCEPT !.known = k, !.seen = s].method = g.method
      /\ [g EXCEPT !.known = k, !.seen = s].landed = g.landed
      /\ [g EXCEPT !.known = k, !.seen = s].seen = s
  BY DEF Gap
<1> QED
  BY <1>1, <1>2, <1>3

LEMMA PollType ==
    ASSUME TypeOK, NEW rec, NEW packs \in SUBSET Batches, NEW forced \in SUBSET packs,
           PollAnswer(rec, packs, forced)
    PROVE  TypeOK'
<1>1. gap' = [c \in Batches |-> merged(c, rec, packs, forced)]
  BY DEF PollAnswer
<1>2. TableType'
  BY <1>1, MergedRow DEF TypeOK, TableType
<1>3. LoaderType'
  <2>1. ASSUME NEW allowed \in SUBSET forced,
               starts(planRuns(packs, allowed)), kicked' = kicked \ allowed
        PROVE  LoaderType'
    <3>1. planRuns(packs, allowed) \in SUBSET Batches
      BY DEF planRuns
    <3>2. /\ runs' \in [Batches -> 0 .. MaxRuns] /\ age' \in [Batches -> 0 .. 2]
          /\ late' \subseteq Batches
      BY <2>1, <3>1, StartsType
    <3> QED
      BY <2>1, <3>2 DEF PollAnswer, TypeOK, LoaderType
  <2>2. CASE UNCHANGED <<kicked, runs, late, age>>
    BY <2>2 DEF PollAnswer, TypeOK, LoaderType
  <2> QED
    BY <2>1, <2>2 DEF PollAnswer
<1>4. PageType'
  BY DEF PollAnswer, TypeOK, PageType, page
<1>5. AdaptiveType' /\ UploadType' /\ TickType'
  BY Kept DEF PollAnswer
<1> QED
  BY <1>2, <1>3, <1>4, <1>5
     DEF TypeOK, TableType, LoaderType, AdaptiveType, UploadType, TickType, PageType

(* Every step keeps the types.                                             *)
LEMMA TypeStep == TypeOK /\ [Next]_vars => TypeOK'
<1> SUFFICES ASSUME TypeOK, [Next]_vars PROVE TypeOK'
  OBVIOUS
<1>0. TableType' /\ LoaderType' /\ AdaptiveType' /\ UploadType' /\ TickType' /\ PageType' => TypeOK'
  BY DEF TypeOK, TableType, LoaderType, AdaptiveType, UploadType, TickType, PageType
<1>1. CASE TickStart
  <2>1. stalls \in Nat /\ pause \in 0 .. Quiet
    BY DEF TypeOK
  <2>2. recovery' \in BOOLEAN /\ pause' \in 0 .. Quiet /\ policyFresh' \in BOOLEAN
    <3>1. CASE applyAdaptivePolicy(stalls, pause)
      BY <2>1, <3>1, PolicyType
    <3>2. CASE UNCHANGED <<recovery, pause, policyFresh>>
      BY <3>2 DEF TypeOK
    <3> QED
      BY <1>1, <3>1, <3>2 DEF TickStart
  <2>3. TickType'
    BY <1>1 DEF TickStart, TickType
  <2>4. AdaptiveType'
    BY <1>1, <2>2 DEF TickStart, TypeOK, AdaptiveType
  <2> QED
    BY <1>0, <1>1, <2>3, <2>4, Kept DEF TickStart
<1>2. CASE TickEnd
  <2>1. PageType'
    BY <1>2, ConstAssumption DEF TickEnd, TypeOK, PageType, brain, page
  <2>2. TickType'
    BY <1>2 DEF TickEnd, TypeOK, TickType
  <2> QED
    BY <1>0, <1>2, <2>1, <2>2, Kept DEF TickEnd
<1>3. CASE PollFails
  <2>1. PageType'
    BY <1>3 DEF PollFails, TypeOK, PageType, page
  <2> QED
    BY <1>0, <1>3, <2>1, Kept DEF PollFails
<1>4. CASE Elapse
  <2>1. LoaderType'
    <3>1. age' \in [Batches -> 0 .. 2]
      BY <1>4 DEF Elapse, TypeOK
    <3>2. since' \in [Batches -> 0 .. 2]
      BY <1>4 DEF Elapse, TypeOK
    <3>3. elapsed' \in [Batches -> 0 .. 3]
      BY <1>4 DEF Elapse, TypeOK
    <3> QED
      BY <1>4, <3>1, <3>2, <3>3 DEF Elapse, TypeOK, LoaderType
  <2>2. pause' \in 0 .. Quiet
    <3>1. pause \in 0 .. Quiet /\ Quiet \in Nat /\ pause' = IF pause > 0 THEN pause - 1 ELSE 0
      BY <1>4, ConstAssumption DEF Elapse, TypeOK
    <3> QED
      BY <3>1
  <2>3. AdaptiveType'
    BY <1>4, <2>2 DEF Elapse, TypeOK, AdaptiveType
  <2> QED
    BY <1>0, <1>4, <2>1, <2>3, Kept DEF Elapse
<1>5. CASE RoleChange
  <2>1. PageType'
    BY <1>5, ConstAssumption DEF RoleChange, TypeOK, PageType, brain
  <2> QED
    BY <1>0, <1>5, <2>1, Kept DEF RoleChange
<1>6. CASE Cool
  <2>1. PageType'
    BY <1>6, ConstAssumption DEF Cool, TypeOK, PageType, brain
  <2> QED
    BY <1>0, <1>6, <2>1, Kept DEF Cool
<1>7. ASSUME NEW b \in Batches, GapStep(b) PROVE TypeOK'
  BY <1>7, GapStepType
<1>8. ASSUME NEW b \in Batches, CollectOk(b) \/ CollectFail(b) \/ LateCapture(b) PROVE TypeOK'
  <2>1. TRUE \in BOOLEAN
    OBVIOUS
  <2> QED
    BY <1>8, <2>1, CollectType
<1>9. ASSUME NEW b \in Batches, NEW v \in BOOLEAN, CollectEmpty(b, v) PROVE TypeOK'
  BY <1>9, CollectType
<1>10. ASSUME NEW b \in Batches, NEW v \in BOOLEAN, UploadStep(b, v) \/ UploadLost(b, v)
       PROVE  TypeOK'
  BY <1>10, UploadStepType
<1>11. ASSUME NEW rec \in SUBSET claimable, NEW packs \in SUBSET Batches,
              NEW forced \in SUBSET packs, PollAnswer(rec, packs, forced)
       PROVE  TypeOK'
  BY <1>11, PollType
<1>12. CASE UNCHANGED vars
  BY <1>0, <1>12, Kept DEF vars
<1> QED
  BY <1>1, <1>2, <1>3, <1>4, <1>5, <1>6, <1>7, <1>8, <1>9, <1>10, <1>11, <1>12 DEF Next

(* The supervisor's state is well typed; the bound on attempts is the      *)
(* budget of the method matrix, which no interleaving of stalls, recoveries*)
(* and route plans exceeds.                                                *)
THEOREM TypeCorrect == Spec => []TypeOK
BY TypeInit, TypeStep, PTL DEF Spec

----------------------------------------------------------------------------
(* There is ground for taking the batch for done: it was answered or taken *)
(* by the browser, it is stored, or a pack of its family is.               *)
grounded(b) == b \in received \cup stored \/ (b = B10 /\ stored \cap Deepen # {})

(* The invariant: the table's two marks both have their ground.  The mark  *)
(* `seen` is needed because it makes a batch landed later.                 *)
Believed == \A b \in Batches : gap[b].seen \/ gap[b].landed => grounded(b)

(* A step that withdraws no ground and marks only what has one.            *)
LEMMA BelievedKept ==
    ASSUME Believed, received \subseteq received', stored \subseteq stored',
           \A c \in Batches : gap'[c].seen \/ gap'[c].landed =>
                                 gap[c].seen \/ gap[c].landed \/ grounded(c)
    PROVE  Believed'
<1> SUFFICES ASSUME NEW c \in Batches, gap'[c].seen \/ gap'[c].landed
             PROVE  grounded(c)'
  BY DEF Believed
<1>1. grounded(c)
  BY DEF Believed
<1> QED
  BY <1>1 DEF grounded

(* A row that is replaced with the same marks.                             *)
LEMMA RowBelieved ==
    ASSUME TypeOK, Believed, NEW b \in Batches, NEW g,
           g.seen = gap[b].seen, g.landed = gap[b].landed,
           gap' = [gap EXCEPT ![b] = g], UNCHANGED upload
    PROVE  Believed'
<1>1. \A c \in Batches : gap'[c].seen = gap[c].seen /\ gap'[c].landed = gap[c].landed
  BY DEF TypeOK
<1> QED
  BY <1>1, BelievedKept DEF upload

LEMMA KickBelieved ==
    ASSUME TypeOK, Believed, NEW b \in Batches, NEW g \in Gap,
           g.seen = gap[b].seen, g.landed = gap[b].landed,
           kickCollect(b, g), UNCHANGED upload
    PROVE  Believed'
<1> DEFINE h == [g EXCEPT !.attempts = @ + 1, !.softDone = FALSE]
<1>1. h.seen = gap[b].seen /\ h.landed = gap[b].landed /\ gap' = [gap EXCEPT ![b] = h]
  BY DEF kickCollect, Gap
<1> HIDE DEF h
<1> QED
  BY <1>1, RowBelieved

LEMMA RecoverBelieved ==
    ASSUME TypeOK, Believed, NEW b \in Batches, NEW row \in Gap,
           row.method = gap[b].method, row.seen = gap[b].seen, row.landed = gap[b].landed,
           NEW mark, NEW clock, recoverFromStall(b, row, mark, clock), UNCHANGED upload
    PROVE  Believed'
<1> DEFINE m == IF row.method < MethodCount[b] THEN row.method + 1 ELSE MethodCount[b]
           g == [row EXCEPT !.method = m]
           t == IF b = B10 THEN "degrade" ELSE "skipped_method"
           e == [g EXCEPT !.terminal = t]
<1>0. row.method <= MethodCount[b]
  BY DEF TypeOK
<1>1. /\ g \in Gap /\ g.seen = row.seen /\ g.landed = row.landed
      /\ e.seen = row.seen /\ e.landed = row.landed
  BY <1>0, RecoverRow
<1>2. \/ gap' = [gap EXCEPT ![b] = row]
      \/ gap' = [gap EXCEPT ![b] = e]
      \/ kickCollect(b, g)
      \/ gap' = [gap EXCEPT ![b] = g]
  <2> HIDE DEF g, e
  <2> QED
    BY DEF recoverFromStall, g, e
<1> HIDE DEF g, e
<1> QED
  BY <1>1, <1>2, RowBelieved, KickBelieved

(* What the supervisor finds satisfied has its ground.                     *)
LEMMA SatisfiedGrounded ==
    ASSUME TypeOK, Believed, NEW b \in Batches, isSatisfied(b)
    PROVE  grounded(b)
BY DEF TypeOK, Believed, isSatisfied, grounded

LEMMA GapStepBelieved ==
    ASSUME TypeOK, Believed, NEW b \in Batches, GapStep(b)
    PROVE  Believed'
<1>0. gap[b] \in Gap /\ gap \in [Batches -> Gap]
  BY DEF TypeOK
<1>1. UNCHANGED upload
  BY DEF GapStep, GapSatisfied, GapHeld, GapLeft, SoftStall, HardTimeout, LoopC
<1>2. CASE GapSatisfied(b)
  <2>1. grounded(b)
    BY <1>2, SatisfiedGrounded DEF GapSatisfied
  <2>2. gap' = [gap EXCEPT ![b].landed = TRUE]
    BY <1>2 DEF GapSatisfied
  <2>3. ASSUME NEW c \in Batches, gap'[c].seen \/ gap'[c].landed
        PROVE  gap[c].seen \/ gap[c].landed \/ grounded(c)
    BY <1>0, <2>1, <2>2, <2>3 DEF Gap
  <2> QED
    BY <1>1, <2>3, BelievedKept DEF upload
<1>3. CASE UNCHANGED gap
  BY <1>1, <1>3, BelievedKept DEF upload
<1>4. CASE SoftStall(b)
  <2> DEFINE r == [gap[b] EXCEPT !.softDone = TRUE]
  <2>1. /\ r \in Gap /\ r.method = gap[b].method
        /\ r.seen = gap[b].seen /\ r.landed = gap[b].landed
    BY <1>0 DEF Gap
  <2>2. recoverFromStall(b, r, kicked, elapsed[b]) \/ gap' = [gap EXCEPT ![b] = r]
    BY <1>0, <1>4 DEF SoftStall
  <2> HIDE DEF r
  <2> QED
    BY <1>1, <2>1, <2>2, RowBelieved, RecoverBelieved
<1>5. CASE HardTimeout(b)
  <2> DEFINE r == [gap[b] EXCEPT !.softDone = FALSE]
  <2>1. /\ r \in Gap /\ r.method = gap[b].method
        /\ r.seen = gap[b].seen /\ r.landed = gap[b].landed
    BY <1>0 DEF Gap
  <2>2. recoverFromStall(b, r, kicked \ {b}, 0)
    BY <1>5 DEF HardTimeout
  <2> HIDE DEF r
  <2> QED
    BY <1>1, <2>1, <2>2, RecoverBelieved
<1>6. CASE kickCollect(b, gap[b])
  BY <1>0, <1>1, <1>6, KickBelieved
<1> QED
  BY <1>2, <1>3, <1>4, <1>5, <1>6 DEF GapStep, GapHeld, GapLeft, LoopC

LEMMA BelievedStep == TypeOK /\ Believed /\ [Next]_vars => Believed'
<1> SUFFICES ASSUME TypeOK, Believed, [Next]_vars PROVE Believed'
  OBVIOUS
<1>1. ASSUME UNCHANGED gap, received \subseteq received', stored \subseteq stored'
      PROVE  Believed'
  BY <1>1, BelievedKept
<1>2. CASE TickStart \/ TickEnd \/ PollFails \/ Elapse \/ RoleChange \/ Cool
  BY <1>1, <1>2 DEF TickStart, TickEnd, PollFails, Elapse, RoleChange, Cool, upload
<1>3. ASSUME NEW b \in Batches, GapStep(b) PROVE Believed'
  BY <1>3, GapStepBelieved
<1>4. ASSUME NEW b \in Batches, CollectOk(b) \/ CollectFail(b) \/ LateCapture(b)
      PROVE  Believed'
  BY <1>1, <1>4 DEF CollectOk, CollectFail, LateCapture, ends, upload
<1>5. ASSUME NEW b \in Batches, NEW v \in BOOLEAN,
             CollectEmpty(b, v) \/ UploadStep(b, v) \/ UploadLost(b, v)
      PROVE  Believed'
  BY <1>1, <1>5 DEF CollectEmpty, ends, upload, UploadStep, Land, Unverified, leaves, UploadLost
<1>6. ASSUME NEW rec \in SUBSET claimable, NEW packs \in SUBSET Batches,
             NEW forced \in SUBSET packs, PollAnswer(rec, packs, forced)
      PROVE  Believed'
  <2>1. gap' = [c \in Batches |-> merged(c, rec, packs, forced)]
    BY <1>6 DEF PollAnswer
  <2>2. ASSUME NEW c \in Batches, gap'[c].seen \/ gap'[c].landed
        PROVE  gap[c].seen \/ gap[c].landed \/ grounded(c)
    <3>1. gap[c].seen \/ gap[c].landed \/ c \in rec
      BY <2>1, <2>2, MergedRow
    <3>2. c \in claimable => grounded(c)
      BY DEF claimable, grounded
    <3> QED
      BY <3>1, <3>2
  <2> QED
    BY <1>6, <2>2, BelievedKept DEF PollAnswer, upload
<1>7. CASE UNCHANGED vars
  BY <1>1, <1>7 DEF vars, upload
<1> QED
  BY <1>2, <1>3, <1>4, <1>5, <1>6, <1>7 DEF Next

LEMMA BelievedInit == Init => Believed
BY DEF Init, Believed

(* What the supervisor's table calls landed was answered, taken by the     *)
(* browser or stored, or for B10 a pack of its family is: a kick, a late or*)
(* outdated answer, a forced recollect, a hung or empty collect or an      *)
(* upload given up is never enough, for any batches and any plans.         *)
THEOREM LandedNotOnlyKicked == Spec => []NeverOnlyKicked
<1>1. Believed => NeverOnlyKicked
  BY DEF Believed, NeverOnlyKicked, grounded
<1> QED
  BY <1>1, TypeCorrect, BelievedInit, BelievedStep, PTL DEF Spec

=============================================================================
