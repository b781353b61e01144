-------------------------- MODULE UploadQueueProofs --------------------------
(***************************************************************************)
(* For any batches, cycles, answers, budgets and caps: the upload queue is *)
(* well typed, its counters agree with what is on the wire, and a blocked  *)
(* queue is empty of what it may not send.                                 *)
(*                                                                         *)
(* The counters only agree because a capture is in one place at a time     *)
(* (OnePlace): were a capture both pending and on the wire, its second     *)
(* start would count a slot without a new row.  Captures change under the  *)
(* properties that quantify over them, so every step is first shown to     *)
(* keep the batch of each capture (CapStep).                               *)
(***************************************************************************)
EXTENDS UploadQueue, FiniteSetTheorems, TLAPS

(* A sequence updated in place is a sequence of the same length.           *)
LEMMA SameLength ==
    ASSUME NEW S, NEW s \in Seq(S), NEW t \in [DOMAIN s -> S]
    PROVE  t \in Seq(S) /\ Len(t) = Len(s) /\ DOMAIN t = DOMAIN s
<1>1. DOMAIN s = 1 .. Len(s) /\ Len(s) \in Nat
  OBVIOUS
<1> QED
  BY <1>1

CapOK == captures \in Seq(Item) /\ Len(captures) <= MaxCaptures

CapStep ==
    /\ captures' \in Seq(Item) /\ Len(captures') <= MaxCaptures
    /\ DOMAIN captures \subseteq DOMAIN captures'
    /\ \A c \in DOMAIN captures : batchOf(c)' = batchOf(c)

(* Steps that leave the captures alone, and those that update them in      *)
(* place.                                                                  *)
LEMMA CapSame ==
    ASSUME CapOK, UNCHANGED captures
    PROVE  CapStep
BY DEF CapOK, CapStep, batchOf

LEMMA CapUpdate ==
    ASSUME CapOK, captures' \in [DOMAIN captures -> Item],
           \A c \in DOMAIN captures : captures'[c].b = captures[c].b
    PROVE  CapStep
BY SameLength DEF CapOK, CapStep, batchOf

LEMMA ItemFields ==
    ASSUME NEW it \in Item
    PROVE  /\ it.b \in Batches /\ it.s \in Sessions /\ it.k \in Keys /\ it.waits \in Nat
           /\ it.g \in Nat /\ it.start \in BOOLEAN /\ <<it.s, it.b>> \in Keys
BY DEF Item, Keys

LEMMA KeyOfType ==
    ASSUME CapOK, NEW c \in DOMAIN captures
    PROVE  /\ captures[c] \in Item
           /\ keyOf(c) \in Keys
           /\ batchOf(c) \in Batches
<1>1. captures[c] \in Item
  BY DEF CapOK
<1> QED
  BY <1>1, ItemFields DEF keyOf, batchOf

(* One capture is rewritten; its batch stays.                              *)
LEMMA CapReplace ==
    ASSUME CapOK, NEW c \in DOMAIN captures, NEW it \in Item,
           it.b = captures[c].b, captures' = [captures EXCEPT ![c] = it]
    PROVE  CapStep
<1>1. captures \in [DOMAIN captures -> Item]
  BY DEF CapOK
<1>2. captures' \in [DOMAIN captures -> Item]
  BY <1>1
<1>3. \A d \in DOMAIN captures : captures'[d].b = captures[d].b
  BY <1>1
<1> QED
  BY <1>2, <1>3, CapUpdate

(* The captures under startUpload, retryOrGiveUp, handleError, undefer,    *)
(* Enqueue and Supersede.                                                  *)
LEMMA CapStart ==
    ASSUME CapOK, NEW c \in DOMAIN captures, startUpload(c)
    PROVE  CapStep
<1>1. captures[c] \in Item /\ keyOf(c) \in Keys
  BY KeyOfType
<1>2. captures' = [captures EXCEPT ![c] = [captures[c] EXCEPT !.k = keyOf(c)]]
  BY DEF startUpload
<1>3. [captures[c] EXCEPT !.k = keyOf(c)] \in Item
      /\ [captures[c] EXCEPT !.k = keyOf(c)].b = captures[c].b
  BY <1>1 DEF Item
<1> QED
  BY <1>2, <1>3, CapReplace

LEMMA CapRetry ==
    ASSUME CapOK, session \in Sessions, NEW c \in DOMAIN captures, NEW kind,
           retryOrGiveUp(c, kind)
    PROVE  CapStep
<1> DEFINE it == captures[c]
           seal == kind \in SealKinds
           waits == IF seal THEN it.waits + 1 ELSE it.waits
<1>1. it \in Item
  BY KeyOfType
<1> DEFINE cap == IF seal THEN atLeast(MaxAttempts[it.b], SealCap) ELSE MaxAttempts[it.b]
           real == IF seal /\ ~(kind = "wasm" /\ waits >= 2) /\ attempts[it.k] > 0
                   THEN attempts[it.k] - 1 ELSE attempts[it.k]
           tries == IF kind = "large" THEN atLeast(real, cap)
                    ELSE IF seal /\ waits < SealWaitMax /\ real >= cap THEN cap - 1
                    ELSE real
           again == atLeast(tries, 1) < cap \/ (seal /\ waits < SealWaitMax)
           s == IF seal THEN session ELSE it.s
           d == seal /\ again
<1>2. captures' = [captures EXCEPT ![c] =
                      [it EXCEPT !.waits = waits, !.s = s, !.deferred = d]]
  BY DEF retryOrGiveUp
<1>3. waits \in Nat /\ s \in Sessions
  <2>1. it.waits \in Nat /\ it.s \in Sessions
    BY <1>1, ItemFields
  <2> HIDE DEF it
  <2> QED
    BY <2>1
<1>4. d \in BOOLEAN
  OBVIOUS
<1> HIDE DEF it, waits, s, d
<1>5. [it EXCEPT !.waits = waits, !.s = s, !.deferred = d] \in Item
      /\ [it EXCEPT !.waits = waits, !.s = s, !.deferred = d].b = it.b
  BY <1>1, <1>3, <1>4 DEF Item
<1> QED
  BY <1>2, <1>5, CapReplace DEF it

LEMMA CapError ==
    ASSUME CapOK, session \in Sessions, NEW c \in DOMAIN captures, NEW kind, NEW t,
           handleError(c, kind, t)
    PROVE  CapStep
<1>1. CASE UNCHANGED captures
  BY <1>1, CapSame
<1>2. CASE retryOrGiveUp(c, kind)
  BY <1>2, CapRetry
<1> QED
  BY <1>1, <1>2 DEF handleError

LEMMA CapUndefer ==
    ASSUME CapOK, NEW P, captures' = undefer(P)
    PROVE  CapStep
<1>1. ASSUME NEW c \in DOMAIN captures
      PROVE  captures'[c] \in Item /\ captures'[c].b = captures[c].b
  <2>1. captures[c] \in Item
    BY KeyOfType
  <2>2. captures'[c] = IF c \in P THEN [captures[c] EXCEPT !.deferred = FALSE] ELSE captures[c]
    BY DEF undefer
  <2> QED
    BY <2>1, <2>2 DEF Item
<1>2. captures' \in [DOMAIN captures -> Item]
  BY <1>1 DEF undefer
<1> QED
  BY <1>1, <1>2, CapUpdate

LEMMA CapEnqueue ==
    ASSUME CapOK, MaxCaptures \in Nat, session \in Sessions, NEW b \in Batches, NEW mode, NEW start \in BOOLEAN,
           Enqueue(b, mode, start)
    PROVE  /\ CapStep
           /\ Len(captures) + 1 \in DOMAIN captures'
           /\ Len(captures) + 1 \notin DOMAIN captures
           /\ captures'[Len(captures) + 1].b = b
<1>1. PICK it \in Item : captures' = Append(captures, it) /\ it.b = b
  <2> DEFINE it == [b |-> b, s |-> session, g |-> IF mode # "plain" THEN 2 ELSE 1,
                 start |-> start, k |-> <<session, b>>, deferred |-> FALSE, waits |-> 0]
  <2>1. it \in Item /\ it.b = b
    BY DEF Item, Keys
  <2>2. captures' = Append(captures, it)
    BY DEF Enqueue
  <2> QED
    BY <2>1, <2>2
<1>2. Len(captures) < MaxCaptures /\ Len(captures) \in Nat /\ captures \in Seq(Item)
  BY DEF Enqueue, CapOK
<1>3. captures' \in Seq(Item) /\ Len(captures') = Len(captures) + 1
      /\ DOMAIN captures' = 1 .. Len(captures) + 1
  BY <1>1, <1>2
<1>4. Len(captures') <= MaxCaptures
  BY <1>2, <1>3
<1>5. \A c \in DOMAIN captures : captures'[c] = captures[c]
  BY <1>1, <1>2
<1>6. captures'[Len(captures) + 1] = it
  BY <1>1, <1>2
<1> QED
  BY <1>1, <1>2, <1>3, <1>4, <1>5, <1>6 DEF CapStep, batchOf

LEMMA CapSupersede ==
    ASSUME CapOK, NEW to \in Sessions, Supersede(to)
    PROVE  CapStep
<1> DEFINE kept == {c \in pending : captures[c].s = to}
           new(c) == IF c \notin kept THEN captures[c]
                     ELSE [captures[c] EXCEPT !.deferred = FALSE,
                              !.s = IF c \in {x \in kept : captures[x].s = session} THEN to ELSE @]
<1>1. captures' = [c \in DOMAIN captures |-> new(c)]
  BY DEF Supersede
<1>2. ASSUME NEW c \in DOMAIN captures
      PROVE  new(c) \in Item /\ new(c).b = captures[c].b
  <2>1. captures[c] \in Item /\ captures[c].s \in Sessions
    BY KeyOfType, ItemFields
  <2>2. CASE c \notin kept
    BY <2>1, <2>2
  <2>3. CASE c \in kept
    <3> DEFINE s == IF c \in {x \in kept : captures[x].s = session} THEN to ELSE captures[c].s
    <3>1. s \in Sessions
      BY <2>1
    <3>2. new(c) = [captures[c] EXCEPT !.deferred = FALSE, !.s = s]
      <4>1. new(c) = [captures[c] EXCEPT !.deferred = FALSE,
                        !.s = IF c \in {x \in kept : captures[x].s = session} THEN to ELSE @]
        BY <2>3
      <4> QED
        BY <4>1, <2>1 DEF Item
    <3> HIDE DEF s, new
    <3> QED
      BY <2>1, <3>1, <3>2 DEF Item
  <2> QED
    BY <2>2, <2>3
<1> HIDE DEF new
<1>3. captures' \in [DOMAIN captures -> Item]
  BY <1>1, <1>2
<1>4. \A c \in DOMAIN captures : captures'[c].b = captures[c].b
  BY <1>1, <1>2
<1> QED
  BY <1>3, <1>4, CapUpdate

AfterOK == pc = "finish" => after # <<>>

LEMMA Consts ==
    /\ MaxCaptures \in Nat /\ RowCap \in Nat /\ RowCap >= 1 /\ ConcurrencyMax \in Nat /\ ConcurrencyMax >= 1
    /\ HeavyMax \in Nat /\ HeavyMax >= 1 /\ SealCap \in Nat /\ SealCap >= 1
    /\ SealWaitMax \in Nat /\ MaxFaults \in Nat /\ MaxEvents \in Nat
    /\ \A b \in Batches : MaxAttempts[b] \in Nat /\ MaxAttempts[b] >= 1
BY UploadAssumption

(* Sets of captures are finite: the collectors hand in finitely many.      *)
LEMMA FiniteRows ==
    ASSUME TypeOK, NEW S \in SUBSET DOMAIN captures
    PROVE  IsFiniteSet(S) /\ Cardinality(S) \in Nat
<1>1. DOMAIN captures = 1 .. Len(captures) /\ Len(captures) \in Nat
  BY DEF TypeOK
<1>2. IsFiniteSet(1 .. Len(captures))
  BY <1>1, FS_Interval
<1> QED
  BY <1>1, <1>2, FS_Subset, FS_CardinalityType

(* queuePending adds nothing but the capture it is given.                  *)
LEMMA QueueAdds ==
    ASSUME NEW P, NEW c, NEW caps
    PROVE  queuePending(P, c, caps) \subseteq P \cup {c}
BY DEF queuePending

(* What settle does to the rows: c leaves all of them, and the counter     *)
(* does not exceed the rows that are left.                                 *)
LEMMA SettleRows ==
    ASSUME TypeOK, NEW c \in wire, settle(c)
    PROVE  /\ wire' = wire \ {c} /\ sealing' = sealing \ {c}
           /\ inflightItems' \subseteq inflightItems \ {c}
           /\ inflight' \in Nat /\ inflight' <= Cardinality(inflightItems')
           /\ heavyInflight' = IF isHeavyBatch(batchOf(c)) /\ heavyInflight > 0
                               THEN heavyInflight - 1 ELSE heavyInflight
           /\ heavyInflight' \in Nat
<1> DEFINE gone == {i \in inflightItems : i = c \/ keyOf(i) = keyOf(c)}
           rest == Cardinality(inflightItems \ gone)
           left == IF inflight > Cardinality(gone) THEN inflight - Cardinality(gone) ELSE 0
<1>1. inflightItems' = inflightItems \ gone /\ inflight' = IF left > rest THEN rest ELSE left
  BY DEF settle, removeInflightItem
<1>2. gone \in SUBSET DOMAIN captures /\ inflightItems \ gone \in SUBSET DOMAIN captures
  BY DEF TypeOK
<1>3. Cardinality(gone) \in Nat /\ rest \in Nat
  BY <1>2, FiniteRows
<1>4. inflight \in Nat /\ heavyInflight \in Nat
  BY DEF TypeOK
<1>5. left \in Nat
  <2> HIDE DEF gone
  <2> QED BY <1>3, <1>4
<1>6. inflightItems' \subseteq inflightItems \ {c}
  BY <1>1
<1>7. inflight' \in Nat /\ inflight' <= Cardinality(inflightItems')
  <2> HIDE DEF left, gone
  <2> QED BY <1>1, <1>3, <1>5
<1>8. wire' = wire \ {c} /\ sealing' = sealing \ {c}
      /\ heavyInflight' = IF isHeavyBatch(batchOf(c)) /\ heavyInflight > 0
                          THEN heavyInflight - 1 ELSE heavyInflight
  BY DEF settle
<1> QED
  BY <1>4, <1>6, <1>7, <1>8

(* The rows and counters of the transport, as far as their types go.       *)
WireType ==
    /\ wire \subseteq DOMAIN captures /\ inflightItems \subseteq DOMAIN captures
    /\ sealing \subseteq wire /\ aborted \subseteq wire
    /\ inflight \in Nat /\ heavyInflight \in Nat

QueueType == pending \subseteq DOMAIN captures /\ retry \subseteq DOMAIN captures

LedgerType ==
    /\ attempts \in [Keys -> Nat]
    /\ sentKeys \subseteq Keys /\ received \subseteq Batches
    /\ batchesOk \subseteq Batches /\ batchesStarted \subseteq Batches
    /\ recollectUsed \subseteq Batches

PageType ==
    /\ session \in Sessions
    /\ haltState \in Sessions \cup {NoSession}
    /\ flags \in [halt : BOOLEAN, closed : BOOLEAN, stop : BOOLEAN]
    /\ page \in [hiding : BOOLEAN, unloading : BOOLEAN]
    /\ quiet \subseteq {"soft", "deepen", "rpa"}
    /\ wake \in BOOLEAN

PumpType ==
    /\ pc \in {"idle", "pump", "loop", "finish"}
    /\ conc \in 0..ConcurrencyMax
    /\ after \in {<<>>} \cup (Replies \X Sessions \X Batches)
    /\ pc = "finish" => after # <<>>
    /\ faults \in 0..MaxFaults /\ events \in 0..MaxEvents

LEMMA TypeParts ==
    TypeOK /\ AfterOK <=> /\ CapOK /\ WireType /\ QueueType /\ OnePlace
                          /\ LedgerType /\ PageType /\ PumpType
BY DEF TypeOK, AfterOK, CapOK, WireType, QueueType, LedgerType, PageType, PumpType

(* applyHalt sets well typed values and only drops from the queue.         *)
LEMMA HaltTypes ==
    ASSUME TypeOK, CapStep, NEW s \in Sessions, NEW rest, applyHalt(s, rest)
    PROVE  /\ haltState' \in Sessions \cup {NoSession}
           /\ flags' \in [halt : BOOLEAN, closed : BOOLEAN, stop : BOOLEAN]
           /\ pending' \subseteq pending
           /\ wake' \in BOOLEAN /\ aborted' = rest
BY DEF applyHalt, TypeOK

LEMMA Attempts ==
    ASSUME TypeOK, NEW k \in Keys, NEW n \in Nat, attempts' = [attempts EXCEPT ![k] = n]
    PROVE  attempts' \in [Keys -> Nat]
BY DEF TypeOK

(* retryOrGiveUp keeps the attempts natural, and puts c into the queue or  *)
(* behind a timer, never both.                                             *)
LEMMA RetryTypes ==
    ASSUME TypeOK, NEW c \in DOMAIN captures, NEW kind, retryOrGiveUp(c, kind)
    PROVE  /\ attempts' \in [Keys -> Nat] /\ sentKeys' \subseteq sentKeys
           /\ pending' \subseteq pending \cup {c} /\ retry' \subseteq retry \cup {c}
           /\ c \notin pending => c \notin pending' \/ retry' = retry
           /\ quiet' \subseteq {"soft", "deepen", "rpa"}
           /\ pc' = "pump" /\ conc' = 0 /\ after' = after
<1> DEFINE it == captures[c]
           seal == kind \in SealKinds
           waits == IF seal THEN it.waits + 1 ELSE it.waits
           cap == IF seal THEN atLeast(MaxAttempts[it.b], SealCap) ELSE MaxAttempts[it.b]
           real == IF seal /\ ~(kind = "wasm" /\ waits >= 2) /\ attempts[it.k] > 0
                   THEN attempts[it.k] - 1 ELSE attempts[it.k]
           tries == IF kind = "large" THEN atLeast(real, cap)
                    ELSE IF seal /\ waits < SealWaitMax /\ real >= cap THEN cap - 1
                    ELSE real
           again == atLeast(tries, 1) < cap \/ (seal /\ waits < SealWaitMax)
<1>1. it.b \in Batches /\ it.k \in Keys /\ it.waits \in Nat
  BY KeyOfType, ItemFields DEF TypeOK, CapOK
<1>2. attempts' = [attempts EXCEPT ![it.k] = tries]
  BY DEF retryOrGiveUp
<1>3. tries \in Nat
  <2>1. cap \in Nat /\ cap >= 1
    <3> HIDE DEF it
    <3> QED BY <1>1, Consts DEF atLeast
  <2>2. attempts[it.k] \in Nat
    BY <1>1 DEF TypeOK
  <2>3. real \in Nat
    <3> HIDE DEF it, waits, seal
    <3> QED BY <2>2
  <2> HIDE DEF it, waits, seal, cap, real
  <2> QED BY <2>1, <2>3 DEF atLeast
<1>4. attempts' \in [Keys -> Nat]
  <2> HIDE DEF it, tries
  <2> QED BY <1>1, <1>2, <1>3, Attempts
<1>5. /\ sentKeys' = IF clearsSentKey(it.b, kind) THEN sentKeys \ {it.k} ELSE sentKeys
      /\ pending' = IF again /\ seal THEN queuePending(pending, c, captures') ELSE pending
      /\ retry' = IF again /\ ~seal THEN retry \cup {c} ELSE retry
      /\ IF again /\ seal THEN UNCHANGED quiet
                          ELSE recordFail(it.b, kind, ~again)
      /\ pc' = "pump" /\ conc' = 0 /\ after' = after
  BY DEF retryOrGiveUp, goPump
<1> HIDE DEF it, seal, waits, cap, real, tries, again
<1>6. quiet' \subseteq {"soft", "deepen", "rpa"}
  <2>1. CASE UNCHANGED quiet
    BY <2>1 DEF TypeOK
  <2>2. CASE recordFail(it.b, kind, ~again)
    BY <2>2 DEF recordFail, TypeOK
  <2> QED BY <1>5, <2>1, <2>2
<1>7. pending' \subseteq pending \cup {c} /\ retry' \subseteq retry \cup {c}
      /\ (c \notin pending => c \notin pending' \/ retry' = retry)
  BY <1>5, QueueAdds
<1> QED
  BY <1>4, <1>5, <1>6, <1>7

(* The transport, the queue and what holds between them.                   *)
Rows == WireType /\ QueueType /\ OnePlace /\ SlotsReturned /\ HeavySerial

(* The batches on the wire are those of the state before.                  *)
LEMMA HeavyAfter ==
    ASSUME CapStep, wire' \subseteq DOMAIN captures
    PROVE  heavyOnWire' = {c \in wire' : isHeavyBatch(batchOf(c))}
BY DEF heavyOnWire, CapStep

(* Rows is kept when the transport is left alone and one capture x that    *)
(* is neither on the wire nor behind a timer may join the queue.           *)
LEMMA RowsRest ==
    ASSUME TypeOK, Rows, CapStep,
           UNCHANGED <<wire, inflightItems, inflight, heavyInflight>>,
           sealing' \subseteq sealing, aborted' \subseteq wire,
           NEW x, x \in DOMAIN captures' \/ pending' \subseteq pending, 
           x \notin wire, pending' \subseteq pending \cup {x}, retry' \subseteq retry,
           x \notin retry' \/ pending' \subseteq pending
    PROVE  Rows'
<1>1. heavyOnWire' = heavyOnWire
  <2>1. wire \subseteq DOMAIN captures
    BY DEF TypeOK
  <2> QED BY <2>1, HeavyAfter DEF heavyOnWire
<1>2. SlotsReturned' /\ HeavySerial'
  BY <1>1 DEF Rows, SlotsReturned, HeavySerial
<1>3. OnePlace'
  BY DEF Rows, OnePlace
<1>4. WireType' /\ QueueType'
  BY DEF Rows, WireType, QueueType, CapStep
<1> QED
  BY <1>2, <1>3, <1>4 DEF Rows

(* Rows is kept when an upload settles, whatever its handler does with     *)
(* it.                                                                     *)
LEMMA RowsSettle ==
    ASSUME TypeOK, Rows, CapStep, NEW c \in wire, settle(c), aborted' \subseteq wire \ {c},
           pending' \subseteq pending \cup {c}, retry' \subseteq retry \cup {c},
           c \notin pending' \/ retry' = retry
    PROVE  Rows'
<1>0. c \notin pending /\ c \notin retry /\ wire \subseteq DOMAIN captures
  BY DEF Rows, OnePlace, TypeOK
<1>1. heavyOnWire' = heavyOnWire \ {c}
  BY <1>0, SettleRows, HeavyAfter DEF heavyOnWire
<1>2. IsFiniteSet(heavyOnWire) /\ Cardinality(heavyOnWire) \in Nat
  <2>1. heavyOnWire \in SUBSET DOMAIN captures
    BY <1>0 DEF heavyOnWire
  <2> QED BY <2>1, FiniteRows
<1>3. HeavySerial'
  <2>0. /\ heavyInflight <= Cardinality(heavyOnWire) /\ heavyInflight <= HeavyMax
        /\ HeavyMax = 1 => heavyInflight = Cardinality(heavyOnWire)
        /\ heavyInflight \in Nat
    BY DEF Rows, HeavySerial, WireType
  <2>1. CASE isHeavyBatch(batchOf(c))
    <3>1. c \in heavyOnWire
      BY <2>1 DEF heavyOnWire
    <3>2. Cardinality(heavyOnWire \ {c}) = Cardinality(heavyOnWire) - 1
          /\ Cardinality(heavyOnWire \ {c}) \in Nat
      BY <3>1, <1>2, FS_RemoveElement, FS_CardinalityType
    <3>3. heavyInflight' = IF heavyInflight > 0 THEN heavyInflight - 1 ELSE heavyInflight
      BY <2>1, SettleRows
    <3> QED BY <1>1, <2>0, <3>2, <3>3, <1>2, Consts DEF HeavySerial
  <2>2. CASE ~isHeavyBatch(batchOf(c))
    <3>1. heavyOnWire \ {c} = heavyOnWire
      BY <2>2 DEF heavyOnWire
    <3> QED BY <1>1, <2>0, <2>2, <3>1, SettleRows DEF HeavySerial
  <2> QED BY <2>1, <2>2
<1>4. SlotsReturned'
  <2>1. inflightItems \subseteq wire
    BY DEF Rows, SlotsReturned
  <2> QED BY <2>1, SettleRows DEF SlotsReturned
<1>5. OnePlace'
  BY <1>0, SettleRows DEF Rows, OnePlace
<1>6. WireType' /\ QueueType'
  BY <1>0, SettleRows DEF Rows, WireType, QueueType, CapStep
<1> QED
  BY <1>3, <1>4, <1>5, <1>6 DEF Rows

(* Rows is kept when pump starts an upload within the heavy cap.           *)
LEMMA RowsStart ==
    ASSUME TypeOK, Rows, CapStep, NEW c \in pending, startUpload(c), ~heavyFull(c),
           UNCHANGED retry
    PROVE  Rows'
<1>0. c \notin wire /\ c \notin retry /\ wire \subseteq DOMAIN captures /\ c \in DOMAIN captures
      /\ inflightItems \subseteq wire
  BY DEF Rows, OnePlace, TypeOK, SlotsReturned
<1>1. /\ pending' = pending \ {c} /\ wire' = wire \cup {c} /\ sealing' = sealing \cup {c}
      /\ inflightItems' = inflightItems \cup {c} /\ inflight' = inflight + 1
      /\ heavyInflight' = IF isHeavyBatch(batchOf(c)) THEN heavyInflight + 1
                                                      ELSE heavyInflight
      /\ aborted' = aborted
  BY DEF startUpload, postOne
<1>2. heavyOnWire' = heavyOnWire \cup (IF isHeavyBatch(batchOf(c)) THEN {c} ELSE {})
  BY <1>0, <1>1, HeavyAfter DEF heavyOnWire
<1>3. IsFiniteSet(heavyOnWire) /\ Cardinality(heavyOnWire) \in Nat
      /\ IsFiniteSet(inflightItems) /\ Cardinality(inflightItems) \in Nat
  <2>1. heavyOnWire \in SUBSET DOMAIN captures /\ inflightItems \in SUBSET DOMAIN captures
    BY <1>0 DEF heavyOnWire
  <2> QED BY <2>1, FiniteRows
<1>4. HeavySerial'
  <2>0. /\ heavyInflight <= Cardinality(heavyOnWire) /\ heavyInflight <= HeavyMax
        /\ HeavyMax = 1 => heavyInflight = Cardinality(heavyOnWire)
        /\ heavyInflight \in Nat
    BY DEF Rows, HeavySerial, WireType
  <2>1. CASE isHeavyBatch(batchOf(c))
    <3>1. c \notin heavyOnWire
      BY <1>0 DEF heavyOnWire
    <3>2. Cardinality(heavyOnWire \cup {c}) = Cardinality(heavyOnWire) + 1
      BY <3>1, <1>3, FS_AddElement
    <3>3. heavyInflight < HeavyMax
      BY <2>0, <2>1, <1>3, Consts DEF heavyFull
    <3> QED BY <1>1, <1>2, <1>3, <2>0, <2>1, <3>2, <3>3, Consts DEF HeavySerial
  <2>2. CASE ~isHeavyBatch(batchOf(c))
    BY <1>1, <1>2, <2>0, <2>2 DEF HeavySerial
  <2> QED BY <2>1, <2>2
<1>5. SlotsReturned'
  <2>1. Cardinality(inflightItems \cup {c}) = Cardinality(inflightItems) + 1
    BY <1>0, <1>3, FS_AddElement
  <2>2. inflight <= Cardinality(inflightItems) /\ inflight \in Nat
    BY DEF Rows, SlotsReturned, TypeOK
  <2> QED BY <1>0, <1>1, <1>3, <2>1, <2>2 DEF SlotsReturned
<1>6. OnePlace'
  BY <1>0, <1>1 DEF Rows, OnePlace
<1>7. WireType' /\ QueueType'
  <2>1. DOMAIN captures \subseteq DOMAIN captures'
    BY DEF CapStep
  <2>2. inflight' \in Nat /\ heavyInflight' \in Nat
    BY <1>1 DEF TypeOK
  <2> QED BY <1>0, <1>1, <2>1, <2>2 DEF Rows, WireType, QueueType
<1> QED
  BY <1>4, <1>5, <1>6, <1>7 DEF Rows

(* Rows is kept when pump prunes the rows and clamps the counter.          *)
LEMMA RowsClamp ==
    ASSUME TypeOK, Rows, PumpEnter
    PROVE  Rows'
<1>1. UNCHANGED <<captures, pending, retry, wire, sealing, aborted>>
  BY DEF PumpEnter, queueVars
<1>2. /\ inflightItems \in SUBSET DOMAIN captures /\ inflight \in Nat /\ heavyInflight \in Nat
      /\ inflight <= Cardinality(inflightItems)
  BY DEF TypeOK, Rows, SlotsReturned
<1>3. inflightItems' \subseteq inflightItems
  BY DEF PumpEnter, pruneStaleInflight
<1>4. Cardinality(inflightItems) \in Nat /\ Cardinality(inflightItems') \in Nat
  BY <1>2, <1>3, FiniteRows
<1>5. inflight' \in Nat /\ inflight' <= Cardinality(inflightItems')
  <2> DEFINE rows == Cardinality(inflightItems')
             slots == IF stale THEN atMost(inflight, rows) ELSE inflight
  <2>1. slots \in Nat /\ slots <= rows
    <3>1. CASE stale
      BY <1>2, <1>4, <3>1 DEF atMost
    <3>2. CASE ~stale
      <4>1. inflightItems' = inflightItems
        BY <3>2, <1>4, Consts DEF PumpEnter, pruneStaleInflight, stale
      <4> QED BY <1>2, <3>2, <4>1
    <3> QED BY <3>1, <3>2
  <2>2. \/ inflight' = slots
        \/ /\ conc' \in 1 .. ConcurrencyMax
           /\ inflight' = IF slots > conc' THEN atMost(rows, conc') ELSE slots
    BY DEF PumpEnter, effectiveUploadCap
  <2>3. rows \in Nat
    BY <1>4
  <2> HIDE DEF slots, rows
  <2>4. CASE inflight' = slots
    BY <2>1, <2>4 DEF rows
  <2>5. CASE conc' \in 1 .. ConcurrencyMax
             /\ inflight' = IF slots > conc' THEN atMost(rows, conc') ELSE slots
    <3>1. conc' \in Nat
      BY <2>5, Consts
    <3>2. inflight' \in Nat /\ inflight' <= rows
      BY <2>1, <2>3, <2>5, <3>1 DEF atMost
    <3> QED BY <3>2 DEF rows
  <2> QED BY <2>2, <2>4, <2>5
<1>6. heavyOnWire' = heavyOnWire
  BY <1>1 DEF heavyOnWire, batchOf
<1>7. HeavySerial' /\ heavyInflight' \in Nat
  <2>1. heavyInflight' = IF stale /\ heavyInflight > 1 THEN 1 ELSE heavyInflight
    BY DEF PumpEnter, pruneStaleInflight
  <2>2. heavyOnWire \in SUBSET DOMAIN captures
    BY DEF heavyOnWire, TypeOK
  <2>3. Cardinality(heavyOnWire) \in Nat
    BY <2>2, FiniteRows
  <2>4. /\ heavyInflight <= Cardinality(heavyOnWire) /\ heavyInflight <= HeavyMax
        /\ HeavyMax = 1 => heavyInflight = Cardinality(heavyOnWire)
    BY DEF Rows, HeavySerial
  <2>5. /\ heavyInflight' <= Cardinality(heavyOnWire) /\ heavyInflight' <= HeavyMax
        /\ HeavyMax = 1 => heavyInflight' = Cardinality(heavyOnWire)
        /\ heavyInflight' \in Nat
    BY <1>2, <2>1, <2>3, <2>4, Consts
  <2> QED BY <1>6, <2>5 DEF HeavySerial
<1>8. SlotsReturned' /\ OnePlace'
  BY <1>1, <1>3, <1>5 DEF Rows, SlotsReturned, OnePlace
<1>9. WireType' /\ QueueType'
  BY <1>1, <1>2, <1>3, <1>5, <1>7 DEF Rows, WireType, QueueType
<1> QED
  BY <1>7, <1>8, <1>9 DEF Rows

IInv == /\ CapOK /\ Rows /\ LedgerType /\ PageType /\ PumpType
        /\ HaltDrains

LEMMA IInvType == IInv => TypeOK /\ AfterOK
BY TypeParts DEF IInv, Rows

LEMMA CapStepOK == CapStep => CapOK'
BY DEF CapStep, CapOK

(* Nothing becomes blocked that was not.                                   *)
NotMoreBlocked ==
    /\ haltState' # NoSession => haltState # NoSession
    /\ flags'.halt => flags.halt
    /\ flags'.closed => flags.closed

(* What joins the queue is not blocked, and nothing becomes blocked.       *)
LEMMA DrainKeep ==
    ASSUME HaltDrains, CapStep, NotMoreBlocked, pending \subseteq DOMAIN captures, NEW x,
           pending' \subseteq pending \cup {x},
           pending' \subseteq pending \/ ~uploadsBlocked(batchOf(x)')
    PROVE  HaltDrains'
<1>1. \A b : uploadsBlocked(b)' => uploadsBlocked(b)
  BY DEF uploadsBlocked, NotMoreBlocked, allowDespiteHalt
<1> SUFFICES ASSUME NEW c \in pending' PROVE ~uploadsBlocked(batchOf(c))'
  BY DEF HaltDrains
<1>2. CASE c \in pending
  <2>1. batchOf(c)' = batchOf(c)
    BY <1>2 DEF CapStep
  <2> QED BY <1>1, <1>2, <2>1 DEF HaltDrains
<1>3. CASE c \notin pending
  BY <1>1, <1>3
<1> QED BY <1>2, <1>3

(* A halt drains the queue of what it blocks.                              *)
LEMMA DrainHalt ==
    ASSUME CapStep, pending \subseteq DOMAIN captures, NEW s, NEW rest, applyHalt(s, rest)
    PROVE  HaltDrains'
<1> SUFFICES ASSUME NEW c \in pending' PROVE ~uploadsBlocked(batchOf(c))'
  BY DEF HaltDrains
<1>1. c \in pending /\ allowDespiteHalt(batchOf(c))
  BY DEF applyHalt
<1>2. batchOf(c)' = batchOf(c)
  BY <1>1 DEF CapStep
<1> QED BY <1>1, <1>2 DEF uploadsBlocked, allowDespiteHalt

(* Steps that leave the transport as it is and add nothing to the queue.   *)
LEMMA QuietStep ==
    ASSUME IInv, CapStep,
           UNCHANGED <<wire, inflightItems, inflight, heavyInflight>>,
           sealing' \subseteq sealing, aborted' \subseteq wire,
           pending' \subseteq pending, retry' \subseteq retry,
           NotMoreBlocked \/ HaltDrains',
           LedgerType', PageType', PumpType'
    PROVE  IInv'
<1>1. TypeOK /\ Rows /\ pending \subseteq DOMAIN captures
  BY IInvType DEF IInv, TypeOK
<1>2. Rows'
  <2>1. PICK x : x \notin wire
    <3>1. wire \subseteq DOMAIN captures /\ DOMAIN captures = 1 .. Len(captures)
      BY <1>1 DEF TypeOK
    <3>2. 0 \notin wire
      BY <3>1
    <3> QED BY <3>2
  <2> QED BY <1>1, <2>1, RowsRest
<1>3. HaltDrains'
  <2>1. CASE NotMoreBlocked
    BY <1>1, <2>1, DrainKeep DEF IInv
  <2> QED BY <2>1
<1> QED
  BY <1>2, <1>3, CapStepOK DEF IInv

-----------------------------------------------------------------------------
(* One lemma for each action.                                              *)

LEMMA FlagsLifted ==
    ASSUME NEW h \in BOOLEAN, NEW c \in BOOLEAN, NEW s \in BOOLEAN
    PROVE  [halt |-> h, closed |-> c, stop |-> s] \in [halt : BOOLEAN, closed : BOOLEAN, stop : BOOLEAN]
OBVIOUS

LEMMA StepSealReady ==
    ASSUME IInv, NEW c \in wire, SealReady(c)
    PROVE  IInv'
<1>1. CapOK /\ TypeOK /\ c \in DOMAIN captures /\ session \in Sessions
  BY IInvType DEF IInv, TypeOK
<1>2. CapStep
  <2>1. captures[c] \in Item /\ captures[c].s \in Sessions
    BY <1>1, KeyOfType, ItemFields
  <2>2. PICK s \in Sessions : captures' = [captures EXCEPT ![c] = [captures[c] EXCEPT !.s = s]]
    BY <1>1, <2>1 DEF SealReady
  <2>3. [captures[c] EXCEPT !.s = s] \in Item /\ [captures[c] EXCEPT !.s = s].b = captures[c].b
    BY <2>1 DEF Item
  <2> QED BY <1>1, <2>2, <2>3, CapReplace
<1>3. UNCHANGED <<session, pending, retry, wire, aborted, inflightItems, inflight,
                  heavyInflight, ledgerVars, haltVars, pageVars, pumpVars, received, boundVars>>
      /\ sealing' = sealing \ {c}
  BY DEF SealReady
<1>4. LedgerType' /\ PageType' /\ PumpType'
  BY <1>3 DEF IInv, LedgerType, PageType, PumpType, ledgerVars, haltVars, pageVars, pumpVars, boundVars
<1>5. NotMoreBlocked
  BY <1>3 DEF NotMoreBlocked, haltVars
<1>6. aborted' \subseteq wire
  BY <1>1, <1>3 DEF TypeOK
<1> QED
  BY <1>2, <1>3, <1>4, <1>5, <1>6, QuietStep

LEMMA StepFinishSuccess ==
    ASSUME IInv, FinishSuccess
    PROVE  IInv'
<1>1. CapOK /\ TypeOK /\ AfterOK
  BY IInvType DEF IInv
<1>2. UNCHANGED <<session, captures, retry, wire, sealing, inflightItems, inflight,
                  heavyInflight, ledgerVars, pageVars, boundVars>>
      /\ received' = received \cup {after[3]} /\ pc = "finish" /\ pc' = "pump" /\ conc' = 0 /\ after' = <<>>
  BY DEF FinishSuccess
<1>3. CapStep
  BY <1>1, <1>2, CapSame
<1>4. after[2] \in Sessions /\ after[3] \in Batches
  BY <1>1, <1>2 DEF AfterOK, TypeOK
<1>5. LedgerType' /\ PumpType'
  <2>1. 0 \in 0 .. ConcurrencyMax
    BY Consts
  <2> QED BY <1>2, <1>4, <2>1 DEF IInv, LedgerType, PumpType, ledgerVars, boundVars
<1>6. aborted' \subseteq wire /\ PageType' /\ pending' \subseteq pending /\ (NotMoreBlocked \/ HaltDrains')
  <2>1. CASE applyHalt(after[2], wire)
    <3>1. pending \subseteq DOMAIN captures
      BY <1>1 DEF TypeOK
    <3>2. HaltDrains'
      BY <1>3, <2>1, <3>1, DrainHalt
    <3>3. PageType'
      BY <1>1, <1>2, <1>3, <1>4, <2>1, HaltTypes DEF IInv, PageType, pageVars
    <3>4. aborted' = wire /\ pending' \subseteq pending
      BY <1>1, <1>3, <1>4, <2>1, HaltTypes
    <3> QED BY <3>2, <3>3, <3>4
  <2>2. CASE noHalt /\ UNCHANGED <<pending, aborted>>
    <3>1. PageType'
      BY <1>2, <2>2 DEF IInv, PageType, pageVars, noHalt
    <3>2. NotMoreBlocked
      BY <2>2 DEF noHalt, NotMoreBlocked
    <3> QED BY <1>1, <2>2, <3>1, <3>2 DEF TypeOK
  <2> QED BY <2>1, <2>2 DEF FinishSuccess
<1> QED
  BY <1>2, <1>3, <1>5, <1>6, QuietStep

LEMMA StepTimers ==
    ASSUME IInv, HaltTimer \/ Kick \/ \E q \in quiet : QuietEnds(q)
    PROVE  IInv'
<1>1. CapOK /\ TypeOK /\ 0 \in 0 .. ConcurrencyMax
  BY IInvType, Consts DEF IInv
<1>2. UNCHANGED <<session, pending, retry, wireVars, ledgerVars, haltState, flags, page,
                  received, boundVars, after>>
      /\ wake' \in {wake, FALSE} /\ quiet' \subseteq quiet
      /\ (UNCHANGED <<pc, conc>> \/ (pc' = "pump" /\ conc' = 0))
  BY DEF HaltTimer, Kick, QuietEnds, queueVars, haltVars, pageVars, goPump, pumpVars
<1>3. CapStep
  <2>1. CASE UNCHANGED captures
    BY <1>1, <2>1, CapSame
  <2>2. CASE \E P : captures' = undefer(P)
    BY <1>1, <2>2, CapUndefer
  <2> QED BY <2>1, <2>2 DEF HaltTimer, Kick, QuietEnds, queueVars
<1>4. LedgerType' /\ PageType'
  BY <1>2 DEF IInv, LedgerType, PageType, ledgerVars
<1>5. PumpType'
  BY <1>1, <1>2 DEF IInv, PumpType, boundVars
<1>6. NotMoreBlocked
  BY <1>2 DEF NotMoreBlocked
<1>7. UNCHANGED <<wire, inflightItems, inflight, heavyInflight, sealing, aborted>>
      /\ aborted \subseteq wire
  BY <1>1, <1>2 DEF TypeOK, wireVars
<1> QED
  BY <1>2, <1>3, <1>4, <1>5, <1>6, <1>7, QuietStep

LEMMA StepSupersede ==
    ASSUME IInv, NEW to \in Sessions, Supersede(to)
    PROVE  IInv'
<1>1. CapOK /\ TypeOK /\ 0 \in 0 .. ConcurrencyMax
  BY IInvType, Consts DEF IInv
<1>2. CapStep
  BY <1>1, CapSupersede
<1>3. UNCHANGED <<retry, wireVars, wake, pageVars, faults, after>>
      /\ session' = to /\ received' = {} /\ batchesOk' = {} /\ batchesStarted' = {} /\ recollectUsed' = {}
      /\ sentKeys' = {} /\ attempts' = [k \in Keys |-> 0]
      /\ pending' \subseteq pending /\ pc' = "pump" /\ conc' = 0
  BY DEF Supersede, goPump
<1>4. haltState' \in {haltState, NoSession}
      /\ flags' \in {flags, [halt |-> FALSE, closed |-> FALSE, stop |-> FALSE]}
  BY DEF Supersede
<1>5. events' = events + 1 /\ events < MaxEvents
  BY DEF Supersede, event
<1>6. PageType'
  <2>1. FALSE \in BOOLEAN
    OBVIOUS
  <2>2. flags' \in [halt : BOOLEAN, closed : BOOLEAN, stop : BOOLEAN]
    <3>1. CASE flags' = flags
      BY <1>1, <3>1 DEF TypeOK
    <3>2. CASE flags' = [halt |-> FALSE, closed |-> FALSE, stop |-> FALSE]
      BY <2>1, <3>2, FlagsLifted, Zenon
    <3> QED BY <1>4, <3>1, <3>2
  <2> QED BY <1>3, <1>4, <2>2 DEF IInv, PageType, pageVars
<1>7. LedgerType'
  BY <1>3 DEF IInv, LedgerType
<1>8. PumpType'
  BY <1>1, <1>3, <1>5, Consts DEF IInv, PumpType
<1>9. NotMoreBlocked
  BY <1>4 DEF NotMoreBlocked
<1>10. UNCHANGED <<wire, inflightItems, inflight, heavyInflight, sealing, aborted>>
      /\ aborted \subseteq wire
  BY <1>1, <1>3 DEF TypeOK, wireVars
<1> QED
  BY <1>2, <1>3, <1>6, <1>7, <1>8, <1>9, <1>10, QuietStep

LEMMA StepCalls ==
    ASSUME IInv, \/ \E s \in Sessions : SealRefreshed(s)
                 \/ Resume \/ ClearStop \/ MarkVisible
                 \/ \E B \in SUBSET Batches : SeedSentKeys(B)
                 \/ \E b \in Batches : ClearSentKeys(b)
    PROVE  IInv'
<1>1. CapOK /\ TypeOK /\ 0 \in 0 .. ConcurrencyMax
  BY IInvType, Consts DEF IInv
<1>2. UNCHANGED <<captures, pending, retry, wireVars, wake, quiet, faults, after, attempts>>
      /\ (UNCHANGED <<pc, conc>> \/ (pc' = "pump" /\ conc' = 0))
      /\ events < MaxEvents /\ events' = events + 1
  BY DEF SealRefreshed, Resume, ClearStop, MarkVisible, SeedSentKeys, ClearSentKeys, event,
         goPump, queueVars, haltVars, pageVars, pumpVars, ledgerVars
<1>3. CapStep
  BY <1>1, <1>2, CapSame
<1>4. LedgerType'
  <2>1. CASE UNCHANGED <<sentKeys, batchesOk, batchesStarted, recollectUsed, received>>
    BY <1>2, <2>1 DEF IInv, LedgerType
  <2>2. ASSUME NEW B \in SUBSET Batches, SeedSentKeys(B)
        PROVE  LedgerType'
    <3>1. {session} \X B \subseteq Keys
      BY <1>1 DEF TypeOK, Keys
    <3> QED BY <2>2, <3>1 DEF SeedSentKeys, IInv, LedgerType
  <2>3. ASSUME NEW b \in Batches, ClearSentKeys(b)
        PROVE  LedgerType'
    BY <2>3 DEF ClearSentKeys, IInv, LedgerType
  <2> QED BY <2>1, <2>2, <2>3 DEF SealRefreshed, Resume, ClearStop, MarkVisible, ledgerVars
<1>5. PumpType'
  BY <1>1, <1>2, Consts DEF IInv, PumpType
<1>6. PageType' /\ NotMoreBlocked
  <2>1. session' \in Sessions
    BY <1>1 DEF SealRefreshed, Resume, ClearStop, MarkVisible, SeedSentKeys, ClearSentKeys, TypeOK
  <2>2. page' \in [hiding : BOOLEAN, unloading : BOOLEAN]
    BY <1>1 DEF SealRefreshed, Resume, ClearStop, MarkVisible, SeedSentKeys, ClearSentKeys,
                TypeOK, pageVars
  <2>3. haltState' \in {haltState, NoSession}
    BY DEF SealRefreshed, Resume, ClearStop, MarkVisible, SeedSentKeys, ClearSentKeys, haltVars
  <2>4. \/ flags' = flags
        \/ flags' = [flags EXCEPT !.halt = FALSE, !.closed = FALSE]
        \/ flags' = [flags EXCEPT !.halt = FALSE, !.stop = FALSE]
    BY DEF SealRefreshed, Resume, ClearStop, MarkVisible, SeedSentKeys, ClearSentKeys, haltVars
  <2>5. flags \in [halt : BOOLEAN, closed : BOOLEAN, stop : BOOLEAN]
    BY <1>1 DEF TypeOK
  <2>6. /\ flags' \in [halt : BOOLEAN, closed : BOOLEAN, stop : BOOLEAN]
        /\ flags'.halt => flags.halt
        /\ flags'.closed => flags.closed
    BY <2>4, <2>5
  <2> QED BY <1>2, <2>1, <2>2, <2>3, <2>4, <2>6 DEF IInv, PageType, NotMoreBlocked
<1>7. UNCHANGED <<wire, inflightItems, inflight, heavyInflight, sealing, aborted>>
      /\ aborted \subseteq wire
  BY <1>1, <1>2 DEF TypeOK, wireVars
<1> QED
  BY <1>2, <1>3, <1>4, <1>5, <1>6, <1>7, QuietStep

LEMMA StepHalts ==
    ASSUME IInv, Halt \/ Reconcile
    PROVE  IInv'
<1>1. CapOK /\ TypeOK /\ session \in Sessions /\ pending \subseteq DOMAIN captures
  BY IInvType DEF IInv, TypeOK
<1>2. UNCHANGED <<session, captures, retry, wire, sealing, inflightItems, inflight,
                  heavyInflight, ledgerVars, pageVars, pumpVars, received, faults>>
      /\ events < MaxEvents /\ events' = events + 1
  BY DEF Halt, Reconcile, event
<1>3. CapStep
  BY <1>1, <1>2, CapSame
<1>4. LedgerType' /\ PumpType'
  BY <1>2, Consts DEF IInv, LedgerType, PumpType, ledgerVars, pumpVars
<1>5. aborted' \subseteq wire /\ PageType' /\ pending' \subseteq pending /\ (NotMoreBlocked \/ HaltDrains')
  <2>1. CASE applyHalt(session, wire)
    <3>2. HaltDrains'
      BY <1>1, <1>3, <2>1, DrainHalt
    <3>3. PageType'
      BY <1>1, <1>2, <1>3, <2>1, HaltTypes DEF IInv, PageType, pageVars
    <3>4. aborted' = wire /\ pending' \subseteq pending
      BY <1>1, <1>3, <2>1, HaltTypes
    <3> QED BY <3>2, <3>3, <3>4
  <2>2. CASE UNCHANGED <<haltVars, pending, aborted>>
    <3>1. PageType' /\ NotMoreBlocked
      BY <1>2, <2>2 DEF IInv, PageType, pageVars, haltVars, NotMoreBlocked
    <3> QED BY <1>1, <2>2, <3>1 DEF TypeOK
  <2>3. CASE haltState' = NoSession /\ flags' = [flags EXCEPT !.closed = FALSE, !.stop = FALSE]
             /\ UNCHANGED <<wake, pending, aborted>>
    <3>1. flags \in [halt : BOOLEAN, closed : BOOLEAN, stop : BOOLEAN]
      BY <1>1 DEF TypeOK
    <3>2. flags' \in [halt : BOOLEAN, closed : BOOLEAN, stop : BOOLEAN]
          /\ flags'.halt = flags.halt /\ flags'.closed = FALSE
      BY <2>3, <3>1
    <3>3. PageType' /\ NotMoreBlocked
      BY <1>2, <2>3, <3>2 DEF IInv, PageType, pageVars, NotMoreBlocked
    <3> QED BY <1>1, <2>3, <3>3 DEF TypeOK
  <2> QED BY <2>1, <2>2, <2>3 DEF Halt, Reconcile
<1> QED
  BY <1>2, <1>3, <1>4, <1>5, QuietStep

LEMMA StepUnload ==
    ASSUME IInv, Unload
    PROVE  IInv'
<1>1. CapOK /\ TypeOK /\ 0 \in 0 .. ConcurrencyMax
  BY IInvType, Consts DEF IInv
<1>2. UNCHANGED <<session, captures, retry, wire, sealing, inflightItems, inflight,
                  heavyInflight, ledgerVars, haltVars, quiet, received, faults, after>>
      /\ events < MaxEvents /\ events' = events + 1
      /\ page' = [hiding |-> TRUE, unloading |-> TRUE] /\ pc' = "pump" /\ conc' = 0
  BY DEF Unload, event, goPump
<1>3. aborted' \subseteq aborted \cup wire /\ pending' \subseteq pending
  BY DEF Unload
<1>4. CapStep
  BY <1>1, <1>2, CapSame
<1>5. LedgerType' /\ PumpType'
  BY <1>1, <1>2, Consts DEF IInv, LedgerType, PumpType, ledgerVars
<1>6. page' \in [hiding : BOOLEAN, unloading : BOOLEAN]
  BY <1>2
<1>7. PageType' /\ NotMoreBlocked
  BY <1>2, <1>6 DEF IInv, PageType, haltVars, NotMoreBlocked
<1>8. aborted' \subseteq wire
  BY <1>1, <1>2, <1>3 DEF TypeOK
<1> QED
  BY <1>2, <1>3, <1>4, <1>5, <1>7, <1>8, QuietStep

(* Steps that put one capture, x, into the queue.                          *)
LEMMA QueueStep ==
    ASSUME IInv, CapStep, UNCHANGED <<wireVars, haltState, flags>>,
           NEW x \in DOMAIN captures', x \notin wire, x \notin retry', retry' \subseteq retry,
           pending' \subseteq pending \cup {x},
           pending' \subseteq pending \/ ~uploadsBlocked(batchOf(x)'),
           LedgerType', PageType', PumpType'
    PROVE  IInv'
<1>1. TypeOK /\ Rows /\ pending \subseteq DOMAIN captures /\ aborted \subseteq wire
  BY IInvType DEF IInv, TypeOK
<1>2. UNCHANGED <<wire, inflightItems, inflight, heavyInflight, sealing, aborted>>
  BY DEF wireVars
<1>3. Rows'
  BY <1>1, <1>2, RowsRest
<1>4. NotMoreBlocked
  BY DEF NotMoreBlocked
<1>5. HaltDrains'
  BY <1>1, <1>4, DrainKeep DEF IInv
<1> QED
  BY <1>3, <1>5, CapStepOK DEF IInv

LEMMA StepRetryTimer ==
    ASSUME IInv, NEW c \in retry, RetryTimer(c)
    PROVE  IInv'
<1>1. CapOK /\ TypeOK /\ 0 \in 0 .. ConcurrencyMax /\ c \in DOMAIN captures /\ c \notin wire
  <2>1. CapOK /\ TypeOK /\ OnePlace
    BY IInvType DEF IInv, Rows
  <2>2. c \in DOMAIN captures
    BY <2>1 DEF TypeOK
  <2>3. c \notin wire
    BY <2>1 DEF OnePlace
  <2> QED BY <2>1, <2>2, <2>3, Consts
<1>2. UNCHANGED <<session, captures, wireVars, ledgerVars, haltVars, pageVars, received, boundVars, after>>
      /\ retry' = retry \ {c}
      /\ (UNCHANGED <<pc, conc>> \/ (pc' = "pump" /\ conc' = 0))
  BY DEF RetryTimer, goPump, pumpVars
<1>3. CapStep
  BY <1>1, <1>2, CapSame
<1>4. LedgerType' /\ PageType' /\ PumpType'
  BY <1>1, <1>2 DEF IInv, LedgerType, PageType, PumpType, ledgerVars, haltVars, pageVars, boundVars
<1>5. pending' \subseteq pending \cup {c}
      /\ (pending' \subseteq pending \/ ~uploadsBlocked(batchOf(c)'))
  <2>1. batchOf(c)' = batchOf(c)
    BY <1>2 DEF batchOf
  <2> QED BY <2>1, QueueAdds DEF RetryTimer
<1>6. c \in DOMAIN captures' /\ UNCHANGED <<haltState, flags>>
  BY <1>1, <1>2 DEF haltVars
<1> QED
  BY <1>1, <1>2, <1>3, <1>4, <1>5, <1>6, QueueStep

LEMMA StepEnqueue ==
    ASSUME IInv, NEW b \in Batches, NEW mode, NEW start \in BOOLEAN, Enqueue(b, mode, start)
    PROVE  IInv'
<1>0. PICK c : c = Len(captures) + 1
  OBVIOUS
<1>1. CapOK /\ TypeOK /\ 0 \in 0 .. ConcurrencyMax /\ session \in Sessions /\ MaxCaptures \in Nat
  BY IInvType, Consts DEF IInv, TypeOK
<1>2. CapStep /\ c \in DOMAIN captures' /\ c \notin DOMAIN captures /\ captures'[c].b = b
  BY <1>0, <1>1, CapEnqueue
<1>3. UNCHANGED <<session, retry, wireVars, sentKeys, batchesOk, batchesStarted, recollectUsed,
                  haltVars, pageVars, received, boundVars, after>>
      /\ pc' = "pump" /\ conc' = 0 /\ ~uploadsBlocked(b)
      /\ pending' = queuePending(pending, c, captures')
      /\ \E grant \in BOOLEAN : budgetOpens(<<session, b>>, b, mode, grant)
  BY <1>0 DEF Enqueue, goPump
<1>4. attempts' \in [Keys -> Nat]
  <2>1. PICK grant \in BOOLEAN : budgetOpens(<<session, b>>, b, mode, grant)
    BY <1>3
  <2> DEFINE k == <<session, b>>
             cap == IF isElevated(b) THEN atLeast(MaxAttempts[b], SealCap) ELSE MaxAttempts[b]
             full == mode # "reset" /\ attempts[k] >= cap
             n == IF mode = "reset" THEN 0
                  ELSE IF ~full THEN attempts[k]
                  ELSE IF grant THEN minus(cap, 4) ELSE minus(cap, 5)
  <2>2. k \in Keys
    BY <1>1 DEF Keys
  <2>3. attempts[k] \in Nat /\ attempts \in [Keys -> Nat]
    BY <1>1, <2>2 DEF TypeOK
  <2>4. attempts' = [attempts EXCEPT ![k] = n]
    BY <2>1, <2>3 DEF budgetOpens
  <2>5. cap \in Nat
    BY Consts DEF atLeast
  <2>6. n \in Nat
    <3> HIDE DEF cap, k, full
    <3> QED BY <2>3, <2>5 DEF minus
  <2> HIDE DEF k, n
  <2> QED BY <1>1, <2>2, <2>4, <2>6, Attempts
<1>5. LedgerType' /\ PageType' /\ PumpType'
  BY <1>1, <1>3, <1>4 DEF IInv, LedgerType, PageType, PumpType, haltVars, pageVars, boundVars
<1>6. pending' \subseteq pending \cup {c}
  BY <1>3, QueueAdds
<1>7. ~uploadsBlocked(batchOf(c)')
  BY <1>2, <1>3 DEF batchOf
<1>8. c \notin wire /\ c \notin retry'
  BY <1>1, <1>2, <1>3 DEF TypeOK
<1>9. UNCHANGED <<haltState, flags>>
  BY <1>3 DEF haltVars
<1> QED
  BY <1>2, <1>3, <1>5, <1>6, <1>7, <1>8, <1>9, QueueStep

LEMMA StepPumpEnter ==
    ASSUME IInv, PumpEnter
    PROVE  IInv'
<1>1. CapOK /\ TypeOK /\ Rows
  BY IInvType DEF IInv
<1>2. UNCHANGED <<session, captures, pending, retry, ledgerVars, haltVars, pageVars, after,
                  received, boundVars>>
  BY DEF PumpEnter, queueVars
<1>3. CapStep
  BY <1>1, <1>2, CapSame
<1>4. Rows'
  BY <1>1, RowsClamp
<1>5. LedgerType' /\ PageType'
  BY <1>2 DEF IInv, LedgerType, PageType, ledgerVars, haltVars, pageVars
<1>6. PumpType'
  <2>1. conc' \in 0 .. ConcurrencyMax /\ pc' \in {"idle", "pump", "loop", "finish"}
        /\ (pc' = "finish" => after # <<>>)
    BY Consts DEF PumpEnter, leavePump, effectiveUploadCap
  <2> QED BY <1>2, <2>1 DEF IInv, PumpType, boundVars
<1>7. HaltDrains'
  BY <1>2 DEF IInv, HaltDrains, batchOf, uploadsBlocked, haltVars
<1> QED
  BY <1>3, <1>4, <1>5, <1>6, <1>7, CapStepOK DEF IInv

LEMMA StepPumpStep ==
    ASSUME IInv, PumpStep
    PROVE  IInv'
<1>1. CapOK /\ TypeOK /\ Rows /\ pending \subseteq DOMAIN captures
  BY IInvType DEF IInv, TypeOK
<1>2. UNCHANGED <<session, retry, sentKeys, batchesOk, batchesStarted, recollectUsed,
                  haltVars, pageVars, received, boundVars>>
  BY DEF PumpStep
<1>3. NotMoreBlocked /\ PageType'
  BY <1>2 DEF NotMoreBlocked, haltVars, pageVars, IInv, PageType
<1>4. ASSUME NEW c \in pending, startUpload(c), ~heavyFull(c)
      PROVE  IInv'
  <2>1. CapStep
    BY <1>1, <1>4, CapStart
  <2>2. Rows'
    BY <1>1, <1>2, <1>4, <2>1, RowsStart
  <2>3. keyOf(c) \in Keys
    BY <1>1, KeyOfType
  <2>4. LedgerType'
    <3>1. attempts' = [attempts EXCEPT ![keyOf(c)] = attempts[keyOf(c)] + 1]
      BY <1>4 DEF startUpload
    <3>2. attempts[keyOf(c)] + 1 \in Nat
      BY <1>1, <2>3 DEF TypeOK
    <3>3. attempts' \in [Keys -> Nat]
      BY <1>1, <2>3, <3>1, <3>2, Attempts
    <3> QED BY <1>2, <3>3 DEF IInv, LedgerType
  <2>5. PumpType' /\ pending' \subseteq pending
    BY <1>2, <1>4 DEF startUpload, pumpVars, boundVars, IInv, PumpType
  <2>6. HaltDrains'
    BY <1>1, <1>3, <2>1, <2>5, DrainKeep DEF IInv
  <2> QED BY <1>3, <2>1, <2>2, <2>4, <2>5, <2>6, CapStepOK DEF IInv
<1>5. ASSUME PumpBreak \/ \E c \in pending : PumpDrop(c)
      PROVE  IInv'
  <2>1. UNCHANGED <<captures, wireVars, attempts, after>> /\ pending' \subseteq pending
    BY <1>5 DEF PumpBreak, PumpDrop, pumpVars
  <2>2. CapStep
    BY <1>1, <2>1, CapSame
  <2>3. LedgerType'
    BY <1>2, <2>1 DEF IInv, LedgerType
  <2>4. PumpType'
    <3>1. UNCHANGED <<pc, conc>> \/ (conc' = 0 /\ pc' = IF after = <<>> THEN "idle" ELSE "finish")
      BY <1>5 DEF PumpBreak, PumpDrop, pumpVars, leavePump
    <3> QED BY <1>2, <2>1, <3>1, Consts DEF IInv, PumpType, boundVars
  <2>5. UNCHANGED <<wire, inflightItems, inflight, heavyInflight, sealing, aborted>>
        /\ aborted \subseteq wire
    BY <1>1, <2>1 DEF TypeOK, wireVars
  <2> QED BY <1>2, <1>3, <2>1, <2>2, <2>3, <2>4, <2>5, QuietStep
<1>6. \/ PumpBreak \/ \E c \in pending : PumpDrop(c)
      \/ \E c \in pending : startUpload(c) /\ ~heavyFull(c)
  BY DEF PumpStep, lights, heavyFull
<1> QED
  BY <1>4, <1>5, <1>6

(* A settled upload, whatever its handler does.                            *)
LEMMA SettleStep ==
    ASSUME IInv, CapStep, NEW c \in wire, settle(c), aborted' \subseteq wire \ {c},
           pending' \subseteq pending \cup {c}, retry' \subseteq retry \cup {c},
           c \notin pending' \/ retry' = retry,
           HaltDrains', LedgerType', PageType', PumpType'
    PROVE  IInv'
<1>1. Rows'
  BY IInvType, RowsSettle DEF IInv
<1> QED
  BY <1>1, CapStepOK DEF IInv

(* startUpload's failure handler, from each of its three callers.          *)
LEMMA StepError ==
    ASSUME IInv, NEW c \in wire, NEW kind, NEW t \in BOOLEAN, handleError(c, kind, t),
           received' = received, faults' \in 0 .. MaxFaults
    PROVE  IInv'
<1>1. CapOK /\ TypeOK /\ 0 \in 0 .. ConcurrencyMax /\ c \in DOMAIN captures
      /\ session \in Sessions /\ captures[c].s \in Sessions /\ c \notin pending
      /\ pending \subseteq DOMAIN captures /\ aborted \subseteq wire
  <2>1. CapOK /\ TypeOK /\ 0 \in 0 .. ConcurrencyMax /\ c \notin pending
    BY IInvType, Consts DEF IInv, Rows, OnePlace
  <2>2. c \in DOMAIN captures /\ session \in Sessions /\ pending \subseteq DOMAIN captures
        /\ aborted \subseteq wire
    BY <2>1 DEF TypeOK
  <2>3. captures[c].s \in Sessions
    BY <2>1, <2>2, KeyOfType, ItemFields
  <2> QED BY <2>1, <2>2, <2>3
<1>2. CapStep
  BY <1>1, CapError
<1>3. settle(c) /\ UNCHANGED <<session, batchesOk, batchesStarted, recollectUsed, page, events>>
  BY DEF handleError
<1>5. CASE applyHalt(captures[c].s, wire \ {c}) /\ goIdle
           /\ UNCHANGED <<captures, retry, attempts, sentKeys, quiet>>
  <2>1. HaltDrains'
    BY <1>1, <1>2, <1>5, DrainHalt
  <2>2. PageType' /\ aborted' = wire \ {c} /\ pending' \subseteq pending
    BY <1>1, <1>2, <1>3, <1>5, HaltTypes DEF IInv, PageType
  <2>3. LedgerType'
    BY <1>3, <1>5 DEF IInv, LedgerType
  <2>4. PumpType'
    BY <1>1, <1>3, <1>5 DEF goIdle, IInv, PumpType
  <2> QED BY <1>1, <1>2, <1>3, <1>5, <2>1, <2>2, <2>3, <2>4, SettleStep
<1>6. CASE noHalt /\ aborted' = aborted \ {c} /\ goIdle
           /\ UNCHANGED <<captures, pending, retry, attempts, sentKeys, quiet>>
  <2>1. NotMoreBlocked /\ PageType'
    BY <1>3, <1>6 DEF noHalt, NotMoreBlocked, IInv, PageType
  <2>2. HaltDrains'
    BY <1>1, <1>2, <1>6, <2>1, DrainKeep DEF IInv
  <2>3. LedgerType'
    BY <1>3, <1>6 DEF IInv, LedgerType
  <2>4. PumpType'
    BY <1>1, <1>3, <1>6 DEF goIdle, IInv, PumpType
  <2> QED BY <1>1, <1>2, <1>3, <1>6, <2>1, <2>2, <2>3, <2>4, SettleStep
<1>7. CASE noHalt /\ aborted' = aborted \ {c} /\ ~uploadsBlocked(batchOf(c))
           /\ retryOrGiveUp(c, kind)
  <2>0. /\ attempts' \in [Keys -> Nat] /\ sentKeys' \subseteq sentKeys
        /\ pending' \subseteq pending \cup {c} /\ retry' \subseteq retry \cup {c}
        /\ c \notin pending' \/ retry' = retry
        /\ quiet' \subseteq {"soft", "deepen", "rpa"}
        /\ pc' = "pump" /\ conc' = 0 /\ after' = after
    BY <1>1, <1>7, RetryTypes
  <2>1. NotMoreBlocked /\ PageType'
    BY <1>3, <1>7, <2>0 DEF noHalt, NotMoreBlocked, IInv, PageType
  <2>2. HaltDrains'
    <3>1. batchOf(c)' = batchOf(c)
      BY <1>1, <1>2 DEF CapStep
    <3> QED BY <1>1, <1>2, <1>7, <2>0, <2>1, <3>1, DrainKeep DEF IInv
  <2>3. LedgerType'
    BY <1>3, <2>0 DEF IInv, LedgerType
  <2>4. PumpType'
    BY <1>1, <1>3, <2>0 DEF IInv, PumpType
  <2> QED BY <1>1, <1>2, <1>3, <1>7, <2>0, <2>1, <2>2, <2>3, <2>4, SettleStep
<1> QED
  BY <1>5, <1>6, <1>7 DEF handleError

LEMMA StepFailures ==
    ASSUME IInv, NEW c \in wire, SealFail(c) \/ Fail(c) \/ Aborted(c)
    PROVE  IInv'
<1>1. TypeOK
  BY IInvType DEF IInv
<1>2. faults \in 0 .. MaxFaults
  BY <1>1 DEF TypeOK
<1>3. received' = received
  BY DEF SealFail, Fail, Aborted
<1>4. faults' \in 0 .. MaxFaults
  <2>1. faults' = faults \/ (faults < MaxFaults /\ faults' = faults + 1)
    BY DEF SealFail, Fail, Aborted
  <2> QED BY <1>2, <2>1, Consts
<1>5. CASE SealFail(c)
  <2>1. PICK kind : handleError(c, kind, FALSE)
    BY <1>5 DEF SealFail
  <2> QED BY <1>3, <1>4, <2>1, StepError
<1>6. CASE Fail(c)
  <2>1. PICK kind, t : handleError(c, kind, t) /\ t \in BOOLEAN
    <3>1. PICK kind \in HttpKinds :
             LET conv == page.unloading \/ flags.halt
             IN handleError(c, IF conv THEN "halted" ELSE kind,
                            conv /\ (haltState # NoSession \/ page.unloading))
      BY <1>6 DEF Fail
    <3> QED BY <3>1
  <2> QED BY <1>3, <1>4, <2>1, StepError
<1>7. CASE Aborted(c)
  <2>1. PICK kind, t : handleError(c, kind, t) /\ t \in BOOLEAN
    BY <1>7 DEF Aborted
  <2> QED BY <1>3, <1>4, <2>1, StepError
<1> QED
  BY <1>5, <1>6, <1>7

LEMMA StepBeacon ==
    ASSUME IInv, NEW c \in wire, Beacon(c)
    PROVE  IInv'
<1>1. CapOK /\ TypeOK /\ 0 \in 0 .. ConcurrencyMax /\ c \notin pending
  BY IInvType, Consts DEF IInv, Rows, OnePlace
<1>2. c \in DOMAIN captures /\ pending \subseteq DOMAIN captures /\ aborted \subseteq wire
  BY <1>1 DEF TypeOK
<1>3. /\ settle(c) /\ noHalt /\ aborted' = aborted \ {c} /\ goPump
      /\ UNCHANGED <<session, captures, pending, retry, ledgerVars, pageVars, boundVars>>
      /\ received' \subseteq received \cup {batchOf(c)}
  BY DEF Beacon, queueVars
<1>4. CapStep
  BY <1>1, <1>3, CapSame
<1>5. NotMoreBlocked /\ PageType'
  BY <1>3 DEF noHalt, NotMoreBlocked, IInv, PageType, pageVars
<1>6. HaltDrains'
  BY <1>2, <1>3, <1>4, <1>5, DrainKeep DEF IInv
<1>7. LedgerType'
  <2>1. batchOf(c) \in Batches
    BY <1>1, <1>2, KeyOfType
  <2> QED BY <1>3, <2>1 DEF IInv, LedgerType, ledgerVars
<1>8. PumpType'
  BY <1>1, <1>3 DEF goPump, IInv, PumpType, boundVars
<1> QED BY <1>1, <1>2, <1>3, <1>4, <1>5, <1>6, <1>7, <1>8, SettleStep

LEMMA StepAnswer ==
    ASSUME IInv, NEW c \in wire, NEW j \in Replies, Answer(c, j)
    PROVE  IInv'
<1>1. CapOK /\ TypeOK /\ 0 \in 0 .. ConcurrencyMax /\ c \notin pending
  BY IInvType, Consts DEF IInv, Rows, OnePlace
<1>2. c \in DOMAIN captures /\ pending \subseteq DOMAIN captures /\ aborted \subseteq wire
  BY <1>1 DEF TypeOK
<1>3. captures[c] \in Item /\ captures[c].s \in Sessions /\ captures[c].b \in Batches
      /\ captures[c].k \in Keys
  BY <1>1, <1>2, KeyOfType, ItemFields
<1>4. settle(c) /\ UNCHANGED <<session, captures, retry, pageVars, received, boundVars>>
  BY DEF Answer
<1>5. CapStep
  BY <1>1, <1>4, CapSame
<1>6. CASE applyHalt(captures[c].s, wire \ {c}) /\ (goPump \/ goIdle) /\ UNCHANGED ledgerVars
  <2>1. HaltDrains'
    BY <1>2, <1>5, <1>6, DrainHalt
  <2>2. PageType' /\ aborted' = wire \ {c} /\ pending' \subseteq pending
    BY <1>1, <1>3, <1>4, <1>5, <1>6, HaltTypes DEF IInv, PageType, pageVars
  <2>3. LedgerType'
    BY <1>4, <1>6 DEF IInv, LedgerType, ledgerVars
  <2>4. PumpType'
    BY <1>1, <1>4, <1>6 DEF goIdle, goPump, IInv, PumpType, boundVars
  <2> QED BY <1>2, <1>4, <1>5, <2>1, <2>2, <2>3, <2>4, SettleStep
<1>7. CASE noHalt /\ UNCHANGED pending /\ aborted' = aborted \ {c}
           /\ ((goPump /\ UNCHANGED ledgerVars) \/ recordAck(c, j))
  <2>1. NotMoreBlocked /\ PageType'
    BY <1>4, <1>7 DEF noHalt, NotMoreBlocked, IInv, PageType, pageVars
  <2>2. HaltDrains'
    BY <1>2, <1>5, <1>7, <2>1, DrainKeep DEF IInv
  <2>3. LedgerType' /\ PumpType'
    <3>1. CASE goPump /\ UNCHANGED ledgerVars
      <4>1. LedgerType'
        BY <1>4, <3>1 DEF IInv, LedgerType, ledgerVars
      <4>2. PumpType'
        BY <1>1, <1>4, <3>1 DEF goPump, IInv, PumpType, boundVars
      <4> QED BY <4>1, <4>2
    <3>2. CASE recordAck(c, j)
      <4>1. LedgerType'
        BY <1>3, <1>4, <3>2 DEF recordAck, IInv, LedgerType
      <4>2. PumpType'
        <5>1. after' = <<j, captures[c].s, captures[c].b>> /\ pc' \in {"pump", "finish"}
              /\ conc' = conc
          BY <3>2 DEF recordAck
        <5>2. after' \in Replies \X Sessions \X Batches /\ after' # <<>>
          BY <1>3, <5>1
        <5> QED BY <1>4, <5>1, <5>2 DEF IInv, PumpType, boundVars
      <4> QED BY <4>1, <4>2
    <3> QED BY <1>7, <3>1, <3>2
  <2> QED BY <1>1, <1>2, <1>4, <1>5, <1>7, <2>1, <2>2, <2>3, SettleStep
<1> QED
  BY <1>6, <1>7 DEF Answer

LEMMA InitHolds == Init => IInv
<1> SUFFICES ASSUME Init PROVE IInv
  OBVIOUS
<1>1. CapOK
  <2>1. captures = <<>>
    BY DEF Init
  <2> QED BY <2>1, Consts DEF CapOK
<1>2. LedgerType /\ HaltDrains
  BY DEF Init, LedgerType, HaltDrains
<1>3. PageType
  <2>1. FALSE \in BOOLEAN
    OBVIOUS
  <2>2. flags \in [halt : BOOLEAN, closed : BOOLEAN, stop : BOOLEAN]
    <3>1. PICK cool \in BOOLEAN : flags = [halt |-> cool, closed |-> FALSE, stop |-> cool]
      BY DEF Init
    <3> QED BY <2>1, <3>1, FlagsLifted, Zenon
  <2>3. page \in [hiding : BOOLEAN, unloading : BOOLEAN]
    BY DEF Init
  <2> QED BY <2>2, <2>3 DEF Init, PageType
<1>4. PumpType
  BY Consts DEF Init, PumpType
<1>5. Rows
  <2>1. heavyOnWire = {} /\ Cardinality({}) = 0
    BY FS_EmptySet DEF Init, heavyOnWire
  <2>2. HeavySerial /\ SlotsReturned
    BY <2>1, Consts DEF Init, HeavySerial, SlotsReturned
  <2> QED BY <2>2 DEF Init, Rows, WireType, QueueType, OnePlace
<1> QED BY <1>1, <1>2, <1>3, <1>4, <1>5 DEF IInv

LEMMA StepHolds == IInv /\ [Next]_vars => IInv'
<1> SUFFICES ASSUME IInv, [Next]_vars PROVE IInv'
  OBVIOUS
<1>1. CASE Uploads
  BY <1>1, StepSealReady, StepBeacon, StepFailures, StepAnswer DEF Uploads
<1>2. CASE Pump
  BY <1>2, StepPumpEnter, StepPumpStep, StepFinishSuccess DEF Pump
<1>3. CASE Timers
  BY <1>3, StepRetryTimer, StepTimers DEF Timers
<1>4. CASE Calls
  BY <1>4, StepEnqueue, StepSupersede, StepCalls, StepHalts, StepUnload DEF Calls
<1>5. CASE UNCHANGED vars
  <2>1. UNCHANGED <<session, captures, pending, retry, wire, sealing, aborted, inflightItems,
           inflight, heavyInflight, attempts, sentKeys, batchesOk, batchesStarted, recollectUsed,
           haltState, flags, wake, page, quiet, pc, conc, after, received, faults, events>>
    BY <1>5 DEF vars, queueVars, wireVars, ledgerVars, haltVars, pageVars, pumpVars, boundVars
  <2>2. CapOK' /\ LedgerType' /\ PageType' /\ PumpType' /\ WireType' /\ QueueType' /\ OnePlace'
    BY <2>1 DEF IInv, Rows, CapOK, LedgerType, PageType, PumpType, WireType, QueueType, OnePlace
  <2>3. SlotsReturned' /\ HeavySerial' /\ HaltDrains'
    BY <2>1 DEF IInv, Rows, SlotsReturned, HeavySerial, heavyOnWire, HaltDrains,
                batchOf, uploadsBlocked
  <2> QED BY <2>2, <2>3 DEF IInv, Rows
<1> QED
  BY <1>1, <1>2, <1>3, <1>4, <1>5 DEF Next

LEMMA Inductive == Spec => []IInv
BY InitHolds, StepHolds, PTL DEF Spec

(* Whatever uploads, timers, halts and session changes interleave, the     *)
(* state of upload_queue.js stays within its types.                        *)
THEOREM TypeCorrect == Spec => []TypeOK
BY Inductive, IInvType, PTL

(* pump's heavyInflight stays within POLICY.heavy_max_inflight and never   *)
(* counts a settled upload, though pruneStaleInflight resets it; with one  *)
(* heavy slot it is the number of unsettled GPU-heavy uploads.             *)
THEOREM HeavySlots == Spec => []HeavySerial
<1>1. IInv => HeavySerial
  BY DEF IInv, Rows
<1> QED BY <1>1, Inductive, PTL

(* removeInflightItem and pump's clamp: every settled upload gives its     *)
(* slot back.                                                              *)
THEOREM Slots == Spec => []SlotsReturned
<1>1. IInv => SlotsReturned
  BY DEF IInv, Rows
<1> QED BY <1>1, Inductive, PTL

(* applyHalt, the retry timers and the session changes leave nothing in    *)
(* the queue that uploadsBlocked would stop.                               *)
THEOREM Drained == Spec => []HaltDrains
<1>1. IInv => HaltDrains
  BY DEF IInv
<1> QED BY <1>1, Inductive, PTL
=============================================================================
