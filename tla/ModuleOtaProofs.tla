--------------------------- MODULE ModuleOtaProofs --------------------------
(***************************************************************************)
(* Proofs about ModuleOta for every set of versions and workers, every     *)
(* number of rollback versions, operations and crashes.  Workers run       *)
(* concurrently throughout; a result that needs an operation to have been  *)
(* undisturbed says so with the operation's own history (alone), or, for   *)
(* the version floor, with the history of the node (clean).                *)
(***************************************************************************)
EXTENDS ModuleOta, FiniteSetTheorems, WellFoundedInduction, TLAPS

(* An operation under way has a version.                                   *)
Versioned == \A w \in Worker : op[w].pc # "idle" => op[w].ver \in Version

TInv == TypeOK /\ Versioned

(* What alone and clean record: an operation that is alone still is, and   *)
(* as long as the history is clean every operation is.                     *)
AInv ==
    /\ \A w \in Worker : op[w].pc = "idle" => ~ op[w].alone
    /\ \A w \in Worker : op[w].alone => OthersIdle(w)
    /\ clean => \A w \in Worker : op[w].pc # "idle" => op[w].alone
    /\ ~ up => Quiet /\ crashes # 0

Written == {"prune_list", "prune", "load", "record_ok", "restore_truncate"}

(* What an operation that is alone can rely on at its program points.      *)
Ready(w) ==
    /\ op[w].pc \in Written => marker = op[w].ver
    /\ op[w].pc \in {"write", "prune_list", "prune"} =>
          disk[op[w].ver] # "absent"
    /\ op[w].pc = "prune" =>
          /\ op[w].ver \notin op[w].doomed
          /\ op[w].doomed # {} =>
                Cardinality((Dirs \ op[w].doomed) \ {op[w].ver}) >= KeepRollback
    /\ op[w].kind = "install" => binding = op[w].ver
    /\ op[w].pc = "record_ok" =>
          HasSo(op[w].ver) /\ (env.hot => slot = op[w].ver)

RInv == \A w \in Worker : op[w].alone => Ready(w)

(* The floor is in force: no override, an activation was committed, and    *)
(* none of the three things that undo the floor has happened.              *)
FloorApplies ==
    clean /\ (env.prod \/ crashes = 0) /\ ~ env.downgrade /\ committed # None

AtFloor(x) == x \in Version /\ x >= committed

Before == {"stage", "copy", "meta", "record", "floor", "record_fail"}

Truncated == {"write", "restore_write"}

(* Where the marker and the two versions an activation may write stand at  *)
(* each program point.                                                     *)
Progress(w) ==
    /\ op[w].pc \in Before => AtFloor(marker)
    /\ op[w].pc = "truncate" =>
          AtFloor(marker) /\ op[w].prev = marker /\ op[w].ver >= marker
    /\ op[w].pc \in Truncated =>
          marker = Torn /\ AtFloor(op[w].ver) /\ AtFloor(op[w].prev)
    /\ op[w].pc \in Written =>
          marker = op[w].ver /\ AtFloor(op[w].ver) /\ AtFloor(op[w].prev)

FInv ==
    /\ ~ up /\ FloorApplies => AtFloor(marker) \/ marker = Torn
    /\ up /\ FloorApplies =>
          /\ Quiet => AtFloor(marker)
          /\ \A w \in Worker : op[w].pc # "idle" => Progress(w)

-----------------------------------------------------------------------------
(* What the ways of writing op do.                                         *)
LEMMA OpIdle == Idle \in OpType /\ Idle.pc = "idle" /\ ~ Idle.alone
  BY DEF Idle, OpType, PC

LEMMA OpGoto ==
  ASSUME op \in [Worker -> OpType], NEW w \in Worker, NEW pc \in PC, Goto(w, pc)
  PROVE  /\ op' \in [Worker -> OpType]
         /\ \A x \in Worker : x # w => op'[x] = op[x]
         /\ op'[w].pc = pc /\ op'[w].ver = op[w].ver
         /\ op'[w].kind = op[w].kind /\ op'[w].prev = op[w].prev
         /\ op'[w].doomed = op[w].doomed /\ op'[w].alone = op[w].alone
  BY DEF Goto, OpType

LEMMA OpDone ==
  ASSUME op \in [Worker -> OpType], NEW w \in Worker, Done(w)
  PROVE  /\ op' \in [Worker -> OpType] /\ op'[w] = Idle
         /\ \A x \in Worker : x # w => op'[x] = op[x]
<1> HIDE DEF Idle
<1> QED BY OpIdle DEF Done

LEMMA OpBegin ==
  ASSUME op \in [Worker -> OpType], NEW w \in Worker, NEW r \in OpType,
         Begin(w, r)
  PROVE  /\ op' \in [Worker -> OpType]
         /\ op'[w].pc = r.pc /\ op'[w].ver = r.ver /\ op'[w].kind = r.kind
         /\ op'[w].alone = (r # Idle /\ OthersIdle(w))
         /\ \A x \in Worker : x # w => /\ op'[x].pc = op[x].pc
                                       /\ op'[x].ver = op[x].ver
                                       /\ ~ op'[x].alone
         /\ clean' = (clean /\ OthersIdle(w))
         /\ ops' = ops + 1 /\ ops < MaxOps
<1> DEFINE b == r # Idle /\ OthersIdle(w)
<1>1. b \in BOOLEAN
  OBVIOUS
<1>2. op' = [x \in Worker |-> IF x = w THEN [r EXCEPT !.alone = b]
                                       ELSE [op[x] EXCEPT !.alone = FALSE]]
  BY DEF Begin
<1> HIDE DEF b
<1>3. [r EXCEPT !.alone = b] \in OpType
  BY <1>1 DEF OpType
<1>4. \A x \in Worker : [op[x] EXCEPT !.alone = FALSE] \in OpType
  BY DEF OpType
<1>5. op' \in [Worker -> OpType]
  BY <1>2, <1>3, <1>4
<1>6. /\ op'[w].pc = r.pc /\ op'[w].ver = r.ver /\ op'[w].kind = r.kind
      /\ op'[w].alone = b
  BY <1>2 DEF OpType
<1>7. \A x \in Worker : x # w => /\ op'[x].pc = op[x].pc
                                 /\ op'[x].ver = op[x].ver
                                 /\ ~ op'[x].alone
  BY <1>2 DEF OpType
<1> QED BY <1>5, <1>6, <1>7 DEF b, Begin

(* The start of an operation, or a manifest view.                          *)
LEMMA OpRequest ==
  ASSUME TInv, NEW w \in Worker, Request(w)
  PROVE  \E r \in OpType :
            /\ Begin(w, r) /\ up /\ op[w].pc = "idle"
            /\ \/ r = Idle
               \/ /\ r.pc \in {"stage", "floor"} /\ r.ver \in Version
                  /\ r # Idle
                  /\ r.kind = "install" => binding' = r.ver
            /\ binding' \in Version \cup {binding}
            /\ UNCHANGED <<env, up, disk, marker, slot, rows, dbActive,
                           committed, crashes>>
<1>1. PICK v \in Version : \/ ota_fetch_manifest(w, v)
                           \/ modules_activate(w, v)
                           \/ \E kind \in {"stage", "install"} :
                                 ota_install_remote(w, v, kind)
  BY DEF Request
<1>2. CASE ota_fetch_manifest(w, v)
  <2>1. Begin(w, Idle)
    BY <1>2 DEF ota_fetch_manifest
  <2> HIDE DEF Idle
  <2> QED BY <1>2, <2>1, OpIdle DEF ota_fetch_manifest, At
<1>3. CASE modules_activate(w, v)
  <2> DEFINE r == [Idle EXCEPT !.pc = "floor", !.ver = v, !.kind = "activate"]
  <2>1. /\ r \in OpType /\ r.pc = "floor" /\ r.ver = v /\ r.kind # "install"
        /\ r # Idle
    BY DEF Idle, OpType, PC, Kind
  <2>2. Begin(w, r)
    BY <1>3 DEF modules_activate
  <2> HIDE DEF r
  <2> QED BY <1>3, <2>1, <2>2 DEF modules_activate, At, store
<1>4. ASSUME NEW kind \in {"stage", "install"}, ota_install_remote(w, v, kind)
      PROVE  \E r \in OpType :
                /\ Begin(w, r) /\ up /\ op[w].pc = "idle"
                /\ \/ r = Idle
                   \/ /\ r.pc \in {"stage", "floor"} /\ r.ver \in Version
                      /\ r # Idle
                      /\ r.kind = "install" => binding' = r.ver
                /\ binding' \in Version \cup {binding}
                /\ UNCHANGED <<env, up, disk, marker, slot, rows, dbActive,
                               committed, crashes>>
  <2> DEFINE r == [Idle EXCEPT !.pc = "stage", !.ver = v, !.kind = kind]
  <2>1. r \in OpType /\ r.pc = "stage" /\ r.ver = v /\ r # Idle
    BY DEF Idle, OpType, PC, Kind
  <2>2. Begin(w, r)
    BY <1>4 DEF ota_install_remote
  <2> HIDE DEF r
  <2> QED BY <1>4, <2>1, <2>2 DEF ota_install_remote, At
<1> QED BY <1>1, <1>2, <1>3, <1>4

(* A worker's step ends its operation, or goes to a program point of the   *)
(* same operation, perhaps noting a marker or a list.                      *)
LEMMA OpStep ==
  ASSUME TInv, NEW w \in Worker, WorkerStep(w)
  PROVE  /\ op' \in [Worker -> OpType]
         /\ op[w].ver \in Version /\ op[w].pc # "idle" /\ up
         /\ \A x \in Worker : x # w => op'[x] = op[x]
         /\ \/ op'[w] = Idle
            \/ /\ op'[w].ver = op[w].ver /\ op'[w].kind = op[w].kind
               /\ op'[w].alone = op[w].alone /\ op'[w].pc # "idle"
         /\ UNCHANGED <<env, up, binding, ops, crashes>>
         /\ clean' => clean
<1>0. op \in [Worker -> OpType] /\ op[w] \in OpType
  BY DEF TInv, TypeOK
<1>1. op[w].pc # "idle" /\ up /\ UNCHANGED <<env, up, binding, ops, crashes>>
  BY DEF WorkerStep, At, StageDir, StageCopy, StageMeta,
         StageRecord, Floor, ActivateTruncate, ActivateWrite,
         ActivatePruneList, ActivatePrune, ActivatePruned, Load,
         RestoreTruncate, RestoreWrite, RecordFail, RecordOk, store
<1>2. clean' => clean
  BY DEF WorkerStep, StageDir, StageCopy, StageMeta,
         StageRecord, Floor, ActivateTruncate, ActivateWrite,
         ActivatePruneList, ActivatePrune, ActivatePruned, Load,
         RestoreTruncate, RestoreWrite, RecordFail, RecordOk
<1>3. op[w].ver \in Version
  BY <1>1 DEF TInv, Versioned
<1> DEFINE G == /\ op' \in [Worker -> OpType]
                /\ \A x \in Worker : x # w => op'[x] = op[x]
                /\ \/ op'[w] = Idle
                   \/ /\ op'[w].ver = op[w].ver /\ op'[w].kind = op[w].kind
                      /\ op'[w].alone = op[w].alone /\ op'[w].pc # "idle"
<1>4. ASSUME NEW r \in OpType, op' = [op EXCEPT ![w] = r], r.ver = op[w].ver,
             r.kind = op[w].kind, r.alone = op[w].alone, r.pc # "idle"
      PROVE  G
  BY <1>0, <1>4
<1>5. Done(w) => G
  BY <1>0, OpDone
<1>6. \A pc \in PC \ {"idle"} : Goto(w, pc) => G
  BY <1>0, OpGoto
<1>7. ASSUME Floor(w) PROVE G
  <2> DEFINE r == [op[w] EXCEPT !.pc = "truncate", !.prev = marker]
  <2>1. /\ r \in OpType /\ r.ver = op[w].ver /\ r.kind = op[w].kind
        /\ r.alone = op[w].alone /\ r.pc # "idle"
    BY <1>0 DEF TInv, TypeOK, OpType, PC
  <2>2. Done(w) \/ op' = [op EXCEPT ![w] = r]
    BY <1>7 DEF Floor
  <2> HIDE DEF r, G
  <2> QED BY <1>4, <1>5, <2>1, <2>2
<1>8. ASSUME ActivatePruneList(w) PROVE G
  <2>1. PICK doomed \in {PruneList(marker), {}} :
          op' = [op EXCEPT ![w] = [@ EXCEPT !.pc = "prune", !.doomed = doomed]]
    BY <1>8 DEF ActivatePruneList
  <2>2. doomed \in SUBSET Version
    BY DEF PruneList, Dirs
  <2> DEFINE r == [op[w] EXCEPT !.pc = "prune", !.doomed = doomed]
  <2>3. /\ r \in OpType /\ r.ver = op[w].ver /\ r.kind = op[w].kind
        /\ r.alone = op[w].alone /\ r.pc # "idle"
    BY <1>0, <2>2 DEF OpType, PC
  <2>4. op' = [op EXCEPT ![w] = r]
    BY <2>1
  <2> HIDE DEF r, G
  <2> QED BY <1>4, <2>3, <2>4
<1>9. ASSUME ActivatePrune(w) PROVE G
  <2>1. PICK v \in op[w].doomed : op' = [op EXCEPT ![w].doomed = @ \ {v}]
    BY <1>9 DEF ActivatePrune
  <2> DEFINE r == [op[w] EXCEPT !.doomed = @ \ {v}]
  <2>2. /\ r \in OpType /\ r.ver = op[w].ver /\ r.kind = op[w].kind
        /\ r.alone = op[w].alone /\ r.pc # "idle"
    BY <1>0, <1>1 DEF OpType
  <2>3. op' = [op EXCEPT ![w] = r]
    BY <1>0, <2>1 DEF OpType
  <2> HIDE DEF r, G
  <2> QED BY <1>4, <2>2, <2>3
<1>10. ASSUME \/ StageDir(w) \/ StageCopy(w) \/ StageMeta(w) \/ StageRecord(w)
              \/ ActivateTruncate(w) \/ ActivateWrite(w) \/ ActivatePruned(w)
              \/ Load(w) \/ RestoreTruncate(w) \/ RestoreWrite(w)
              \/ RecordFail(w) \/ RecordOk(w)
       PROVE  G
  <2>1. Done(w) \/ \E pc \in PC \ {"idle"} : Goto(w, pc)
    BY <1>10 DEF StageDir, StageCopy, StageMeta, StageRecord,
                 ActivateTruncate, ActivateWrite, ActivatePruned, Load,
                 RestoreTruncate, RestoreWrite, RecordFail, RecordOk, PC
  <2> HIDE DEF G
  <2> QED BY <1>5, <1>6, <2>1
<1>11. G
  BY <1>7, <1>8, <1>9, <1>10 DEF WorkerStep
<1> QED BY <1>1, <1>2, <1>3, <1>11

-----------------------------------------------------------------------------
LEMMA TypeInit == Init => TInv
<1> SUFFICES ASSUME Init PROVE TInv
  OBVIOUS
<1>1. op \in [Worker -> OpType] /\ Versioned
  BY OpIdle DEF Init, Versioned, Idle
<1>2. disk \in [Version -> Staged]
  BY DEF Init, Staged
<1>3. /\ marker \in Version \cup {None, Torn}
      /\ binding \in Version \cup {None} /\ slot \in Version \cup {None}
      /\ slot # None => env.hot
      /\ committed \in Version \cup {None} /\ crashes \in 0..MaxCrash
      /\ ops \in 0..MaxOps
      /\ rows \subseteq Version \cup {Builtin} /\ dbActive \subseteq rows
  <2>1. 1 \in Version
    BY ConstAssumption DEF Version
  <2> QED BY <2>1, ConstAssumption DEF Init
<1> QED BY <1>1, <1>2, <1>3 DEF Init, TypeOK, TInv

LEMMA TypeRequest ==
  ASSUME TInv, NEW w \in Worker, Request(w)
  PROVE  TInv'
<1>0. op \in [Worker -> OpType]
  BY DEF TInv, TypeOK
<1>1. PICK r \in OpType :
         /\ Begin(w, r)
         /\ r = Idle \/ r.ver \in Version
         /\ binding' \in Version \cup {binding}
         /\ UNCHANGED <<env, up, disk, marker, slot, rows, dbActive,
                        committed, crashes>>
  BY OpRequest
<1>2. /\ op' \in [Worker -> OpType]
      /\ op'[w].pc = r.pc /\ op'[w].ver = r.ver
      /\ \A x \in Worker : x # w => op'[x].pc = op[x].pc /\ op'[x].ver = op[x].ver
      /\ clean' = (clean /\ OthersIdle(w))
      /\ ops' = ops + 1 /\ ops < MaxOps
  BY <1>0, <1>1, OpBegin
<1>3. Versioned'
  BY <1>1, <1>2, OpIdle DEF TInv, Versioned
<1>4. clean' \in BOOLEAN /\ ops' \in 0..MaxOps
  BY <1>2, ConstAssumption DEF TInv, TypeOK
<1> QED BY <1>1, <1>2, <1>3, <1>4 DEF TInv, TypeOK

LEMMA TypeStep ==
  ASSUME TInv, NEW w \in Worker, WorkerStep(w)
  PROVE  TInv'
<1> USE ConstAssumption DEF TypeOK
<1>0. /\ op' \in [Worker -> OpType] /\ op[w].ver \in Version
      /\ Versioned'
  <2>1. /\ op' \in [Worker -> OpType] /\ op[w].ver \in Version
        /\ \A x \in Worker : x # w => op'[x] = op[x]
        /\ op'[w] = Idle \/ op'[w].ver = op[w].ver
    BY OpStep
  <2> HIDE DEF Idle
  <2> QED BY <2>1, OpIdle DEF TInv, Versioned
<1>1. CASE StageDir(w)
  BY <1>0, <1>1 DEF StageDir, TInv, Staged
<1>2. CASE StageCopy(w)
  BY <1>0, <1>2 DEF StageCopy, TInv, Staged
<1>3. CASE StageMeta(w)
  BY <1>0, <1>3 DEF StageMeta, TInv, Staged
<1>4. CASE StageRecord(w)
  BY <1>0, <1>4 DEF StageRecord, TInv, RecordInactive
<1>5. CASE Floor(w) \/ ActivatePruneList(w) \/ ActivatePruned(w)
  BY <1>0, <1>5 DEF Floor, ActivatePruneList, ActivatePruned, TInv, store
<1>6. CASE ActivateTruncate(w) \/ RestoreTruncate(w)
  BY <1>0, <1>6 DEF ActivateTruncate, RestoreTruncate, TInv
<1>7. CASE ActivateWrite(w)
  BY <1>0, <1>7 DEF ActivateWrite, TInv
<1>8. CASE ActivatePrune(w)
  <2>1. disk' \in [Version -> Staged]
    BY <1>8 DEF ActivatePrune, TInv, Staged
  <2> QED BY <1>0, <1>8, <2>1 DEF ActivatePrune, TInv
<1>9. CASE Load(w)
  BY <1>0, <1>9 DEF Load, TInv
<1>10. CASE RestoreWrite(w)
  BY <1>0, <1>10 DEF RestoreWrite, TInv, OpType
<1>11. CASE RecordFail(w)
  BY <1>0, <1>11 DEF RecordFail, TInv, RecordInactive
<1>12. CASE RecordOk(w)
  BY <1>0, <1>12 DEF RecordOk, TInv
<1> QED BY <1>1, <1>2, <1>3, <1>4, <1>5, <1>6, <1>7, <1>8, <1>9, <1>10,
           <1>11, <1>12 DEF WorkerStep

LEMMA TypeCrash == TInv /\ Crash => TInv'
<1> SUFFICES ASSUME TInv, Crash PROVE TInv'
  OBVIOUS
<1>1. op' \in [Worker -> OpType] /\ Versioned'
  BY OpIdle DEF Crash, Versioned, Idle
<1>2. crashes' \in 0..MaxCrash
  BY ConstAssumption DEF Crash, TInv, TypeOK
<1>3. up' \in BOOLEAN
  BY DEF Crash
<1> QED BY <1>1, <1>2, <1>3 DEF Crash, TInv, TypeOK

LEMMA TypeBoot == TInv /\ Boot => TInv'
<1> SUFFICES ASSUME TInv, Boot PROVE TInv'
  OBVIOUS
<1>1. up' \in BOOLEAN
  BY DEF Boot
<1>2. slot' \in Version \cup {None} /\ rows' \subseteq Version \cup {Builtin}
      /\ dbActive' \subseteq rows' /\ (slot' # None => env'.hot)
  BY DEF Boot, TInv, TypeOK
<1> QED BY <1>1, <1>2 DEF Boot, TInv, TypeOK, Versioned

LEMMA TypeNext == TInv /\ [Next]_vars => TInv'
<1> SUFFICES ASSUME TInv, [Next]_vars PROVE TInv'
  OBVIOUS
<1>1. CASE UNCHANGED vars
  BY <1>1 DEF vars, TInv, TypeOK, Versioned
<1> QED BY <1>1, TypeRequest, TypeStep, TypeCrash, TypeBoot DEF Next

(* Every reachable state of the module store is well typed, and a module   *)
(* that should_hot_dlopen excludes is never in the registry.               *)
THEOREM TypeCorrect == Spec => []TypeOK
<1>1. TInv => TypeOK
  BY DEF TInv
<1> QED BY <1>1, TypeInit, TypeNext, PTL DEF Spec

-----------------------------------------------------------------------------
LEMMA AloneInit == Init => AInv
<1> SUFFICES ASSUME Init PROVE AInv
  OBVIOUS
<1>1. up /\ \A w \in Worker : op[w].pc = "idle" /\ ~ op[w].alone
  BY OpIdle DEF Init, Idle
<1> QED BY <1>1 DEF AInv

LEMMA AloneRequest ==
  ASSUME TInv, AInv, NEW w \in Worker, Request(w)
  PROVE  AInv'
<1>0. op \in [Worker -> OpType]
  BY DEF TInv, TypeOK
<1>1. PICK r \in OpType :
         /\ Begin(w, r) /\ up' /\ op[w].pc = "idle"
         /\ r = Idle \/ (r.pc \in {"stage", "floor"} /\ r # Idle)
  BY OpRequest
<1>2. /\ op'[w].pc = r.pc
      /\ op'[w].alone = (r # Idle /\ OthersIdle(w))
      /\ \A x \in Worker : x # w => op'[x].pc = op[x].pc /\ ~ op'[x].alone
      /\ clean' = (clean /\ OthersIdle(w))
  BY <1>0, <1>1, OpBegin
<1>3. OthersIdle(w)' <=> OthersIdle(w)
  BY <1>2 DEF OthersIdle
<1>4. \A x \in Worker : op'[x].pc = "idle" => ~ op'[x].alone
  <2> HIDE DEF Idle
  <2> QED BY <1>1, <1>2, OpIdle
<1>5. \A x \in Worker : op'[x].alone => OthersIdle(x)'
  BY <1>2, <1>3
<1>6. clean' => \A x \in Worker : op'[x].pc # "idle" => op'[x].alone
  <2> HIDE DEF Idle
  <2> QED BY <1>1, <1>2, OpIdle DEF OthersIdle
<1> QED BY <1>1, <1>4, <1>5, <1>6 DEF AInv

LEMMA AloneStep ==
  ASSUME TInv, AInv, NEW w \in Worker, WorkerStep(w)
  PROVE  AInv'
<1>1. /\ op[w].pc # "idle" /\ up'
      /\ \A x \in Worker : x # w => op'[x] = op[x]
      /\ \/ op'[w] = Idle
         \/ op'[w].alone = op[w].alone /\ op'[w].pc # "idle"
      /\ clean' => clean
  BY OpStep
<1> HIDE DEF Idle
<1>2. \A x \in Worker : op'[x].pc = "idle" => ~ op'[x].alone
  BY <1>1, OpIdle DEF AInv
<1>3. \A x \in Worker : op[x].pc = "idle" => op'[x].pc = "idle"
  BY <1>1
<1>4. \A x \in Worker : op'[x].alone => op[x].alone
  BY <1>1, OpIdle
<1>5. \A x \in Worker : op'[x].alone => OthersIdle(x)'
  BY <1>3, <1>4 DEF AInv, OthersIdle
<1>6. clean' => \A x \in Worker : op'[x].pc # "idle" => op'[x].alone
  BY <1>1, OpIdle DEF AInv
<1> QED BY <1>1, <1>2, <1>5, <1>6 DEF AInv

LEMMA AloneNext == ASSUME TInv, AInv, [Next]_vars PROVE AInv'
<1>1. CASE Crash
  <2>1. Quiet' /\ \A w \in Worker : op'[w].pc = "idle" /\ ~ op'[w].alone
    BY <1>1, OpIdle DEF Crash, Quiet, Idle
  <2>2. crashes' # 0
    BY <1>1, ConstAssumption DEF Crash, TInv, TypeOK
  <2> QED BY <2>1, <2>2 DEF AInv
<1>2. CASE Boot
  <2>1. op' = op /\ clean' = clean /\ crashes' = crashes /\ ~ up
    BY <1>2 DEF Boot
  <2> QED BY <2>1 DEF AInv, OthersIdle, Quiet
<1>3. CASE UNCHANGED vars
  BY <1>3 DEF vars, AInv, OthersIdle, Quiet
<1> QED BY <1>1, <1>2, <1>3, AloneRequest, AloneStep DEF Next

-----------------------------------------------------------------------------
(* A set of versions that is not empty has a newest one.                   *)
LEMMA Newest ==
  ASSUME NEW n \in Nat, NEW D \in SUBSET (1..n), D # {}
  PROVE  \E m \in D : \A v \in D : v <= m
<1> DEFINE R == OpToRel(<, Nat)
           T == {k \in Nat : n - k \in D}
<1>1. IsWellFoundedOn(R, Nat)
  BY NatLessThanWellFounded, Zenon
<1>2. \A x, y \in Nat : x < y => <<x, y>> \in R
  BY DEF OpToRel
<1>3. T \subseteq Nat /\ T # {}
  <2>1. PICK v \in D : TRUE
    OBVIOUS
  <2>2. n - v \in Nat /\ n - (n - v) = v
    BY <2>1
  <2> QED BY <2>1, <2>2
<1> HIDE DEF R
<1>4. PICK x \in T : \A y \in T : ~ (<<y, x>> \in R)
  <2> HIDE DEF T
  <2> QED BY <1>1, <1>3, WFMin
<1>5. ASSUME NEW v \in D PROVE v <= n - x
  <2>1. n - v \in Nat /\ n - (n - v) = v
    OBVIOUS
  <2>2. n - v \in T
    BY <2>1
  <2>3. ~(n - v < x)
    BY <1>2, <1>4, <2>2
  <2> QED BY <2>1, <2>3
<1> QED BY <1>4, <1>5

(* If some version has KeepRollback newer ones, KeepRollback versions have *)
(* fewer: all versions above the newest of the first kind are of the       *)
(* second.                                                                 *)
LEMMA KeepsNewest ==
  ASSUME NEW S \in SUBSET Version,
         NEW d \in S, Cardinality(Newer(d, S)) >= KeepRollback
  PROVE  Cardinality({v \in S : ~(Cardinality(Newer(v, S)) >= KeepRollback)})
            >= KeepRollback
<1> DEFINE D == {v \in S : Cardinality(Newer(v, S)) >= KeepRollback}
           T == {v \in S : ~(Cardinality(Newer(v, S)) >= KeepRollback)}
<1>0. MaxVersion \in Nat /\ KeepRollback \in Nat
  BY ConstAssumption
<1>1. D \in SUBSET (1..MaxVersion) /\ D # {}
  BY DEF Version
<1>2. PICK m \in D : \A v \in D : v <= m
  <2> HIDE DEF D
  <2> QED BY <1>0, <1>1, Newest
<1>3. Newer(m, S) \in SUBSET T
  <2> SUFFICES ASSUME NEW u \in Newer(m, S) PROVE u \in T
    OBVIOUS
  <2>1. u \in S /\ u > m /\ u \in Int /\ m \in Int
    BY <1>0 DEF Newer, Version
  <2>2. u \notin D
    BY <1>2, <2>1
  <2> QED BY <2>1, <2>2
<1>4. IsFiniteSet(T)
  <2>1. IsFiniteSet(1..MaxVersion)
    BY <1>0, FS_Interval
  <2>2. T \in SUBSET (1..MaxVersion)
    BY DEF Version
  <2> QED BY <2>1, <2>2, FS_Subset
<1>5. /\ Cardinality(Newer(m, S)) <= Cardinality(T)
      /\ IsFiniteSet(Newer(m, S))
  <2> HIDE DEF T
  <2> QED BY <1>3, <1>4, FS_Subset
<1>6. Cardinality(Newer(m, S)) \in Nat /\ Cardinality(T) \in Nat
  BY <1>4, <1>5, FS_CardinalityType
<1>7. Cardinality(Newer(m, S)) >= KeepRollback
  OBVIOUS
<1> HIDE DEF T, D
<1>8. Cardinality(T) >= KeepRollback
  BY <1>0, <1>5, <1>6, <1>7
<1> QED BY <1>8 DEF T

LEMMA ReadyRequest ==
  ASSUME TInv, NEW w \in Worker, Request(w)
  PROVE  RInv'
<1>0. op \in [Worker -> OpType]
  BY DEF TInv, TypeOK
<1>1. PICK r \in OpType :
         /\ Begin(w, r)
         /\ \/ r = Idle
            \/ /\ r.pc \in {"stage", "floor"}
               /\ r.kind = "install" => binding' = r.ver
  BY OpRequest
<1>2. /\ op'[w].pc = r.pc /\ op'[w].ver = r.ver /\ op'[w].kind = r.kind
      /\ op'[w].alone => r # Idle
      /\ \A x \in Worker : x # w => ~ op'[x].alone
  BY <1>0, <1>1, OpBegin
<1>3. op'[w].alone => Ready(w)'
  BY <1>1, <1>2 DEF Ready, Written
<1> QED BY <1>2, <1>3 DEF RInv

(* While one operation is alone no other worker moves.                     *)
LEMMA ReadyMove ==
  ASSUME TInv, AInv, NEW w \in Worker, WorkerStep(w),
         op[w].alone /\ op'[w] # Idle => Ready(w)'
  PROVE  RInv'
<1>1. /\ op[w].pc # "idle" /\ \A x \in Worker : x # w => op'[x] = op[x]
      /\ op'[w] = Idle \/ op'[w].alone = op[w].alone
  BY OpStep
<1> HIDE DEF Idle
<1>2. \A x \in Worker : op'[x].alone => x = w
  BY <1>1 DEF AInv, OthersIdle
<1>3. op'[w].alone => Ready(w)'
  BY <1>1, OpIdle
<1> QED BY <1>2, <1>3 DEF RInv

(* A step of an operation to a point that asks for nothing but the         *)
(* binding.                                                                *)
LEMMA ReadyPlain ==
  ASSUME TInv, NEW w \in Worker, WorkerStep(w), Ready(w),
         op'[w].pc \notin {"write"} \cup Written
  PROVE  op'[w] # Idle => Ready(w)'
<1>1. \/ op'[w] = Idle
      \/ op'[w].ver = op[w].ver /\ op'[w].kind = op[w].kind
  BY OpStep
<1>2. binding' = binding
  BY OpStep
<1> HIDE DEF Idle
<1> QED BY <1>1, <1>2 DEF Ready, Written

(* A step between points after the marker's write that leaves the files.   *)
LEMMA ReadyWritten ==
  ASSUME TInv, NEW w \in Worker, WorkerStep(w), Ready(w),
         op[w].pc \in Written,
         op'[w].pc \in {"load", "restore_truncate"}, marker' = marker
  PROVE  op'[w] # Idle => Ready(w)'
<1>1. \/ op'[w] = Idle
      \/ op'[w].ver = op[w].ver /\ op'[w].kind = op[w].kind
  BY OpStep
<1>2. binding' = binding
  BY OpStep
<1> HIDE DEF Idle
<1> QED BY <1>1, <1>2 DEF Ready, Written

(* The list leaves the active version and KeepRollback others.             *)
LEMMA ReadyPruneList ==
  ASSUME TInv, NEW w \in Worker, Ready(w), ActivatePruneList(w)
  PROVE  Ready(w)'
<1>0. op \in [Worker -> OpType] /\ op[w] \in OpType /\ op[w].pc = "prune_list"
  BY DEF TInv, TypeOK, ActivatePruneList, At
<1>1. PICK doomed \in {PruneList(marker), {}} :
        op' = [op EXCEPT ![w] = [@ EXCEPT !.pc = "prune", !.doomed = doomed]]
  BY DEF ActivatePruneList
<1>2. /\ op'[w].pc = "prune" /\ op'[w].ver = op[w].ver
      /\ op'[w].kind = op[w].kind /\ op'[w].doomed = doomed
  BY <1>0, <1>1 DEF OpType
<1>3. disk' = disk /\ marker' = marker /\ binding' = binding
  BY DEF ActivatePruneList, store
<1> DEFINE v == op[w].ver
           S == Dirs \ {v}
<1>4. marker = v /\ disk[v] # "absent"
  BY <1>0 DEF Ready, Written
<1>5. PruneList(marker) = {u \in S : Cardinality(Newer(u, S)) >= KeepRollback}
  BY <1>4 DEF PruneList
<1>6. v \notin doomed
  BY <1>5
<1>7. doomed # {} => Cardinality((Dirs \ doomed) \ {v}) >= KeepRollback
  <2> SUFFICES ASSUME NEW d \in doomed
               PROVE  Cardinality((Dirs \ doomed) \ {v}) >= KeepRollback
    OBVIOUS
  <2>1. doomed = {u \in S : Cardinality(Newer(u, S)) >= KeepRollback}
    BY <1>5
  <2>2. S \in SUBSET Version /\ d \in S
    BY <2>1 DEF Dirs
  <2>3. (Dirs \ doomed) \ {v}
          = {u \in S : ~(Cardinality(Newer(u, S)) >= KeepRollback)}
    BY <2>1
  <2>4. Cardinality(Newer(d, S)) >= KeepRollback
    BY <2>1
  <2> HIDE DEF S
  <2> QED BY <2>2, <2>3, <2>4, KeepsNewest
<1>8. Dirs' = Dirs
  BY <1>3 DEF Dirs
<1> QED BY <1>0, <1>2, <1>3, <1>4, <1>6, <1>7, <1>8 DEF Ready, Written

(* A deletion, complete, partial or failed, keeps what is not on the list. *)
LEMMA PruneOne ==
  ASSUME TInv, NEW w \in Worker, Ready(w), ActivatePrune(w)
  PROVE  /\ Ready(w)'
         /\ op[w].doomed # {} /\ disk'[op[w].ver] # "absent"
         /\ Cardinality(Dirs' \ {op[w].ver}) >= KeepRollback
<1>0. /\ op \in [Worker -> OpType] /\ op[w] \in OpType /\ op[w].pc = "prune"
      /\ disk \in [Version -> Staged] /\ KeepRollback \in Nat
      /\ op[w].ver \in Version
  BY ConstAssumption DEF TInv, TypeOK, ActivatePrune, At, Versioned
<1>1. PICK v \in op[w].doomed :
         /\ \E left \in {"absent", "dir", disk[v]} :
               disk' = [disk EXCEPT ![v] = IF @ = "absent" THEN @ ELSE left]
         /\ op' = [op EXCEPT ![w].doomed = @ \ {v}]
  BY DEF ActivatePrune
<1>2. /\ op'[w].pc = "prune" /\ op'[w].ver = op[w].ver
      /\ op'[w].kind = op[w].kind /\ op'[w].doomed = op[w].doomed \ {v}
  BY <1>0, <1>1 DEF OpType
<1>3. marker' = marker /\ binding' = binding
  BY DEF ActivatePrune
<1>4. /\ op[w].ver \notin op[w].doomed /\ disk[op[w].ver] # "absent"
      /\ marker = op[w].ver
      /\ Cardinality((Dirs \ op[w].doomed) \ {op[w].ver}) >= KeepRollback
  BY <1>0, <1>1 DEF Ready, Written
<1>5. disk'[op[w].ver] # "absent"
  BY <1>0, <1>1, <1>4
<1> DEFINE A == (Dirs \ op[w].doomed) \ {op[w].ver}
           B == (Dirs' \ op'[w].doomed) \ {op[w].ver}
           C == Dirs' \ {op[w].ver}
<1>6. A \subseteq B /\ B \subseteq C /\ C \subseteq Version
  <2>1. \A x \in Dirs : x # v => x \in Dirs'
    BY <1>0, <1>1 DEF Dirs
  <2>2. Dirs' \subseteq Version
    BY DEF Dirs
  <2> QED BY <1>1, <1>2, <2>1, <2>2
<1>7. IsFiniteSet(Version)
  BY ConstAssumption, FS_Interval DEF Version
<1>8. Cardinality(A) >= KeepRollback
  BY <1>4
<1> HIDE DEF A, B, C
<1>9. IsFiniteSet(C) /\ IsFiniteSet(B) /\ IsFiniteSet(A)
  BY <1>6, <1>7, FS_Subset
<1>10. Cardinality(A) <= Cardinality(B) /\ Cardinality(B) <= Cardinality(C)
  BY <1>6, <1>9, FS_Subset
<1>11. Cardinality(A) \in Nat /\ Cardinality(B) \in Nat /\ Cardinality(C) \in Nat
  BY <1>9, FS_CardinalityType
<1>12. Cardinality(B) >= KeepRollback /\ Cardinality(C) >= KeepRollback
  BY <1>0, <1>8, <1>10, <1>11
<1>13. Ready(w)'
  BY <1>0, <1>2, <1>3, <1>4, <1>5, <1>12 DEF Ready, Written, B
<1> QED BY <1>1, <1>5, <1>12, <1>13 DEF C

LEMMA ReadyStep ==
  ASSUME TInv, AInv, RInv, NEW w \in Worker, WorkerStep(w)
  PROVE  RInv'
<1> SUFFICES ASSUME Ready(w), op'[w] # Idle PROVE Ready(w)'
  BY ReadyMove DEF RInv
<1> HIDE DEF Idle
<1>0. /\ op \in [Worker -> OpType] /\ ~ Done(w)
  BY OpDone DEF TInv, TypeOK
<1>1. /\ op'[w].ver = op[w].ver /\ op'[w].kind = op[w].kind
      /\ binding' = binding /\ env' = env
  BY OpStep
<1>2. CASE StageDir(w) \/ StageCopy(w) \/ StageMeta(w) \/ StageRecord(w)
  <2>1. op'[w].pc \in {"copy", "meta", "record", "floor"}
    BY <1>0, <1>2, OpGoto DEF StageDir, StageCopy, StageMeta, StageRecord, PC
  <2> QED BY <2>1, ReadyPlain DEF Written
<1>3. CASE Floor(w)
  <2>1. op' = [op EXCEPT ![w] = [@ EXCEPT !.pc = "truncate", !.prev = marker]]
    BY <1>0, <1>3 DEF Floor
  <2>2. op'[w].pc = "truncate"
    BY <1>0, <2>1 DEF OpType
  <2> QED BY <2>2, ReadyPlain DEF Written
<1>4. CASE ActivateTruncate(w)
  <2>1. /\ op'[w].pc = "write" /\ disk' = disk /\ disk[op[w].ver] # "absent"
    BY <1>0, <1>4, OpGoto DEF ActivateTruncate, PC
  <2> QED BY <1>1, <2>1 DEF Ready, Written
<1>5. CASE ActivateWrite(w)
  <2>1. /\ op'[w].pc = "prune_list" /\ disk' = disk /\ marker' = op[w].ver
        /\ op[w].pc = "write"
    BY <1>0, <1>5, OpGoto DEF ActivateWrite, PC, At
  <2> QED BY <1>1, <2>1 DEF Ready, Written
<1>6. CASE ActivatePruneList(w)
  BY <1>6, ReadyPruneList
<1>7. CASE ActivatePrune(w)
  BY <1>7, PruneOne
<1>8. CASE ActivatePruned(w)
  <2>1. op'[w].pc = "load" /\ op[w].pc = "prune" /\ marker' = marker
    BY <1>0, <1>8, OpGoto DEF ActivatePruned, PC, At, store
  <2> QED BY <2>1, ReadyWritten DEF Written
<1>9. CASE Load(w)
  <2>1. disk' = disk /\ marker' = marker /\ op[w].pc = "load"
    BY <1>9 DEF Load, At
  <2>2. \/ Goto(w, "record_fail") \/ Goto(w, "restore_truncate")
        \/ /\ Goto(w, "record_ok") /\ HasSo(op[w].ver)
           /\ env.hot => slot' = op[w].ver
    BY <1>0, <1>9 DEF Load
  <2>3. CASE Goto(w, "record_fail")
    <3>1. op'[w].pc = "record_fail"
      BY <1>0, <2>3, OpGoto DEF PC
    <3> QED BY <3>1, ReadyPlain DEF Written
  <2>4. CASE Goto(w, "restore_truncate")
    <3>1. op'[w].pc = "restore_truncate"
      BY <1>0, <2>4, OpGoto DEF PC
    <3> QED BY <2>1, <3>1, ReadyWritten DEF Written
  <2>5. CASE /\ Goto(w, "record_ok") /\ HasSo(op[w].ver)
             /\ env.hot => slot' = op[w].ver
    <3>1. op'[w].pc = "record_ok"
      BY <1>0, <2>5, OpGoto DEF PC
    <3>2. marker = op[w].ver
      BY <2>1 DEF Ready, Written
    <3> QED BY <1>1, <2>1, <2>5, <3>1, <3>2 DEF Ready, HasSo, Written
  <2> QED BY <2>2, <2>3, <2>4, <2>5
<1>10. CASE RestoreTruncate(w) \/ RestoreWrite(w)
  <2>1. op'[w].pc \in {"restore_write", "record_fail"}
    BY <1>0, <1>10, OpGoto DEF RestoreTruncate, RestoreWrite, PC
  <2> QED BY <2>1, ReadyPlain DEF Written
<1>11. CASE RecordFail(w) \/ RecordOk(w)
  BY <1>0, <1>11 DEF RecordFail, RecordOk
<1> QED BY <1>2, <1>3, <1>4, <1>5, <1>6, <1>7, <1>8, <1>9, <1>10, <1>11
        DEF WorkerStep

LEMMA ReadyNext == ASSUME TInv, AInv, RInv, [Next]_vars PROVE RInv'
<1>1. CASE Crash
  BY <1>1, OpIdle DEF Crash, Idle, RInv
<1>2. CASE Boot
  <2>1. Quiet /\ op' = op
    BY <1>2 DEF Boot, AInv
  <2> QED BY <2>1 DEF Quiet, RInv, AInv
<1>3. CASE UNCHANGED vars
  BY <1>3 DEF vars, RInv, Ready, HasSo, Dirs
<1> QED BY <1>1, <1>2, <1>3, ReadyRequest, ReadyStep DEF Next

-----------------------------------------------------------------------------
LEMMA FloorInit == Init => FInv
<1> SUFFICES ASSUME Init PROVE FInv
  OBVIOUS
<1>1. up /\ \A w \in Worker : op[w].pc = "idle"
  BY OpIdle DEF Init, Idle
<1>2. committed # None => AtFloor(marker)
  BY ConstAssumption DEF Init, AtFloor, Version
<1> QED BY <1>1, <1>2 DEF FInv, FloorApplies

LEMMA FloorRequest ==
  ASSUME TInv, FInv, NEW w \in Worker, Request(w)
  PROVE  FInv'
<1>0. op \in [Worker -> OpType]
  BY DEF TInv, TypeOK
<1>1. PICK r \in OpType :
         /\ Begin(w, r) /\ up /\ op[w].pc = "idle"
         /\ r = Idle \/ r.pc \in {"stage", "floor"}
         /\ UNCHANGED <<env, up, marker, committed, crashes>>
  BY OpRequest
<1>2. /\ op'[w].pc = r.pc /\ clean' = (clean /\ OthersIdle(w))
      /\ \A x \in Worker : x # w => op'[x].pc = op[x].pc
  BY <1>0, <1>1, OpBegin
<1>3. op'[w].pc \in {"idle", "stage", "floor"}
  <2> HIDE DEF Idle
  <2> QED BY <1>1, <1>2, OpIdle
<1>4. ASSUME FloorApplies'
      PROVE  /\ AtFloor(marker)'
             /\ \A x \in Worker : op'[x].pc \in {"idle", "stage", "floor"}
  <2>1. FloorApplies /\ Quiet
    BY <1>1, <1>2, <1>4 DEF FloorApplies, OthersIdle, Quiet
  <2>2. \A x \in Worker : op'[x].pc \in {"idle", "stage", "floor"}
    BY <1>2, <1>3, <2>1 DEF Quiet
  <2> QED BY <1>1, <2>1, <2>2 DEF FInv, AtFloor
<1> QED BY <1>1, <1>4 DEF FInv, Progress, Before, Written, Truncated, AtFloor

(* As long as the floor applies it is enough to look at the operation that *)
(* moved: there is no other.                                               *)
LEMMA FloorMove ==
  ASSUME TInv, AInv, NEW w \in Worker, WorkerStep(w),
         FloorApplies' => IF op'[w].pc = "idle" THEN AtFloor(marker)'
                                                ELSE Progress(w)'
  PROVE  FInv'
<1>1. /\ op[w].pc # "idle" /\ up' /\ \A x \in Worker : x # w => op'[x] = op[x]
      /\ clean' => clean
  BY OpStep
<1>2. FloorApplies' => \A x \in Worker : x # w => op'[x].pc = "idle"
  BY <1>1 DEF FloorApplies, AInv, OthersIdle
<1>3. FloorApplies' /\ Quiet' => AtFloor(marker)'
  BY DEF Quiet
<1> QED BY <1>1, <1>2, <1>3 DEF FInv

(* What FInv says of the operation that is about to move.                  *)
LEMMA FloorUse ==
  ASSUME TInv, FInv, NEW w \in Worker, WorkerStep(w), committed' = committed,
         FloorApplies'
  PROVE  FloorApplies /\ Progress(w)
<1>1. /\ op[w].pc # "idle" /\ up /\ UNCHANGED <<env, crashes>>
      /\ clean' => clean
  BY OpStep
<1> QED BY <1>1 DEF FInv, FloorApplies

LEMMA FloorStep ==
  ASSUME TInv, AInv, FInv, RInv, NEW w \in Worker, WorkerStep(w)
  PROVE  FInv'
<1>0. /\ op \in [Worker -> OpType] /\ op[w].ver \in Version
      /\ Version \subseteq Int /\ committed \in Version \cup {None}
  BY OpStep, ConstAssumption DEF TInv, TypeOK, Version
<1> SUFFICES ASSUME FloorApplies'
             PROVE  IF op'[w].pc = "idle" THEN AtFloor(marker)'
                                          ELSE Progress(w)'
  BY FloorMove
<1>1. Done(w) => op'[w].pc = "idle"
  BY <1>0, OpDone, OpIdle
<1>2. CASE StageDir(w) \/ StageCopy(w) \/ StageMeta(w) \/ StageRecord(w)
  <2>1. /\ marker' = marker /\ committed' = committed /\ op[w].pc \in Before
    BY <1>2 DEF StageDir, StageCopy, StageMeta, StageRecord, At, Before
  <2>2. op'[w].pc \in {"idle"} \cup Before
    BY <1>0, <1>1, <1>2, OpGoto DEF StageDir, StageCopy, StageMeta,
                                    StageRecord, PC, Before
  <2> QED BY <2>1, <2>2, FloorUse DEF Progress, AtFloor, Before, Written,
                                      Truncated
<1>3. CASE Floor(w)
  <2>1. /\ marker' = marker /\ committed' = committed /\ op[w].pc = "floor"
    BY <1>3 DEF Floor, At, store
  <2>2. FloorApplies /\ AtFloor(marker)
    BY <2>1, FloorUse DEF Progress, Before
  <2>3. CASE Done(w)
    BY <1>1, <2>1, <2>2, <2>3 DEF AtFloor
  <2>4. CASE ~ BelowFloor(op[w].ver, marker)
             /\ op' = [op EXCEPT ![w] = [@ EXCEPT !.pc = "truncate",
                                                  !.prev = marker]]
    <3>1. /\ op'[w].pc = "truncate" /\ op'[w].prev = marker
          /\ op'[w].ver = op[w].ver
      BY <1>0, <2>4 DEF OpType
    <3>2. op[w].ver >= marker
      BY <1>0, <2>2, <2>4 DEF BelowFloor, FloorApplies, AtFloor
    <3> QED BY <2>1, <2>2, <3>1, <3>2 DEF Progress, AtFloor, Before, Written,
                                          Truncated
  <2> QED BY <1>3, <2>3, <2>4 DEF Floor
<1>4. CASE ActivateTruncate(w)
  <2>1. /\ committed' = committed /\ op[w].pc = "truncate"
    BY <1>4 DEF ActivateTruncate, At
  <2>2. FloorApplies /\ Progress(w)
    BY <2>1, FloorUse
  <2>3. AtFloor(marker) /\ op[w].prev = marker /\ op[w].ver >= marker
    BY <2>1, <2>2 DEF Progress
  <2>4. CASE Done(w) /\ UNCHANGED marker
    BY <1>1, <2>1, <2>3, <2>4 DEF AtFloor
  <2>5. CASE marker' = Torn /\ Goto(w, "write")
    <3>1. /\ op'[w].pc = "write" /\ op'[w].prev = op[w].prev
          /\ op'[w].ver = op[w].ver
      BY <1>0, <2>5, OpGoto DEF PC
    <3>2. AtFloor(op[w].ver)
      <4>1. committed \in Int /\ marker \in Int /\ op[w].ver \in Int
        BY <1>0, <2>2, <2>3 DEF AtFloor, FloorApplies
      <4>2. marker >= committed /\ op[w].ver >= marker
        BY <2>3 DEF AtFloor
      <4>3. op[w].ver >= committed
        BY <4>1, <4>2
      <4> QED BY <1>0, <4>3 DEF AtFloor
    <3> QED BY <2>1, <2>3, <2>5, <3>1, <3>2
            DEF Progress, AtFloor, Before, Written, Truncated
  <2> QED BY <1>4, <2>4, <2>5 DEF ActivateTruncate
<1>5. CASE ActivateWrite(w)
  <2>1. /\ committed' = committed /\ op[w].pc \in Truncated
        /\ marker' = op[w].ver /\ Goto(w, "prune_list")
    BY <1>5 DEF ActivateWrite, At, Truncated, FloorApplies
  <2>2. /\ op'[w].pc = "prune_list" /\ op'[w].prev = op[w].prev
        /\ op'[w].ver = op[w].ver
    BY <1>0, <2>1, OpGoto DEF PC
  <2> QED BY <2>1, <2>2, FloorUse DEF Progress, AtFloor, Before, Written,
                                      Truncated
<1>6. CASE ActivatePruneList(w) \/ ActivatePrune(w) \/ ActivatePruned(w)
  <2>1. /\ marker' = marker /\ committed' = committed /\ op[w].pc \in Written
    BY <1>6 DEF ActivatePruneList, ActivatePrune, ActivatePruned, At, Written,
                store
  <2>2. /\ op'[w].pc \in {"prune", "load"} /\ op'[w].ver = op[w].ver
        /\ op'[w].prev = op[w].prev
    <3>1. CASE ActivatePruneList(w)
      BY <1>0, <3>1 DEF ActivatePruneList, OpType
    <3>2. CASE ActivatePrune(w)
      BY <1>0, <3>2 DEF ActivatePrune, OpType, At
    <3>3. CASE ActivatePruned(w)
      BY <1>0, <3>3, OpGoto DEF ActivatePruned, PC
    <3> QED BY <1>6, <3>1, <3>2, <3>3
  <2> QED BY <2>1, <2>2, FloorUse DEF Progress, AtFloor, Before, Written,
                                      Truncated
<1>7. CASE Load(w)
  <2>1. /\ marker' = marker /\ committed' = committed /\ op[w].pc \in Written
    BY <1>7 DEF Load, At, Written
  <2>2. \/ Done(w) \/ Goto(w, "record_ok") \/ Goto(w, "record_fail")
        \/ Goto(w, "restore_truncate")
    BY <1>7 DEF Load
  <2>3. \/ op'[w].pc \in {"idle", "record_fail"}
        \/ /\ op'[w].pc \in {"record_ok", "restore_truncate"}
           /\ op'[w].ver = op[w].ver /\ op'[w].prev = op[w].prev
    BY <1>0, <1>1, <2>2, OpGoto DEF PC
  <2> QED BY <2>1, <2>3, FloorUse DEF Progress, AtFloor, Before, Written,
                                      Truncated
<1>8. CASE RestoreTruncate(w)
  <2>1. /\ committed' = committed /\ op[w].pc = "restore_truncate"
    BY <1>8 DEF RestoreTruncate, At
  <2>2. \/ marker' = marker /\ op'[w].pc = "record_fail"
        \/ /\ marker' = Torn /\ op'[w].pc = "restore_write"
           /\ op'[w].ver = op[w].ver /\ op'[w].prev = op[w].prev
    BY <1>0, <1>8, OpGoto DEF RestoreTruncate, PC
  <2> QED BY <2>1, <2>2, FloorUse DEF Progress, AtFloor, Before, Written,
                                      Truncated
<1>9. CASE RestoreWrite(w)
  <2>1. /\ committed' = committed /\ op[w].pc \in Truncated
        /\ marker' = op[w].prev /\ Goto(w, "record_fail")
    BY <1>9 DEF RestoreWrite, At, Truncated, FloorApplies
  <2>2. op'[w].pc = "record_fail"
    BY <1>0, <2>1, OpGoto DEF PC
  <2> QED BY <2>1, <2>2, FloorUse DEF Progress, AtFloor, Before, Written,
                                      Truncated
<1>10. CASE RecordFail(w)
  <2>1. /\ marker' = marker /\ committed' = committed /\ op[w].pc \in Before
        /\ op'[w].pc = "idle"
    BY <1>1, <1>10 DEF RecordFail, At, Before
  <2> QED BY <2>1, FloorUse DEF Progress, AtFloor
<1>11. CASE RecordOk(w)
  <2> DEFINE v == op[w].ver
  <2>1. /\ marker' = marker /\ op[w].pc = "record_ok" /\ op'[w].pc = "idle"
        /\ committed' = IF committed = None \/ v > committed
                        THEN v ELSE committed
    BY <1>1, <1>11 DEF RecordOk, At
  <2>2. /\ op[w].pc # "idle" /\ up /\ UNCHANGED <<env, crashes>>
        /\ clean' => clean
    BY OpStep
  <2>3. marker = v
    BY <2>1, <2>2 DEF FloorApplies, AInv, RInv, Ready, Written
  <2>4. committed # None => FloorApplies
    BY <2>2 DEF FloorApplies
  <2>5. committed # None => v >= committed
    BY <2>1, <2>2, <2>4 DEF FInv, Progress, Written, AtFloor
  <2>6. v \in Version
    BY <1>0
  <2> HIDE DEF v
  <2>7. v >= committed'
    BY <1>0, <2>1, <2>5, <2>6
  <2> QED BY <2>1, <2>3, <2>6, <2>7 DEF AtFloor
<1> QED BY <1>2, <1>3, <1>4, <1>5, <1>6, <1>7, <1>8, <1>9, <1>10, <1>11
        DEF WorkerStep

(* A crash may happen at any program point; only inside a marker write is  *)
(* the marker torn.                                                        *)
LEMMA FloorCrash == ASSUME TInv, FInv, Crash PROVE FInv'
<1>1. /\ up /\ ~ up' /\ UNCHANGED <<env, marker, committed, clean>>
      /\ crashes' # 0
  BY ConstAssumption DEF Crash, TInv, TypeOK
<1>2. ASSUME FloorApplies PROVE AtFloor(marker) \/ marker = Torn
  <2>1. CASE Quiet
    BY <1>1, <1>2, <2>1 DEF FInv
  <2>2. CASE ~ Quiet
    <3>1. PICK w \in Worker : op[w].pc # "idle"
      BY <2>2 DEF Quiet
    <3>2. op[w].pc \in PC
      BY DEF TInv, TypeOK, OpType
    <3> QED BY <1>1, <1>2, <3>1, <3>2 DEF FInv, Progress, PC, Before, Written,
                                          Truncated
  <2> QED BY <2>1, <2>2
<1> QED BY <1>1, <1>2 DEF FInv, FloorApplies, AtFloor

(* A production node with a torn marker does not boot.                     *)
LEMMA FloorBoot == ASSUME TInv, AInv, FInv, Boot PROVE FInv'
<1>1. /\ ~ up /\ UNCHANGED <<env, marker, committed, op, clean, crashes>>
      /\ Quiet /\ crashes # 0
  BY DEF Boot, AInv
<1>2. FloorApplies => AtFloor(marker) \/ marker = Torn
  BY <1>1 DEF FInv
<1>3. ASSUME up', FloorApplies PROVE AtFloor(marker)
  <2>1. BootVerifies
    BY <1>1, <1>3 DEF Boot, FloorApplies
  <2> QED BY <1>2, <1>3, <2>1, ConstAssumption DEF BootVerifies
<1> QED BY <1>1, <1>2, <1>3 DEF FInv, FloorApplies, AtFloor, Quiet

LEMMA FloorNext ==
  ASSUME TInv, AInv, RInv, FInv, [Next]_vars
  PROVE  FInv'
<1>1. CASE UNCHANGED vars
  BY <1>1 DEF vars, FInv, FloorApplies, AtFloor, Progress, Quiet
<1> QED BY <1>1, FloorRequest, FloorStep, FloorCrash, FloorBoot DEF Next

All == TInv /\ AInv /\ RInv /\ FInv

LEMMA AllHolds == Spec => []All
<1>1. Init => All
  BY TypeInit, AloneInit, FloorInit DEF All, RInv, AInv, Init, Idle
<1>2. All /\ [Next]_vars => All'
  BY TypeNext, AloneNext, ReadyNext, FloorNext DEF All
<1> QED BY <1>1, <1>2, PTL DEF Spec

(* Without the downgrade override, no sequence of installs, activations,   *)
(* failed loads, roll-backs and crashes leaves a running node whose marker *)
(* is below a version it had committed, except through the three things    *)
(* FloorHolds names: operations that overlap, a marker write that fails    *)
(* half-way, and outside production a crash inside that write.             *)
THEOREM FloorTheorem == Spec => []FloorHolds
<1>1. All => FloorHolds
  BY DEF All, FInv, FloorHolds, FloorApplies, AtFloor
<1> QED BY <1>1, AllHolds, PTL

-----------------------------------------------------------------------------
(* While an operation is alone a step of the node is a step of its worker, *)
(* the start of another operation, a crash or nothing.                     *)
LEMMA AloneMoves ==
  ASSUME TInv, AInv, [Next]_vars, NEW w \in Worker, op[w].alone
  PROVE  \/ WorkerStep(w) \/ Crash \/ UNCHANGED vars
         \/ \E x \in Worker : x # w /\ Request(x)
<1>1. op[w].pc # "idle" /\ OthersIdle(w) /\ up
  BY DEF AInv, Quiet
<1>2. ~ Boot
  BY <1>1 DEF Boot
<1>3. ~ Request(w)
  BY <1>1, OpRequest
<1>4. \A x \in Worker : x # w => ~ WorkerStep(x)
  BY <1>1, OpStep DEF OthersIdle
<1> QED BY <1>2, <1>3, <1>4 DEF Next

(* What holds when an ota_activate that was alone commits.                 *)
LEMMA Committed ==
  ASSUME All, [Next]_vars, NEW w \in Worker, op[w].alone,
         op[w].pc = "record_ok", op'[w].pc = "idle", up'
  PROVE  /\ op[w].ver \in Version /\ marker' = op[w].ver
         /\ disk' = disk /\ disk[op[w].ver] \in {"so", "full"}
         /\ binding' = binding
         /\ env.hot => slot' = op[w].ver
         /\ op[w].kind = "install" => binding = op[w].ver
<1>0. TInv /\ AInv /\ RInv /\ op \in [Worker -> OpType]
  BY DEF All, TInv, TypeOK
<1>1. RecordOk(w)
  <2>1. ~ Crash /\ ~ UNCHANGED vars
    BY DEF Crash, vars
  <2>2. ASSUME NEW x \in Worker, x # w, Request(x) PROVE FALSE
    <3>1. \E r \in OpType : Begin(x, r)
      BY <1>0, <2>2, OpRequest
    <3>2. op'[w].pc = op[w].pc
      BY <1>0, <2>2, <3>1, OpBegin
    <3> QED BY <3>2
  <2>3. WorkerStep(w)
    BY <1>0, <2>1, <2>2, AloneMoves
  <2> QED BY <2>3 DEF WorkerStep, At, StageDir, StageCopy, StageMeta,
          StageRecord, Floor, ActivateTruncate, ActivateWrite,
          ActivatePruneList, ActivatePrune, ActivatePruned, Load,
          RestoreTruncate, RestoreWrite, RecordFail
<1>2. marker' = marker /\ disk' = disk /\ slot' = slot /\ binding' = binding
  BY <1>1 DEF RecordOk
<1>3. op[w].ver \in Version
  BY <1>0 DEF TInv, Versioned
<1>4. Ready(w)
  BY <1>0 DEF RInv
<1> QED BY <1>2, <1>3, <1>4 DEF Ready, HasSo, Written

(* OkMeansActive: an activation that is committed and that no other        *)
(* operation overlapped is in force, whatever overlapped, failed, rolled   *)
(* back or crashed before it: the marker names the version, its .so is on  *)
(* disk, a hot module runs it.                                             *)
THEOREM CommitIsActive == Spec => OkMeansActive
<1> DEFINE A == \A w \in Worker :
                  (op[w].pc = "record_ok" /\ op[w].alone /\ op'[w].pc = "idle"
                      /\ up')
                     => /\ marker' = op[w].ver
                        /\ disk'[op[w].ver] \in {"so", "full"}
                        /\ env.hot => slot' = op[w].ver
<1>1. All /\ [Next]_vars => [A]_vars
  <2> SUFFICES ASSUME All, [Next]_vars, NEW w \in Worker, op[w].alone,
                      op[w].pc = "record_ok", op'[w].pc = "idle", up'
               PROVE  /\ marker' = op[w].ver
                      /\ disk'[op[w].ver] \in {"so", "full"}
                      /\ env.hot => slot' = op[w].ver
    OBVIOUS
  <2> QED BY Committed
<1> QED BY <1>1, AllHolds, PTL DEF Spec, OkMeansActive

(* OkInstallRestarts: a node whose ota_install_remote committed its        *)
(* activation, with no other operation and no manifest view in between,    *)
(* would pass the boot self-check.                                         *)
THEOREM InstallRestarts == Spec => OkInstallRestarts
<1> DEFINE A == \A w \in Worker :
                  (op[w].pc = "record_ok" /\ op[w].kind = "install"
                      /\ op[w].alone /\ op'[w].pc = "idle" /\ up')
                     => BootVerifies'
<1>1. All /\ [Next]_vars => [A]_vars
  <2> SUFFICES ASSUME All, [Next]_vars, NEW w \in Worker, op[w].alone,
                      op[w].pc = "record_ok", op[w].kind = "install",
                      op'[w].pc = "idle", up'
               PROVE  BootVerifies'
    OBVIOUS
  <2>1. /\ op[w].ver \in Version /\ marker' = op[w].ver
        /\ disk' = disk /\ disk[op[w].ver] \in {"so", "full"}
        /\ binding' = binding
        /\ env.hot => slot' = op[w].ver
        /\ op[w].kind = "install" => binding = op[w].ver
    BY Committed
  <2> QED BY <2>1 DEF BootVerifies
<1> QED BY <1>1, AllHolds, PTL DEF Spec, OkInstallRestarts

(* Only ActivatePrune removes a version directory.                         *)
LEMMA OnlyPruneRemoves ==
  ASSUME TInv, NEW w \in Worker, WorkerStep(w), NEW v \in Version,
         disk[v] # "absent", disk'[v] = "absent"
  PROVE  ActivatePrune(w)
<1>0. disk \in [Version -> Staged]
  BY DEF TInv, TypeOK
<1>1. disk' # disk
  OBVIOUS
<1>2. ~ StageDir(w) /\ ~ StageCopy(w) /\ ~ StageMeta(w)
  BY <1>0 DEF StageDir, StageCopy, StageMeta
<1> QED BY <1>1, <1>2 DEF WorkerStep, StageRecord, Floor,
        ActivateTruncate, ActivateWrite, ActivatePruneList, ActivatePruned,
        Load, RestoreTruncate, RestoreWrite, RecordFail, RecordOk, store

(* PruneKeepsRollback: an activation that no other operation overlapped    *)
(* leaves, after each deletion of an old version and whichever deletions   *)
(* fail, the version the marker names and at least KEEP_ROLLBACK_VERSIONS  *)
(* others, for any number of versions on disk.                             *)
THEOREM RollbackKept == Spec => PruneKeepsRollback
<1> DEFINE A == \A w \in Worker :
                  (op[w].pc = "prune" /\ op[w].alone
                      /\ \E v \in Version : disk[v] # "absent" /\ disk'[v] = "absent")
                  => /\ marker \in Version /\ disk'[marker] # "absent"
                     /\ Cardinality({v \in Version : disk'[v] # "absent"} \ {marker})
                           >= KeepRollback
<1>1. All /\ [Next]_vars => [A]_vars
  <2> SUFFICES ASSUME All, [Next]_vars, NEW w \in Worker, op[w].pc = "prune",
                      op[w].alone, NEW v \in Version,
                      disk[v] # "absent", disk'[v] = "absent"
               PROVE  /\ marker \in Version /\ disk'[marker] # "absent"
                      /\ Cardinality({x \in Version : disk'[x] # "absent"} \ {marker})
                            >= KeepRollback
    OBVIOUS
  <2>0. TInv /\ AInv /\ RInv /\ op[w].ver \in Version
    BY DEF All, TInv, Versioned
  <2>1. ~ Crash /\ ~ UNCHANGED vars
    BY DEF Crash, vars
  <2>2. \A x \in Worker : ~ Request(x)
    BY <2>0, OpRequest
  <2>3. ActivatePrune(w)
    BY <2>0, <2>1, <2>2, AloneMoves, OnlyPruneRemoves
  <2>4. Ready(w)
    BY <2>0 DEF RInv
  <2>5. marker = op[w].ver
    BY <2>4 DEF Ready, Written
  <2>6. /\ disk'[op[w].ver] # "absent"
        /\ Cardinality(Dirs' \ {op[w].ver}) >= KeepRollback
    BY <2>0, <2>3, <2>4, PruneOne
  <2> QED BY <2>0, <2>5, <2>6 DEF Dirs
<1> QED BY <1>1, AllHolds, PTL DEF Spec, PruneKeepsRollback

=============================================================================
