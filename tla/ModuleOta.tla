----------------------------- MODULE ModuleOta ------------------------------
(***************************************************************************)
(* One OTA module (say "analyze") on one node: the version store and the   *)
(* active marker of crates/gr-ota, Runtime::ota_install_remote and         *)
(* ota_activate of crates/gr-runtime, the hot-swap registry, the control   *)
(* database's module rows, and the boot path of gr-service with its        *)
(* integrity self-check.                                                   *)
(*                                                                         *)
(* Workers are the threads that may run an OTA operation at the same time: *)
(* the panel's request handlers and the unattended hot-OTA thread.  No     *)
(* lock is shared between them, so every file operation is a step.         *)
(*                                                                         *)
(* Abstractions.  A version is a number in semver order, and version v is  *)
(* published by release v, which is signed with its own release key (the   *)
(* release scripts rotate it); the key is identified with v.  Downloads    *)
(* and signatures are genuine; what can fail is I/O, dlopen and the        *)
(* database.  The binding file is written in one step.                     *)
(***************************************************************************)
EXTENDS Integers, FiniteSets

CONSTANTS Worker,
          Asks,             \* Asks[w]: the operations w starts (a bound)
          MaxVersion,       \* versions published, 1..MaxVersion
          KeepRollback,     \* KEEP_ROLLBACK_VERSIONS
          Env,              \* the deployments considered, see EnvType
          MaxOps,           \* bound on operations started
          MaxCrash,         \* bound on crashes
          None,             \* no file / no value
          Torn,             \* a marker file truncated and not yet written
          Builtin           \* the statically linked version's database row

Version == 1..MaxVersion

(* ota_install_remote without and with activation, modules_activate; the   *)
(* manifest view is a single step.                                         *)
Kind == {"stage", "install", "activate"}

(* hot: should_hot_dlopen(name).  prod: production or STRICT_BOOT_VERIFY,  *)
(* so a failed boot self-check refuses to boot.  downgrade: the operator   *)
(* set OTA_ALLOW_DOWNGRADE.                                                *)
EnvType == [hot : BOOLEAN, prod : BOOLEAN, downgrade : BOOLEAN]

ASSUME ConstAssumption ==
    /\ MaxVersion \in Nat \ {0} /\ KeepRollback \in Nat
    /\ MaxOps \in Nat /\ MaxCrash \in Nat
    /\ Env \subseteq EnvType
    /\ Asks \in [Worker -> SUBSET (Kind \cup {"manifest"})]
    /\ None \notin Version /\ Torn \notin Version /\ Builtin \notin Version
    /\ None # Torn

VARIABLES
    env,        \* the deployment, fixed
    up,         \* the process runs and has booted
    disk,       \* disk[v]: versions/<name>/v: how far it has been staged
    marker,     \* the file active/<name>
    binding,    \* release_binding.json: the release key boot checks with
    slot,       \* the registry's loaded version
    rows,       \* control.module_versions rows of this module
    dbActive,   \* the rows with active=1
    op,         \* op[w]: what worker w is doing
    committed,  \* history: highest version ota_activate committed
    clean,      \* history: so far no two operations overlapped and no write
                \* of the marker failed half-way
    ops, crashes

vars == <<env, up, disk, marker, binding, slot, rows, dbActive, op,
          committed, clean, ops, crashes>>

store == <<disk, marker, binding, slot, rows, dbActive>>

(* A version directory is created, receives the .so, then its meta.json.   *)
Staged == {"absent", "dir", "so", "full"}

HasSo(v) == disk[v] \in {"so", "full"}

(* The program points of an operation.  prev is the marker read for the    *)
(* floor test and for roll-back; doomed is the list prune_versions made,   *)
(* less what is done; alone is history: no other operation of this process *)
(* overlapped this one.                                                    *)
PC == {"idle", "stage", "copy", "meta", "record", "floor", "truncate",
       "write", "prune_list", "prune", "load", "restore_truncate",
       "restore_write", "record_fail", "record_ok"}

OpType == [pc : PC, ver : Version \cup {None}, kind : Kind \cup {None},
           prev : Version \cup {None, Torn}, doomed : SUBSET Version,
           alone : BOOLEAN]

Idle == [pc |-> "idle", ver |-> None, kind |-> None,
         prev |-> None, doomed |-> {}, alone |-> FALSE]

(* Types, and only a module that should_hot_dlopen is ever in the          *)
(* registry: "other plugin .so conflict with static-linked crates and      *)
(* historically SEGV on re-load" (ota_activate, load_active_tree).         *)
TypeOK ==
    /\ env \in Env
    /\ up \in BOOLEAN
    /\ disk \in [Version -> Staged]
    /\ marker \in Version \cup {None, Torn}
    /\ binding \in Version \cup {None}
    /\ slot \in Version \cup {None}
    /\ slot # None => env.hot
    /\ rows \subseteq Version \cup {Builtin}
    /\ dbActive \subseteq rows
    /\ op \in [Worker -> OpType]
    /\ committed \in Version \cup {None}
    /\ clean \in BOOLEAN
    /\ ops \in 0..MaxOps /\ crashes \in 0..MaxCrash

(* A node installed with version 1 of the module, or with no module yet.   *)
Init ==
    /\ env \in Env
    /\ up = TRUE
    /\ \/ /\ disk = [v \in Version |-> IF v = 1 THEN "full" ELSE "absent"]
          /\ marker = 1 /\ binding = 1 /\ committed = 1
          /\ slot = IF env.hot THEN 1 ELSE None
          /\ rows = {1, Builtin}
          /\ dbActive = IF env.hot THEN {1} ELSE {Builtin}
       \/ /\ disk = [v \in Version |-> "absent"]
          /\ marker = None /\ binding = None /\ committed = None
          /\ slot = None /\ rows = {Builtin} /\ dbActive = {Builtin}
    /\ op = [w \in Worker |-> Idle]
    /\ clean = TRUE
    /\ ops = 0 /\ crashes = 0

-----------------------------------------------------------------------------
At(w, pc) == up /\ op[w].pc = pc

Goto(w, pc) == op' = [op EXCEPT ![w].pc = pc]

Done(w) == op' = [op EXCEPT ![w] = Idle]

OthersIdle(w) == \A x \in Worker \ {w} : op[x].pc = "idle"

(* An operation of w starts (or, for r = Idle, is a single step): whatever *)
(* else is going on is no longer alone.                                    *)
Begin(w, r) ==
    /\ op' = [x \in Worker |->
                 IF x = w THEN [r EXCEPT !.alone = r # Idle /\ OthersIdle(w)]
                          ELSE [op[x] EXCEPT !.alone = FALSE]]
    /\ clean' = (clean /\ OthersIdle(w))
    /\ ops < MaxOps /\ ops' = ops + 1

(* ota_fetch_manifest (the panel's manifest view): the verified manifest's *)
(* release key becomes the persisted binding.                              *)
ota_fetch_manifest(w, v) ==
    /\ At(w, "idle")
    /\ binding' = v
    /\ Begin(w, Idle)
    /\ UNCHANGED <<env, up, disk, marker, slot, rows, dbActive,
                   committed, crashes>>

(* ota_install_remote up to the download: manifest, binding, artifact.     *)
ota_install_remote(w, v, kind) ==
    /\ At(w, "idle")
    /\ binding' = v
    /\ Begin(w, [Idle EXCEPT !.pc = "stage", !.ver = v, !.kind = kind])
    /\ UNCHANGED <<env, up, disk, marker, slot, rows, dbActive,
                   committed, crashes>>

(* stage_local_file: the persisted binding is reloaded and the artifact's  *)
(* second signature must match it; then the version directory is made.     *)
StageDir(w) ==
    /\ At(w, "stage")
    /\ IF binding = op[w].ver
       THEN /\ disk' = [disk EXCEPT ![op[w].ver] =
                           IF @ = "absent" THEN "dir" ELSE @]
            /\ Goto(w, "copy")
       ELSE Done(w) /\ UNCHANGED disk
    /\ UNCHANGED <<env, up, marker, binding, slot, rows, dbActive,
                   committed, clean, ops, crashes>>

(* The copy and rename of the .so; it fails when the directory has been    *)
(* removed meanwhile, and may fail for lack of space.                      *)
StageCopy(w) ==
    /\ At(w, "copy")
    /\ \/ /\ disk[op[w].ver] # "absent"
          /\ disk' = [disk EXCEPT ![op[w].ver] = IF @ = "dir" THEN "so" ELSE @]
          /\ Goto(w, "meta")
       \/ Done(w) /\ UNCHANGED disk
    /\ UNCHANGED <<env, up, marker, binding, slot, rows, dbActive,
                   committed, clean, ops, crashes>>

(* The meta.json sidecar, under the same conditions.                       *)
StageMeta(w) ==
    /\ At(w, "meta")
    /\ \/ /\ disk[op[w].ver] # "absent"
          /\ disk' = [disk EXCEPT ![op[w].ver] = IF @ = "so" THEN "full" ELSE @]
          /\ Goto(w, "record")
       \/ Done(w) /\ UNCHANGED disk
    /\ UNCHANGED <<env, up, marker, binding, slot, rows, dbActive,
                   committed, clean, ops, crashes>>

(* record_module(name, v, .., active = false): an upsert that also clears  *)
(* the active flag of an existing row.                                     *)
RecordInactive(v) == rows' = rows \cup {v} /\ dbActive' = dbActive \ {v}

(* ota_install_remote records the staged version and goes on to activate   *)
(* it when asked to; a database error ends the operation.                  *)
StageRecord(w) ==
    /\ At(w, "record")
    /\ \/ /\ RecordInactive(op[w].ver)
          /\ IF op[w].kind = "install" THEN Goto(w, "floor") ELSE Done(w)
       \/ Done(w) /\ UNCHANGED <<rows, dbActive>>
    /\ UNCHANGED <<env, up, disk, marker, binding, slot, committed, clean, ops, crashes>>

(* The panel's modules_activate request for any version number.            *)
modules_activate(w, v) ==
    /\ At(w, "idle")
    /\ Begin(w, [Idle EXCEPT !.pc = "floor", !.ver = v, !.kind = "activate"])
    /\ UNCHANGED <<env, up, store, committed, crashes>>

\* Mutant: the floor lets a downgrade through.
BelowFloor_Mut(new, prev) == FALSE

(* The monotonic version floor of ota_activate.  A marker that is missing  *)
(* or empty names no version and sets no floor.                            *)
BelowFloor(new, prev) == prev \in Version /\ new < prev /\ ~ env.downgrade

(* ota_activate: snapshot the previous marker, then the floor.             *)
Floor(w) ==
    /\ At(w, "floor")
    /\ IF BelowFloor(op[w].ver, marker)
       THEN Done(w)
       ELSE op' = [op EXCEPT ![w] = [@ EXCEPT !.pc = "truncate", !.prev = marker]]
    /\ UNCHANGED <<env, up, store, committed, clean, ops, crashes>>

(* OtaEngine::activate: the version must be staged; fs::write truncates    *)
(* the marker before it writes it, or fails to open it.                    *)
ActivateTruncate(w) ==
    /\ At(w, "truncate")
    /\ \/ /\ disk[op[w].ver] # "absent"
          /\ marker' = Torn
          /\ Goto(w, "write")
       \/ Done(w) /\ UNCHANGED marker
    /\ UNCHANGED <<env, up, disk, binding, slot, rows, dbActive,
                   committed, clean, ops, crashes>>

\* Mutant: the marker is left empty.
ActivateWrite_Mut(w) ==
    /\ At(w, "write")
    /\ Goto(w, "prune_list")
    /\ UNCHANGED <<env, up, store, committed, clean, ops, crashes>>

(* The write itself.  When it fails (a full disk) the operation ends with  *)
(* an error and the marker stays as the truncation left it.                *)
ActivateWrite(w) ==
    /\ At(w, "write")
    /\ \/ marker' = op[w].ver /\ Goto(w, "prune_list") /\ UNCHANGED clean
       \/ clean' = FALSE /\ Done(w) /\ UNCHANGED marker
    /\ UNCHANGED <<env, up, disk, binding, slot, rows, dbActive,
                   committed, ops, crashes>>

Dirs == {v \in Version : disk[v] # "absent"}

Newer(v, S) == {u \in S : u > v}

\* Mutant: the active version is not set apart before the newest are kept.
PruneList_Mut(active) ==
    {v \in Dirs : Cardinality(Newer(v, Dirs)) >= KeepRollback}

(* What prune_versions deletes: every version but the one the marker names *)
(* and the KeepRollback newest of the others.                              *)
PruneList(active) ==
    LET others == Dirs \ {active}
    IN  {v \in others : Cardinality(Newer(v, others)) >= KeepRollback}

(* prune_versions lists the directories and reads the marker; its errors   *)
(* are ignored, so a failed listing deletes nothing.                       *)
ActivatePruneList(w) ==
    /\ At(w, "prune_list")
    /\ \E doomed \in {PruneList(marker), {}} :
          op' = [op EXCEPT ![w] = [@ EXCEPT !.pc = "prune", !.doomed = doomed]]
    /\ UNCHANGED <<env, up, store, committed, clean, ops, crashes>>

(* One directory of the list, newest first: remove_dir_all removes it, or  *)
(* fails at once, or fails after some of its files are gone; the loop goes *)
(* on in every case.                                                       *)
ActivatePrune(w) ==
    /\ At(w, "prune")
    /\ \E v \in op[w].doomed :
          /\ Newer(v, op[w].doomed) = {}
          /\ \E left \in {"absent", "dir", disk[v]} :
                disk' = [disk EXCEPT ![v] = IF @ = "absent" THEN @ ELSE left]
          /\ op' = [op EXCEPT ![w].doomed = @ \ {v}]
    /\ UNCHANGED <<env, up, marker, binding, slot, rows, dbActive,
                   committed, clean, ops, crashes>>

ActivatePruned(w) ==
    /\ At(w, "prune")
    /\ op[w].doomed = {}
    /\ Goto(w, "load")
    /\ UNCHANGED <<env, up, store, committed, clean, ops, crashes>>

\* Mutant: the should_hot_dlopen test is dropped.
Load_Mut2(w) ==
    /\ At(w, "load")
    /\ \/ ~ HasSo(op[w].ver) /\ Done(w) /\ UNCHANGED slot
       \/ /\ HasSo(op[w].ver)
          /\ slot' = op[w].ver /\ Goto(w, "record_ok")
    /\ UNCHANGED <<env, up, disk, marker, binding, rows, dbActive,
                   committed, clean, ops, crashes>>

\* Mutant: a version without its .so is activated as if it had one.
Load_Mut(w) ==
    /\ At(w, "load")
    /\ \/ /\ ~ env.hot \/ slot = op[w].ver
          /\ Goto(w, "record_ok") /\ UNCHANGED slot
       \/ /\ env.hot /\ slot # op[w].ver
          /\ slot' = op[w].ver /\ Goto(w, "record_ok")
    /\ UNCHANGED <<env, up, disk, marker, binding, rows, dbActive,
                   committed, clean, ops, crashes>>

(* ota_activate after the engine: a version without a .so is an error that *)
(* leaves the new marker in place; a module that is not hot is done; a hot *)
(* one is loaded unless that very version already is, and dlopen, the      *)
(* compatibility test or the module's init may fail.                       *)
Load(w) ==
    /\ At(w, "load")
    /\ \/ ~ HasSo(op[w].ver) /\ Done(w) /\ UNCHANGED slot
       \/ /\ HasSo(op[w].ver)
          /\ ~ env.hot \/ slot = op[w].ver
          /\ Goto(w, "record_ok") /\ UNCHANGED slot
       \/ /\ HasSo(op[w].ver)
          /\ env.hot /\ slot # op[w].ver
          /\ \/ slot' = op[w].ver /\ Goto(w, "record_ok")
             \/ UNCHANGED slot /\ IF op[w].prev = None
                                  THEN Goto(w, "record_fail")
                                  ELSE Goto(w, "restore_truncate")
    /\ UNCHANGED <<env, up, disk, marker, binding, rows, dbActive,
                   committed, clean, ops, crashes>>

(* The roll-back of the marker after a failed hot_load: fs::write again,   *)
(* and whatever happens to it is ignored.                                  *)
RestoreTruncate(w) ==
    /\ At(w, "restore_truncate")
    /\ \/ marker' = Torn /\ Goto(w, "restore_write")
       \/ Goto(w, "record_fail") /\ UNCHANGED marker
    /\ UNCHANGED <<env, up, disk, binding, slot, rows, dbActive,
                   committed, clean, ops, crashes>>

RestoreWrite(w) ==
    /\ At(w, "restore_write")
    /\ \/ marker' = op[w].prev /\ UNCHANGED clean
       \/ clean' = FALSE /\ UNCHANGED marker
    /\ Goto(w, "record_fail")
    /\ UNCHANGED <<env, up, disk, binding, slot, rows, dbActive,
                   committed, ops, crashes>>

(* A failed activation is recorded as inactive (errors ignored) and        *)
(* ota_activate returns Err.                                               *)
RecordFail(w) ==
    /\ At(w, "record_fail")
    /\ RecordInactive(op[w].ver) \/ UNCHANGED <<rows, dbActive>>
    /\ Done(w)
    /\ UNCHANGED <<env, up, disk, marker, binding, slot, committed, clean, ops, crashes>>

(* record_module(active = true) and set_module_active, both with errors    *)
(* ignored and both clearing every active flag with a statement of its own *)
(* first: v ends as the only active row, or, when a statement fails or the *)
(* row does not exist, no row is active or nothing has changed.  The       *)
(* activation is committed.                                                *)
RecordOk(w) ==
    LET v == op[w].ver IN
    /\ At(w, "record_ok")
    /\ \/ rows' = rows \cup {v} /\ dbActive' = {v}
       \/ rows' = rows /\ dbActive' \in {rows \cap {v}, {}, dbActive}
    /\ committed' = IF committed = None \/ v > committed THEN v ELSE committed
    /\ Done(w)
    /\ UNCHANGED <<env, up, disk, marker, binding, slot, clean, ops, crashes>>

-----------------------------------------------------------------------------
(* The process dies: operations and the registry are gone, files stay.     *)
Crash ==
    /\ up /\ crashes < MaxCrash
    /\ up' = FALSE
    /\ slot' = None
    /\ op' = [w \in Worker |-> Idle]
    /\ crashes' = crashes + 1
    /\ UNCHANGED <<env, disk, marker, binding, rows, dbActive, committed, clean,
                   ops>>

(* ota_verify_active_modules at boot.  The marker must name a directory;   *)
(* a version without meta.json is only reported (an error under            *)
(* STRICT_BOOT_VERIFY, not modelled); the artifact's second signature must *)
(* verify with the bound release key.                                      *)
BootVerifies ==
    marker # None =>
        /\ marker \in Version
        /\ disk[marker] # "absent"
        /\ disk[marker] = "full" => binding = marker

(* Runtime::boot (load_active_tree: a hot module named by the marker is    *)
(* loaded if that succeeds), then seed_builtin_modules, then the           *)
(* self-check, which in production ends the process when it fails.         *)
Boot ==
    /\ ~ up
    /\ \E loaded \in IF env.hot /\ marker \in Version /\ HasSo(marker)
                     THEN {marker, None} ELSE {None} :
          /\ rows' = rows \cup {Builtin}
          /\ dbActive' = IF loaded = None THEN {Builtin} ELSE {loaded} \cap rows
          /\ up' = (env.prod => BootVerifies)
          /\ slot' = IF up' THEN loaded ELSE None
    /\ UNCHANGED <<env, disk, marker, binding, op, committed, clean, ops, crashes>>

WorkerStep(w) ==
    \/ StageDir(w) \/ StageCopy(w) \/ StageMeta(w) \/ StageRecord(w)
    \/ Floor(w) \/ ActivateTruncate(w) \/ ActivateWrite(w)
    \/ ActivatePruneList(w) \/ ActivatePrune(w) \/ ActivatePruned(w) \/ Load(w)
    \/ RestoreTruncate(w) \/ RestoreWrite(w) \/ RecordFail(w) \/ RecordOk(w)

Request(w) ==
    \E v \in Version :
        \/ "manifest" \in Asks[w] /\ ota_fetch_manifest(w, v)
        \/ "activate" \in Asks[w] /\ modules_activate(w, v)
        \/ \E kind \in {"stage", "install"} \cap Asks[w] :
              ota_install_remote(w, v, kind)

Next ==
    \/ \E w \in Worker : Request(w) \/ WorkerStep(w)
    \/ Crash
    \/ Boot

Spec == Init /\ [][Next]_vars

-----------------------------------------------------------------------------
Quiet == \A w \in Worker : op[w].pc = "idle"

(* "Never silently activate an older module over a newer one": between     *)
(* operations the marker names no version below one whose activation was   *)
(* committed, unless the operator allowed downgrades.  Three things undo   *)
(* the floor test of ota_activate, and the property says that they are the *)
(* only ones: operations that overlap, a marker write that fails half-way  *)
(* (clean), and, outside production, a crash inside that write.  In        *)
(* production the boot self-check refuses the empty marker.                *)
FloorHolds ==
    (up /\ Quiet /\ clean /\ (env.prod \/ crashes = 0)
        /\ ~ env.downgrade /\ committed # None)
        => marker \in Version /\ marker >= committed

(* When an ota_activate that no other operation overlapped commits, that   *)
(* version is what the marker names, it is on disk with its .so, and a hot *)
(* module runs it, whatever overlapped, failed or crashed before: neither  *)
(* pruning nor a failed deletion undid the activation on the way.          *)
OkMeansActive ==
    [][\A w \in Worker :
          (op[w].pc = "record_ok" /\ op[w].alone /\ op'[w].pc = "idle" /\ up')
              => /\ marker' = op[w].ver
                 /\ disk'[op[w].ver] \in {"so", "full"}
                 /\ env.hot => slot' = op[w].ver]_vars

(* When an ota_install_remote that no other operation and no manifest view *)
(* overlapped commits its activation, the node would pass its boot         *)
(* self-check: the marker, the staged version and the persisted release    *)
(* binding belong together.                                                *)
OkInstallRestarts ==
    [][\A w \in Worker :
          (op[w].pc = "record_ok" /\ op[w].kind = "install" /\ op[w].alone
              /\ op'[w].pc = "idle" /\ up') => BootVerifies']_vars

(* An activation that no other operation overlapped deletes old versions   *)
(* so that the one the marker names and at least KeepRollback other        *)
(* directories are left, after each deletion and whichever deletions fail. *)
PruneKeepsRollback ==
    [][\A w \in Worker :
          (op[w].pc = "prune" /\ op[w].alone
              /\ \E v \in Version : disk[v] # "absent" /\ disk'[v] = "absent")
          => /\ marker \in Version /\ disk'[marker] # "absent"
             /\ Cardinality({v \in Version : disk'[v] # "absent"} \ {marker})
                   >= KeepRollback]_vars

(* The release binding is persisted so that verify_active_modules can      *)
(* check the active module with its release key at the next boot.          *)
(* Everything staged here is genuine, so a production node that is         *)
(* restarted between operations must boot.                                 *)
RestartSucceeds == Quiet /\ env.prod /\ crashes = 0 => BootVerifies

=============================================================================
