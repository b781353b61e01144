-------------------------- MODULE ClusterOtaProofs --------------------------
(***************************************************************************)
(* Proofs about the cluster's desired release, for every number of         *)
(* modules, releases and panel requests in flight.  CompleteTickApplied    *)
(* needs to know what a tick has achieved so far (HotOK) and that nobody   *)
(* undoes it (Rises): panel requests re-point the base and install modules *)
(* of their own between any two steps of the tick.                         *)
(***************************************************************************)
EXTENDS ClusterOta, TLAPS

(* What the threads share, on its own.                                     *)
Shared ==
    /\ mode \in {"enforce", "warn"}
    /\ desired \in ClusterOtaDesired \cup {None}
    /\ base \in Release
    /\ marker \in [Module -> Release \cup {None}]
    /\ fe \in Release \cup {None}
    /\ streak \in 0..StreakCap
    /\ ops \in 0..MaxOps /\ fails \in 0..MaxFail /\ crashes \in 0..MaxCrash

(* What a thread must already know at each of its steps: the release it    *)
(* declares or installs, the package it extracted; only an install has     *)
(* modules left.                                                           *)
PcOK(r) ==
    /\ r.pc = "read" => r.kind \in {"set_url", "full", "apply"}
    /\ r.pc = "read" /\ r.kind = "apply" => r.version \in Release
    /\ r.pc = "write" => r.kind \in {"set_url", "full", "apply"}
    /\ r.pc \in {"write", "repoint", "module"} => r.version \in Release
    /\ r.pc = "fe_copy" => r.package \in Release
    /\ r.pc # "module" => r.todo = {}

(* As long as a tick that activates has met no error, every module it is   *)
(* done with is at the release of its manifest or above.                   *)
HotOK(r, mk) ==
    r.ok /\ r.activate /\ r.pc \in {"module", "fe", "fe_copy"} =>
        /\ r.version \in Release
        /\ \A m \in Module \ r.todo : mk[m] # None /\ mk[m] >= r.version

(* The inductive invariant.                                                *)
IInv ==
    /\ Shared
    /\ th \in [Thread -> ThreadType]
    /\ \A t \in Thread : PcOK(th[t])
    /\ HotOK(th[Hot], marker)

(* No step lowers or removes a marker: what HotOK says survives the panel. *)
Rises == \A m \in Module : marker[m] # None => marker'[m] # None /\ marker'[m] >= marker[m]

(* The assumptions on the constants, in the form the steps use.            *)
LEMMA Consts ==
    /\ Analyze \in Module /\ Hot \notin Panel /\ Hot \in Thread
    /\ \A p \in Panel : p \in Thread /\ p # Hot
    /\ Release \subseteq Nat /\ 1 \in Release /\ None \notin Release
    /\ MaxOps \in Nat /\ MaxFail \in Nat /\ MaxCrash \in Nat
BY ConstAssumption DEF Thread, Release

(* A step of one thread, from its new record.                              *)
LEMMA Update ==
    ASSUME IInv, Shared', NEW t \in Thread, NEW r \in ThreadType, PcOK(r),
           th' = [th EXCEPT ![t] = r], t = Hot => HotOK(r, marker'), Rises
    PROVE  IInv'
<1>1. th \in [Thread -> ThreadType] /\ marker \in [Module -> Release \cup {None}]
      /\ marker' \in [Module -> Release \cup {None}]
  BY DEF IInv, Shared
<1>2. th' \in [Thread -> ThreadType] /\ \A x \in Thread : th'[x] = IF x = t THEN r ELSE th[x]
  BY <1>1
<1>3. \A x \in Thread : PcOK(th'[x])
  BY <1>2 DEF IInv
<1>4. HotOK(th'[Hot], marker')
  <2>1. CASE t = Hot
    BY <1>2, <2>1
  <2>2. CASE t # Hot
    <3>1. th'[Hot] = th[Hot] /\ HotOK(th[Hot], marker)
      BY <1>2, <2>2, Consts DEF IInv
    <3>2. \A v \in Release : \A m \in Module :
             marker[m] # None /\ marker[m] >= v => marker'[m] # None /\ marker'[m] >= v
      <4> SUFFICES ASSUME NEW v \in Release, NEW m \in Module, marker[m] # None, marker[m] >= v
                   PROVE  marker'[m] # None /\ marker'[m] >= v
        OBVIOUS
      <4>1. marker'[m] # None /\ marker'[m] >= marker[m]
        BY DEF Rises
      <4>2. v \in Nat /\ marker[m] \in Nat /\ marker'[m] \in Nat
        BY <1>1, <4>1, Consts
      <4> QED BY <4>1, <4>2
    <3> DEFINE r0 == th[Hot]
    <3>3. HotOK(r0, marker')
      <4>2. ASSUME r0.ok /\ r0.activate /\ r0.pc \in {"module", "fe", "fe_copy"}
            PROVE  /\ r0.version \in Release
                   /\ \A m \in Module \ r0.todo : marker[m] # None /\ marker[m] >= r0.version
        BY <3>1, <4>2, Zenon DEF HotOK
      <4> HIDE DEF r0
      <4>3. ASSUME r0.ok /\ r0.activate /\ r0.pc \in {"module", "fe", "fe_copy"}
            PROVE  /\ r0.version \in Release
                   /\ \A m \in Module \ r0.todo : marker'[m] # None /\ marker'[m] >= r0.version
        BY <3>2, <4>2, <4>3
      <4> QED BY <4>3, Zenon DEF HotOK
    <3> QED BY <3>1, <3>3
  <2> QED BY <2>1, <2>2
<1> QED BY <1>2, <1>3, <1>4 DEF IInv

(* A thread that is idle knows nothing.                                    *)
LEMMA IdleOK == Idle \in ThreadType /\ PcOK(Idle) /\ \A mk : HotOK(Idle, mk)
BY DEF Idle, ThreadType, PC, OptBool, Kind, PcOK, HotOK

LEMMA StreakType ==
    ASSUME streak \in 0..StreakCap, NEW t, NEW ok, Finish(t, ok)
    PROVE  streak' \in 0..StreakCap /\ th' = [th EXCEPT ![t] = Idle]
BY DEF Finish, Set, StreakCap

LEMMA FailsType ==
    ASSUME IInv, Fails \/ Works
    PROVE  fails' \in 0..MaxFail
BY Consts DEF IInv, Shared, Fails, Works

(* The end of a thread's work.                                             *)
LEMMA FinishStep ==
    ASSUME IInv, NEW t \in Thread, NEW ok, Finish(t, ok), Fails \/ Works,
           mode' = mode, desired' \in ClusterOtaDesired \cup {None}, base' \in Release,
           marker' \in [Module -> Release \cup {None}], Rises,
           fe' \in Release \cup {None}, ops' = ops, crashes' = crashes
    PROVE  IInv'
<1>1. streak' \in 0..StreakCap /\ th' = [th EXCEPT ![t] = Idle]
  BY StreakType DEF IInv, Shared
<1>2. Shared'
  BY <1>1, FailsType DEF IInv, Shared
<1> QED BY <1>1, <1>2, IdleOK, Update

(* A step after which the thread goes on.                                  *)
LEMMA ContinueStep ==
    ASSUME IInv, NEW t \in Thread, NEW r \in ThreadType, Continue(t, r), PcOK(r),
           t = Hot => HotOK(r, marker'), fails' \in 0..MaxFail,
           mode' = mode, desired' \in ClusterOtaDesired \cup {None}, base' \in Release,
           marker' \in [Module -> Release \cup {None}], Rises,
           fe' \in Release \cup {None}, ops' \in 0..MaxOps, crashes' = crashes
    PROVE  IInv'
<1>1. th' = [th EXCEPT ![t] = r] /\ streak' = streak
  BY DEF Continue, Set
<1>2. Shared'
  BY <1>1 DEF IInv, Shared
<1> QED BY <1>1, <1>2, Update

LEMMA SameRises ==
    ASSUME IInv, marker' = marker
    PROVE  Rises
<1>1. marker \in [Module -> Release \cup {None}]
  BY DEF IInv, Shared
<1>2. ASSUME NEW m \in Module, marker[m] # None PROVE marker[m] \in Nat
  BY <1>1, <1>2, Consts
<1> QED BY <1>2 DEF Rises

-----------------------------------------------------------------------------
(* The hot thread's tick, and the installs it shares with the panel.       *)
LEMMA TickStep ==
    ASSUME IInv, apply_cluster_ota_tick
    PROVE  IInv'
<1>0. Shared /\ Hot \in Thread /\ UNCHANGED <<mode, desired, marker, fe, ops, crashes>>
  BY Consts DEF IInv, apply_cluster_ota_tick
<1>1. Rises /\ desired \in ClusterOtaDesired \cup {None}
  BY <1>0, SameRises DEF Shared
<1>2. ASSUME NEW ok, Finish(Hot, ok), Fails \/ Works, UNCHANGED base PROVE IInv'
  <2>1. base' \in Release /\ desired' \in ClusterOtaDesired \cup {None}
        /\ marker' \in [Module -> Release \cup {None}] /\ fe' \in Release \cup {None}
    BY <1>0, <1>2 DEF Shared
  <2> QED BY <1>0, <1>1, <1>2, <2>1, FinishStep
<1> DEFINE follow == desired # None /\ desired.auto_apply /\ mode = "enforce"
           decision == IF follow THEN hot_apply_decision(desired.version) ELSE "none"
<1>3. CASE decision \in {"Apply", "Closed"} /\ base' = desired.version /\ Works
           /\ \/ Finish(Hot, TRUE)
              \/ Continue(Hot, [Idle EXCEPT !.pc = "manifest", !.kind = "tick",
                               !.activate = desired.activate, !.fe = TRUE])
  <2>1. follow
    BY <1>3
  <2>2. desired \in ClusterOtaDesired
    BY <1>1, <2>1, Zenon
  <2> HIDE DEF follow, decision
  <2>3. desired.version \in Release /\ desired.activate \in BOOLEAN
    BY <2>2 DEF ClusterOtaDesired
  <2>4. base' \in Release /\ desired' \in ClusterOtaDesired \cup {None}
        /\ marker' \in [Module -> Release \cup {None}] /\ fe' \in Release \cup {None}
        /\ fails' \in 0..MaxFail /\ ops' \in 0..MaxOps
    BY <1>0, <1>3, <2>3 DEF Shared, Works
  <2>5. CASE Finish(Hot, TRUE)
    BY <1>0, <1>1, <1>3, <2>4, <2>5, FinishStep
  <2>6. CASE Continue(Hot, [Idle EXCEPT !.pc = "manifest", !.kind = "tick",
                               !.activate = desired.activate, !.fe = TRUE])
    <3> DEFINE r == [Idle EXCEPT !.pc = "manifest", !.kind = "tick",
                               !.activate = desired.activate, !.fe = TRUE]
    <3>1. r \in ThreadType
      BY <2>3 DEF Idle, ThreadType, PC, OptBool, Kind
    <3>2. r.pc = "manifest" /\ r.todo = {}
      BY DEF Idle
    <3> HIDE DEF r
    <3>3. PcOK(r) /\ HotOK(r, marker')
      BY <3>2 DEF PcOK, HotOK
    <3>4. Continue(Hot, r)
      BY <2>6 DEF r
    <3> QED BY <1>0, <1>1, <2>4, <3>1, <3>3, <3>4, ContinueStep
  <2> QED BY <1>3, <2>5, <2>6
<1> QED BY <1>2, <1>3 DEF apply_cluster_ota_tick, set_release_base_url

(* After the modules: nothing is left to do, and all went well only if     *)
(* every module is there.                                                  *)
LEMMA AfterModulesStep ==
    ASSUME IInv, NEW t \in Thread, NEW r \in ThreadType, AfterModules(t, r), r.todo = {},
           t = Hot => HotOK([r EXCEPT !.pc = "fe"], marker'), Fails \/ Works,
           marker' \in [Module -> Release \cup {None}], Rises,
           UNCHANGED <<mode, desired, base, fe, ops, crashes>>
    PROVE  IInv'
<1>1. base' \in Release /\ desired' \in ClusterOtaDesired \cup {None} /\ fe' \in Release \cup {None}
      /\ ops' \in 0..MaxOps /\ fails' \in 0..MaxFail
  BY FailsType DEF IInv, Shared
<1>2. CASE Finish(t, r.ok)
  BY <1>1, <1>2, FinishStep
<1>3. CASE Continue(t, [r EXCEPT !.pc = "fe"])
  <2> DEFINE u == [r EXCEPT !.pc = "fe"]
  <2>1. u \in ThreadType /\ u.pc = "fe" /\ u.todo = {}
    BY DEF ThreadType, PC
  <2>2. Continue(t, u) /\ (t = Hot => HotOK(u, marker'))
    BY <1>3
  <2> HIDE DEF u
  <2>3. PcOK(u)
    BY <2>1 DEF PcOK
  <2> QED BY <1>1, <2>1, <2>2, <2>3, ContinueStep
<1> QED BY <1>2, <1>3 DEF AfterModules

LEMMA ManifestStep ==
    ASSUME IInv, NEW t \in Thread, ota_install_all_remote(t)
    PROVE  IInv'
<1> DEFINE r == th[t]
<1>0. /\ Shared /\ r \in ThreadType /\ PcOK(r) /\ r.pc = "manifest"
      /\ UNCHANGED <<mode, desired, base, marker, fe, ops, crashes>>
  BY DEF IInv, ota_install_all_remote
<1>1. Rises /\ base' \in Release /\ desired' \in ClusterOtaDesired \cup {None}
      /\ marker' \in [Module -> Release \cup {None}] /\ fe' \in Release \cup {None}
      /\ ops' \in 0..MaxOps
  BY <1>0, SameRises DEF Shared
<1>2. CASE Works /\ Continue(t, [r EXCEPT !.pc = "module", !.version = base, !.todo = Module])
  <2> DEFINE u == [r EXCEPT !.pc = "module", !.version = base, !.todo = Module]
  <2>1. base \in Release
    BY <1>0 DEF Shared
  <2>2. u \in ThreadType /\ u.pc = "module" /\ u.version = base /\ u.todo = Module
    BY <1>0, <2>1 DEF ThreadType, PC
  <2>3. Continue(t, u) /\ fails' \in 0..MaxFail
    BY <1>2, FailsType
  <2> HIDE DEF u
  <2>4. PcOK(u)
    BY <2>1, <2>2 DEF PcOK
  <2>5. HotOK(u, marker')
    <3>1. u.version \in Release /\ \A m \in Module \ u.todo : marker'[m] # None /\ marker'[m] >= u.version
      BY <2>1, <2>2
    <3> QED BY <3>1, Zenon DEF HotOK
  <2> QED BY <1>0, <1>1, <2>2, <2>3, <2>4, <2>5, ContinueStep
<1>3. CASE Fails /\ AfterModules(t, [r EXCEPT !.ok = FALSE])
  <2> DEFINE u == [r EXCEPT !.ok = FALSE]
             f == [u EXCEPT !.pc = "fe"]
  <2>1. u \in ThreadType /\ u.todo = {} /\ f.ok = FALSE
    BY <1>0 DEF ThreadType, PcOK
  <2>2. HotOK(f, marker')
    BY <2>1, Zenon DEF HotOK
  <2>3. AfterModules(t, u) /\ HotOK([u EXCEPT !.pc = "fe"], marker')
    BY <1>3, <2>2
  <2> HIDE DEF u, f
  <2> QED BY <1>0, <1>1, <1>3, <2>1, <2>3, AfterModulesStep
<1> QED BY <1>2, <1>3 DEF ota_install_all_remote

(* A marker only changes when a module is installed, and only upwards.     *)
LEMMA ModuleRises ==
    ASSUME IInv, NEW t \in Thread, ota_install_remote(t)
    PROVE  marker' \in [Module -> Release \cup {None}] /\ Rises
<1> DEFINE r == th[t]
<1>0. Shared /\ r \in ThreadType /\ PcOK(r) /\ r.pc = "module"
  BY DEF IInv, ota_install_remote
<1>1. r.version \in Release /\ r.todo \in SUBSET Module
  BY <1>0 DEF PcOK, ThreadType
<1>2. marker \in [Module -> Release \cup {None}]
  BY <1>0 DEF Shared
<1>3. CASE marker' = marker
  BY <1>2, <1>3, SameRises
<1>4. CASE marker' # marker
  <2>1. PICK m \in r.todo : /\ Installable(m, r.version, r.activate) /\ r.activate
                            /\ marker' = [marker EXCEPT ![m] = r.version]
    BY <1>4 DEF ota_install_remote
  <2>2. marker[m] # None => r.version >= marker[m]
    BY <2>1, Zenon DEF Installable
  <2>3. marker' \in [Module -> Release \cup {None}]
        /\ \A x \in Module : marker'[x] = IF x = m THEN r.version ELSE marker[x]
    BY <1>1, <1>2, <2>1
  <2>4. ASSUME NEW x \in Module, marker[x] # None PROVE marker'[x] # None /\ marker'[x] >= marker[x]
    <3>1. marker[x] \in Nat /\ r.version \in Nat /\ r.version # None
      BY <1>1, <1>2, <2>4, Consts
    <3> QED BY <2>2, <2>3, <2>4, <3>1
  <2> QED BY <2>3, <2>4 DEF Rises
<1> QED BY <1>3, <1>4

(* One module: its marker rises to the version of the manifest, or the     *)
(* install fails and the thread knows it.                                  *)
LEMMA ModuleStep ==
    ASSUME IInv, NEW t \in Thread, ota_install_remote(t)
    PROVE  IInv'
<1> DEFINE r == th[t]
<1>0. /\ Shared /\ r \in ThreadType /\ PcOK(r) /\ r.pc = "module"
      /\ UNCHANGED <<mode, desired, base, fe, ops, crashes>>
  BY DEF IInv, ota_install_remote
<1>1. r.version \in Release /\ r.todo \in SUBSET Module /\ r.ok \in BOOLEAN
  BY <1>0 DEF PcOK, ThreadType
<1>2. PICK m \in r.todo :
          \/ /\ Works
             /\ Installable(m, r.version, r.activate)
             /\ marker' = IF r.activate THEN [marker EXCEPT ![m] = r.version] ELSE marker
             /\ IF r.todo = {m} THEN AfterModules(t, ModuleResult(r, m, TRUE))
                               ELSE Continue(t, ModuleResult(r, m, TRUE))
          \/ /\ Fails \/ Works
             /\ IF r.todo = {m} THEN AfterModules(t, ModuleResult(r, m, FALSE))
                               ELSE Continue(t, ModuleResult(r, m, FALSE))
             /\ UNCHANGED marker
  BY DEF ota_install_remote
<1>3. PICK ok \in BOOLEAN :
          /\ Fails \/ Works
          /\ ok => /\ Installable(m, r.version, r.activate)
                   /\ marker' = IF r.activate THEN [marker EXCEPT ![m] = r.version] ELSE marker
          /\ ~ok => marker' = marker
          /\ IF r.todo = {m} THEN AfterModules(t, ModuleResult(r, m, ok))
                            ELSE Continue(t, ModuleResult(r, m, ok))
  BY <1>2
<1>4. m \in Module /\ marker \in [Module -> Release \cup {None}]
  BY <1>0, <1>1 DEF Shared
<1>5. marker' \in [Module -> Release \cup {None}] /\ Rises
  BY ModuleRises
<1> DEFINE u == ModuleResult(r, m, ok)
           both == (r.ok /\ ok)
<1>6. u = [r EXCEPT !.todo = r.todo \ {m}, !.ok = both]
  BY <1>0 DEF ModuleResult, ThreadType
<1>7. both \in BOOLEAN
  OBVIOUS
<1> HIDE DEF both, u
<1>8. /\ u \in ThreadType /\ u.pc = "module" /\ u.version = r.version
      /\ u.todo = r.todo \ {m} /\ u.activate = r.activate
  BY <1>0, <1>1, <1>6, <1>7 DEF ThreadType
<1>9. u.ok = both
  BY <1>0, <1>6 DEF ThreadType
<1>10. ASSUME t = Hot, u.ok, u.activate
       PROVE  \A x \in Module \ u.todo : marker'[x] # None /\ marker'[x] >= u.version
  <2>1. r.ok /\ ok /\ r.activate
    BY <1>8, <1>9, <1>10, Zenon DEF both
  <2>2. marker' = [marker EXCEPT ![m] = r.version]
    BY <1>3, <2>1
  <2>3. HotOK(r, marker)
    BY <1>10 DEF IInv
  <2>4. \A x \in Module \ r.todo : marker[x] # None /\ marker[x] >= r.version
    BY <1>0, <2>1, <2>3, Zenon DEF HotOK
  <2>5. ASSUME NEW x \in Module, x \notin r.todo \ {m}
        PROVE  marker'[x] # None /\ marker'[x] >= r.version
    <3>1. CASE x = m
      <4>1. r.version \in Nat /\ r.version # None
        BY <1>1, Consts
      <4>2. marker'[x] = r.version
        BY <1>4, <2>2, <3>1
      <4> QED BY <4>1, <4>2
    <3>2. CASE x # m
      BY <1>4, <2>2, <2>4, <2>5, <3>2
    <3> QED BY <3>1, <3>2
  <2>6. u.version = r.version /\ u.todo = r.todo \ {m}
    BY <1>8
  <2> QED BY <2>5, <2>6
<1> DEFINE f == [u EXCEPT !.pc = "fe"]
<1>11. f.ok = u.ok /\ f.activate = u.activate /\ f.todo = u.todo /\ f.version = u.version
  BY <1>8 DEF ThreadType
<1> HIDE DEF f
<1>12. t = Hot => HotOK(u, marker')
  BY <1>1, <1>8, <1>10, Zenon DEF HotOK
<1>13. t = Hot => HotOK(f, marker')
  BY <1>1, <1>8, <1>10, <1>11, Zenon DEF HotOK
<1>14. /\ base' \in Release /\ desired' \in ClusterOtaDesired \cup {None}
       /\ fe' \in Release \cup {None} /\ ops' \in 0..MaxOps /\ fails' \in 0..MaxFail
  BY <1>0, <1>3, FailsType DEF Shared
<1>15. CASE r.todo = {m}
  <2>1. AfterModules(t, u) /\ u.todo = {} /\ (t = Hot => HotOK([u EXCEPT !.pc = "fe"], marker'))
    BY <1>3, <1>8, <1>13, <1>15 DEF u, f
  <2> QED BY <1>0, <1>3, <1>5, <1>8, <2>1, AfterModulesStep
<1>16. CASE r.todo # {m}
  <2>1. Continue(t, u)
    BY <1>3, <1>16 DEF u
  <2>2. PcOK(u)
    BY <1>1, <1>8 DEF PcOK
  <2> QED BY <1>0, <1>5, <1>8, <1>12, <1>14, <2>1, <2>2, ContinueStep
<1> QED BY <1>15, <1>16

LEMMA FeStep ==
    ASSUME IInv, NEW t \in Thread, ota_install_fe(t)
    PROVE  IInv'
<1> DEFINE r == th[t]
<1>0. /\ Shared /\ r \in ThreadType /\ PcOK(r) /\ r.pc = "fe"
      /\ UNCHANGED <<mode, desired, base, marker, ops, crashes>>
  BY DEF IInv, ota_install_fe
<1>1. Rises /\ base' \in Release /\ desired' \in ClusterOtaDesired \cup {None}
      /\ marker' \in [Module -> Release \cup {None}]
      /\ ops' \in 0..MaxOps /\ base \in Release
  BY <1>0, SameRises DEF Shared
<1>2. CASE Works /\ fe' = None /\ Continue(t, [r EXCEPT !.pc = "fe_copy", !.package = base])
  <2> DEFINE u == [r EXCEPT !.pc = "fe_copy", !.package = base]
  <2>1. /\ u \in ThreadType /\ u.pc = "fe_copy" /\ u.package = base /\ u.todo = r.todo
        /\ u.ok = r.ok /\ u.activate = r.activate /\ u.version = r.version
    BY <1>0, <1>1 DEF ThreadType, PC
  <2>2. Continue(t, u) /\ fails' \in 0..MaxFail
    BY <1>2, FailsType
  <2> HIDE DEF u
  <2>3. PcOK(u)
    BY <1>0, <1>1, <2>1 DEF PcOK
  <2>4. ASSUME t = Hot PROVE HotOK(u, marker')
    <3>1. HotOK(r, marker)
      BY <2>4 DEF IInv
    <3> QED BY <1>0, <2>1, <3>1, Zenon DEF HotOK
  <2> QED BY <1>0, <1>1, <1>2, <2>1, <2>2, <2>3, <2>4, ContinueStep
<1>3. CASE Fails /\ Finish(t, FALSE) /\ UNCHANGED fe
  <2>1. fe' \in Release \cup {None}
    BY <1>0, <1>3 DEF Shared
  <2> QED BY <1>0, <1>1, <1>3, <2>1, FinishStep
<1> QED BY <1>2, <1>3 DEF ota_install_fe

LEMMA CopyStep ==
    ASSUME IInv, NEW t \in Thread, copy_dir_recursive(t)
    PROVE  IInv'
<1> DEFINE r == th[t]
<1>0. /\ Shared /\ PcOK(r) /\ r.pc = "fe_copy"
      /\ UNCHANGED <<mode, desired, base, marker, ops, crashes>>
  BY DEF IInv, copy_dir_recursive
<1>1. Rises /\ base' \in Release /\ desired' \in ClusterOtaDesired \cup {None}
      /\ marker' \in [Module -> Release \cup {None}]
  BY <1>0, SameRises DEF Shared
<1>2. PICK ok : Finish(t, ok) /\ (Fails \/ Works) /\ fe' \in {r.package, fe}
  BY DEF copy_dir_recursive
<1>3. fe' \in Release \cup {None}
  BY <1>0, <1>2 DEF Shared, PcOK
<1> QED BY <1>0, <1>1, <1>2, <1>3, FinishStep

LEMMA InstallStep ==
    ASSUME IInv, NEW t \in Thread, Install(t)
    PROVE  IInv'
BY ManifestStep, ModuleStep, FeStep, CopyStep DEF Install

-----------------------------------------------------------------------------
(* The panel's requests.                                                   *)
LEMMA RequestStep ==
    ASSUME IInv, NEW p \in Panel, NEW r \in ThreadType, PcOK(r), Request(p, r), base' \in Release
    PROVE  IInv'
<1>0. /\ Shared /\ p \in Thread /\ p # Hot /\ Continue(p, r) /\ ops < MaxOps /\ ops' = ops + 1
      /\ UNCHANGED <<mode, desired, marker, fe, fails, crashes>>
  BY Consts DEF IInv, Request
<1>1. Rises /\ desired' \in ClusterOtaDesired \cup {None}
      /\ marker' \in [Module -> Release \cup {None}] /\ fe' \in Release \cup {None}
      /\ fails' \in 0..MaxFail
  BY <1>0, SameRises DEF Shared
<1>2. ops' \in 0..MaxOps
  BY <1>0, Consts DEF Shared
<1> QED BY <1>0, <1>1, <1>2, ContinueStep

LEMMA PanelRequestStep ==
    ASSUME IInv, NEW p \in Panel, PanelRequest(p)
    PROVE  IInv'
<1>0. base \in Release
  BY DEF IInv, Shared
<1>1. CASE panel_install_fe(p)
  <2> DEFINE r == [Idle EXCEPT !.pc = "fe", !.kind = "fe"]
  <2>1. r \in ThreadType /\ PcOK(r)
    BY DEF Idle, ThreadType, PC, OptBool, Kind, PcOK
  <2>2. Request(p, r) /\ base' = base
    BY <1>1 DEF panel_install_fe
  <2> HIDE DEF r
  <2> QED BY <1>0, <2>1, <2>2, RequestStep
<1>2. ASSUME NEW v \in Release, NEW auto \in OptBool, ota_set_release_url(p, v, auto)
      PROVE  IInv'
  <2> DEFINE r == [Idle EXCEPT !.pc = "read", !.kind = "set_url", !.auto = auto, !.activate = TRUE]
  <2>1. r \in ThreadType /\ PcOK(r)
    BY DEF Idle, ThreadType, PC, OptBool, Kind, PcOK
  <2>2. Request(p, r) /\ base' = v
    BY <1>2 DEF ota_set_release_url, set_release_base_url
  <2> HIDE DEF r
  <2> QED BY <2>1, <2>2, RequestStep
<1>3. ASSUME NEW v \in Release \cup {None}, NEW auto \in OptBool, NEW activate \in BOOLEAN,
             ota_full_upgrade(p, v, auto, activate)
      PROVE  IInv'
  <2>1. PICK c \in {"manifest", "read"} :
          Request(p, [Idle EXCEPT !.pc = c, !.kind = "full", !.auto = auto,
                                  !.activate = activate, !.fe = TRUE])
    BY <1>3 DEF ota_full_upgrade
  <2> DEFINE r == [Idle EXCEPT !.pc = c, !.kind = "full", !.auto = auto,
                               !.activate = activate, !.fe = TRUE]
  <2>2. r \in ThreadType /\ PcOK(r)
    BY DEF Idle, ThreadType, PC, OptBool, Kind, PcOK
  <2>3. Request(p, r) /\ base' \in Release
    BY <1>0, <1>3, <2>1 DEF ota_full_upgrade, set_release_base_url
  <2> HIDE DEF r
  <2> QED BY <2>2, <2>3, RequestStep
<1>4. ASSUME NEW v \in Release, NEW activate \in BOOLEAN, apply_github_analyze(p, v, activate)
      PROVE  IInv'
  <2> DEFINE r == [Idle EXCEPT !.pc = "read", !.kind = "apply", !.version = v, !.activate = activate]
  <2>1. r \in ThreadType /\ PcOK(r)
    BY DEF Idle, ThreadType, PC, OptBool, Kind, PcOK
  <2>2. Request(p, r) /\ base' = base
    BY <1>4 DEF apply_github_analyze
  <2> HIDE DEF r
  <2> QED BY <1>0, <2>1, <2>2, RequestStep
<1> QED BY <1>1, <1>2, <1>3, <1>4 DEF PanelRequest

LEMMA ReadStep ==
    ASSUME IInv, NEW p \in Panel, ReadDesired(p)
    PROVE  IInv'
<1> DEFINE r == th[p]
           v == DeclaredVersion(r)
<1>0. /\ Shared /\ p \in Thread /\ p # Hot /\ r \in ThreadType /\ PcOK(r) /\ r.pc = "read"
      /\ UNCHANGED <<mode, desired, base, marker, fe, ops, crashes>>
  BY Consts DEF IInv, ReadDesired
<1>1. PICK row \in {desired, None} :
        /\ Fails \/ Works
        /\ Continue(p, [r EXCEPT !.pc = "write", !.version = v, !.merged = MergedAuto(r.auto, row)])
  BY DEF ReadDesired
<1>2. v \in Release
  BY <1>0 DEF PcOK, Shared, DeclaredVersion
<1> DEFINE b == MergedAuto(r.auto, row)
<1>3. b \in BOOLEAN
  <2>1. r.auto \in OptBool
    BY <1>0 DEF ThreadType
  <2>2. row = None \/ row \in ClusterOtaDesired
    BY <1>0, <1>1 DEF Shared
  <2>3. row # None => row.auto_apply \in BOOLEAN
    BY <2>2 DEF ClusterOtaDesired
  <2>4. r.auto # None => r.auto \in BOOLEAN
    BY <2>1, Zenon DEF OptBool
  <2> QED BY <2>3, <2>4, Zenon DEF MergedAuto
<1> DEFINE u == [r EXCEPT !.pc = "write", !.version = v, !.merged = b]
<1>4. Continue(p, u)
  BY <1>1
<1> HIDE DEF b, v
<1>5. u \in ThreadType /\ u.pc = "write" /\ u.version = v /\ u.kind = r.kind /\ u.todo = r.todo
  BY <1>0, <1>2, <1>3 DEF ThreadType, PC
<1> HIDE DEF u
<1>6. PcOK(u)
  BY <1>0, <1>2, <1>5 DEF PcOK
<1>7. Rises /\ base' \in Release /\ desired' \in ClusterOtaDesired \cup {None}
      /\ marker' \in [Module -> Release \cup {None}] /\ fe' \in Release \cup {None}
      /\ ops' \in 0..MaxOps /\ fails' \in 0..MaxFail
  BY <1>0, <1>1, SameRises, FailsType DEF Shared
<1> QED BY <1>0, <1>4, <1>5, <1>6, <1>7, ContinueStep

LEMMA WriteStep ==
    ASSUME IInv, NEW p \in Panel, write_desired(p)
    PROVE  IInv'
<1> DEFINE r == th[p]
<1>0. /\ Shared /\ p \in Thread /\ p # Hot /\ r \in ThreadType /\ PcOK(r) /\ r.pc = "write"
      /\ UNCHANGED <<mode, base, marker, fe, ops, crashes>>
  BY Consts DEF IInv, write_desired
<1>1. Rises /\ base' \in Release
      /\ marker' \in [Module -> Release \cup {None}] /\ fe' \in Release \cup {None}
      /\ ops' \in 0..MaxOps
  BY <1>0, SameRises DEF Shared
<1>2. CASE Fails /\ Finish(p, FALSE) /\ UNCHANGED desired
  <2>1. desired' \in ClusterOtaDesired \cup {None}
    BY <1>0, <1>2 DEF Shared
  <2> QED BY <1>0, <1>1, <1>2, <2>1, FinishStep
<1>3. CASE /\ Works
           /\ desired' = [version |-> r.version, activate |-> r.activate, auto_apply |-> r.merged]
           /\ CASE r.kind = "set_url" -> Finish(p, TRUE)
                [] r.kind = "full"    -> Continue(p, Declared(r, "manifest"))
                [] r.kind = "apply"   -> Continue(p, Declared(r, "repoint"))
  <2>1. desired' \in ClusterOtaDesired \cup {None} /\ fails' \in 0..MaxFail
    <3>1. r.version \in Release /\ r.activate \in BOOLEAN /\ r.merged \in BOOLEAN
      BY <1>0 DEF PcOK, ThreadType
    <3> QED BY <1>3, <3>1, FailsType DEF ClusterOtaDesired
  <2>2. r.kind \in {"set_url", "full", "apply"}
    BY <1>0 DEF PcOK
  <2>3. CASE r.kind = "set_url"
    <3>1. Finish(p, TRUE) /\ Works
      BY <1>3, <2>3
    <3> QED BY <1>0, <1>1, <2>1, <3>1, FinishStep
  <2>4. CASE r.kind # "set_url"
    <3>1. PICK c \in {"manifest", "repoint"} : Continue(p, Declared(r, c))
      <4>1. CASE r.kind = "full"
        BY <1>3, <4>1
      <4>2. CASE r.kind = "apply"
        BY <1>3, <4>2
      <4> QED BY <2>2, <2>4, <4>1, <4>2
    <3> DEFINE u == Declared(r, c)
    <3>2. u \in ThreadType /\ u.pc = c /\ u.version = r.version /\ u.todo = r.todo
      BY <1>0 DEF Declared, ThreadType, PC, OptBool
    <3>3. Continue(p, u)
      BY <3>1
    <3> HIDE DEF u
    <3>4. PcOK(u)
      BY <1>0, <3>2 DEF PcOK
    <3> QED BY <1>0, <1>1, <2>1, <3>2, <3>3, <3>4, ContinueStep
  <2> QED BY <2>3, <2>4
<1> QED BY <1>2, <1>3 DEF write_desired

LEMMA RepointStep ==
    ASSUME IInv, NEW p \in Panel, Repoint(p)
    PROVE  IInv'
<1> DEFINE r == th[p]
<1>0. /\ Shared /\ p \in Thread /\ p # Hot /\ r \in ThreadType /\ PcOK(r) /\ r.pc = "repoint"
      /\ UNCHANGED <<mode, desired, marker, fe, ops, fails, crashes>>
      /\ base' \in {r.version, base}
  BY Consts DEF IInv, Repoint, set_release_base_url
<1>1. Rises /\ base' \in Release /\ desired' \in ClusterOtaDesired \cup {None}
      /\ marker' \in [Module -> Release \cup {None}] /\ fe' \in Release \cup {None}
      /\ ops' \in 0..MaxOps /\ fails' \in 0..MaxFail /\ Works
  BY <1>0, SameRises DEF Shared, PcOK, Works
<1>2. ASSUME NEW ok, Finish(p, ok) PROVE IInv'
  BY <1>0, <1>1, <1>2, FinishStep
<1>3. CASE Continue(p, [r EXCEPT !.pc = "module", !.todo = {Analyze}])
  <2> DEFINE u == [r EXCEPT !.pc = "module", !.todo = {Analyze}]
  <2>1. u \in ThreadType /\ u.pc = "module" /\ u.version = r.version
    BY <1>0, Consts DEF ThreadType, PC
  <2>2. Continue(p, u)
    BY <1>3
  <2> HIDE DEF u
  <2>3. PcOK(u)
    BY <1>0, <2>1 DEF PcOK
  <2> QED BY <1>0, <1>1, <2>1, <2>2, <2>3, ContinueStep
<1> QED BY <1>2, <1>3 DEF Repoint

LEMMA RestartStep ==
    ASSUME IInv, Restart
    PROVE  IInv'
<1>1. Shared /\ crashes < MaxCrash /\ crashes' = crashes + 1 /\ streak' = 0
      /\ th' = [t \in Thread |-> Idle] /\ UNCHANGED <<mode, desired, base, marker, fe, ops, fails>>
  BY DEF IInv, Restart
<1>2. Shared'
  BY <1>1, Consts DEF Shared, StreakCap
<1> QED BY <1>1, <1>2, IdleOK, Consts DEF IInv

LEMMA InitInv == Init => IInv
<1> SUFFICES ASSUME Init PROVE IInv
  OBVIOUS
<1>1. Shared
  BY Consts, ConstAssumption DEF Init, Shared, StreakCap
<1>2. th = [t \in Thread |-> Idle]
  BY DEF Init
<1> QED BY <1>1, <1>2, IdleOK, Consts DEF IInv

LEMMA StepInv == IInv /\ [Next]_vars => IInv'
<1> SUFFICES ASSUME IInv, [Next]_vars PROVE IInv'
  OBVIOUS
<1>1. CASE HotStep
  BY <1>1, Consts, TickStep, InstallStep DEF HotStep
<1>2. CASE \E p \in Panel : PanelRequest(p)
  BY <1>2, PanelRequestStep
<1>3. CASE \E p \in Panel : PanelStep(p)
  BY <1>3, Consts, ReadStep, WriteStep, RepointStep, InstallStep DEF PanelStep
<1>4. CASE Restart
  BY <1>4, RestartStep
<1>5. CASE UNCHANGED vars
  <2>1. Shared' /\ th' = th /\ marker' = marker
    BY <1>5 DEF vars, IInv, Shared
  <2> QED BY <2>1 DEF IInv
<1> QED BY <1>1, <1>2, <1>3, <1>4, <1>5 DEF Next

LEMMA Always == Spec => []IInv
BY InitInv, StepInv, PTL DEF Spec

(* The arrival of a request changes neither the markers nor the row.       *)
LEMMA RequestQuiet ==
    ASSUME NEW p \in Panel, PanelRequest(p)
    PROVE  UNCHANGED <<marker, desired>>
<1>1. ASSUME NEW r, Request(p, r) PROVE UNCHANGED <<marker, desired>>
  BY <1>1 DEF Request
<1>2. CASE panel_install_fe(p)
  BY <1>1, <1>2 DEF panel_install_fe
<1>3. ASSUME NEW v, NEW auto, ota_set_release_url(p, v, auto) PROVE UNCHANGED <<marker, desired>>
  BY <1>1, <1>3 DEF ota_set_release_url
<1>4. ASSUME NEW v, NEW auto, NEW a, ota_full_upgrade(p, v, auto, a)
      PROVE  UNCHANGED <<marker, desired>>
  BY <1>1, <1>4 DEF ota_full_upgrade
<1>5. ASSUME NEW v, NEW a, apply_github_analyze(p, v, a) PROVE UNCHANGED <<marker, desired>>
  BY <1>1, <1>5 DEF apply_github_analyze
<1> QED BY <1>2, <1>3, <1>4, <1>5 DEF PanelRequest

(* ota_activate refuses to go below the marker.                            *)
LEMMA NextRises == IInv /\ [Next]_vars => Rises
<1> SUFFICES ASSUME IInv, [Next]_vars PROVE Rises
  OBVIOUS
<1>1. CASE \E t \in Thread : ota_install_remote(t)
  BY <1>1, ModuleRises
<1>2. CASE marker' = marker
  BY <1>2, SameRises
<1>3. ASSUME NEW t \in Thread, Install(t)
      PROVE  ota_install_remote(t) \/ marker' = marker
  BY <1>3 DEF Install, ota_install_all_remote, ota_install_fe, copy_dir_recursive
<1>4. CASE HotStep
  <2>1. apply_cluster_ota_tick => marker' = marker
    BY DEF apply_cluster_ota_tick
  <2> QED BY <1>1, <1>2, <1>3, <1>4, <2>1, Consts DEF HotStep
<1>5. CASE \E p \in Panel : PanelRequest(p)
  BY <1>2, <1>5, RequestQuiet
<1>6. CASE \E p \in Panel : PanelStep(p)
  BY <1>1, <1>2, <1>3, <1>6, Consts DEF PanelStep, ReadDesired, write_desired, Repoint
<1>7. CASE Restart \/ UNCHANGED vars
  BY <1>2, <1>7 DEF Restart, vars
<1> QED BY <1>4, <1>5, <1>6, <1>7 DEF Next

(* apply_cluster_ota_tick: a tick that ends without an error, and so       *)
(* resets the back-off, left every module at its release or above,         *)
(* whatever panel requests, in any number, did to base URL and markers     *)
(* meanwhile.                                                              *)
THEOREM CompleteMeansApplied == Spec => CompleteTickApplied
<1> DEFINE r == th[Hot]
           done == r.pc = "fe_copy" /\ r.ok /\ r.activate /\ th'[Hot].pc = "idle" /\ streak' = 0
                     /\ UNCHANGED <<fails, crashes>>
           applied == \A m \in Module : marker'[m] # None /\ marker'[m] >= r.version
<1>1. ASSUME IInv, [Next]_vars, done PROVE applied
  <2>1. Rises
    BY <1>1, NextRises
  <2>2. HotOK(r, marker) /\ PcOK(r) /\ marker \in [Module -> Release \cup {None}]
    BY <1>1, Consts DEF IInv, Shared
  <2>3. r.todo = {}
    BY <1>1, <2>2 DEF PcOK
  <2>4. r.version \in Release /\ \A m \in Module \ r.todo : marker[m] # None /\ marker[m] >= r.version
    BY <1>1, <2>2, Zenon DEF HotOK
  <2>5. IInv'
    BY <1>1, StepInv
  <2>6. marker' \in [Module -> Release \cup {None}]
    BY <2>5 DEF IInv, Shared
  <2> SUFFICES ASSUME NEW m \in Module PROVE marker'[m] # None /\ marker'[m] >= r.version
    OBVIOUS
  <2>7. marker[m] # None /\ marker[m] >= r.version /\ marker'[m] # None /\ marker'[m] >= marker[m]
    BY <2>1, <2>3, <2>4 DEF Rises
  <2>8. r.version \in Nat /\ marker[m] \in Nat /\ marker'[m] \in Nat
    BY <2>2, <2>4, <2>6, <2>7, Consts
  <2> QED BY <2>7, <2>8
<1>2. IInv /\ [Next]_vars => [done => applied]_vars
  BY <1>1
<1> QED BY Always, <1>2, PTL DEF Spec, CompleteTickApplied

-----------------------------------------------------------------------------
(* Between its arrival and its write a request is merging the switch.      *)
Merging == {"read", "write"}

(* What lit records of a request: a row that asks for unattended apply is  *)
(* noticed while the request has not read it, and a request about to write *)
(* TRUE without having asked for it read such a row.                       *)
Kept(r, d, l) ==
    /\ r.pc = "read" /\ Unattended(d) => l
    /\ r.pc = "write" /\ r.auto # TRUE /\ r.merged => l

SwitchInv ==
    /\ refused \subseteq Release
    /\ lit \in [Panel -> BOOLEAN]
    /\ \A p \in Panel : Kept(th[p], desired, lit[p])

(* The two ways a step ends move one thread.                               *)
LEMMA SetPc ==
    ASSUME IInv, NEW t \in Thread, NEW r, NEW ok, Finish(t, ok) \/ Continue(t, r), r.pc \notin Merging
    PROVE  th'[t].pc \notin Merging /\ \A x \in Thread \ {t} : th'[x] = th[x]
<1>1. th \in [Thread -> ThreadType]
  BY DEF IInv
<1>2. Idle.pc \notin Merging
  BY DEF Idle, Merging
<1> QED BY <1>1, <1>2 DEF Finish, Continue, Set

(* An install does not touch the row.                                      *)
LEMMA InstallPc ==
    ASSUME IInv, NEW t \in Thread, Install(t)
    PROVE  /\ th'[t].pc \notin Merging /\ UNCHANGED <<refused, desired, lit>>
           /\ \A x \in Thread \ {t} : th'[x] = th[x]
<1> DEFINE r == th[t]
<1>0. r \in ThreadType /\ UNCHANGED <<refused, desired, lit>>
  BY DEF IInv, Install, ota_install_all_remote, ota_install_remote, ota_install_fe, copy_dir_recursive
<1>1. ASSUME NEW u \in ThreadType, AfterModules(t, u)
      PROVE  \E x, ok : (Finish(t, ok) \/ Continue(t, x)) /\ x.pc \notin Merging
  <2>1. [u EXCEPT !.pc = "fe"].pc \notin Merging
    BY DEF ThreadType, Merging
  <2> QED BY <1>1, <2>1 DEF AfterModules
<1>2. \E x, ok : (Finish(t, ok) \/ Continue(t, x)) /\ x.pc \notin Merging
  <2>1. CASE ota_install_all_remote(t)
    <3>1. [r EXCEPT !.pc = "module", !.version = base, !.todo = Module].pc \notin Merging
      BY <1>0 DEF ThreadType, Merging
    <3>2. [r EXCEPT !.ok = FALSE] \in ThreadType
      BY <1>0 DEF ThreadType, Merging
    <3> QED BY <1>1, <2>1, <3>1, <3>2 DEF ota_install_all_remote
  <2>2. CASE ota_install_remote(t)
    <3>1. PICK m \in r.todo, ok \in BOOLEAN :
            AfterModules(t, ModuleResult(r, m, ok)) \/ Continue(t, ModuleResult(r, m, ok))
      BY <2>2 DEF ota_install_remote
    <3> DEFINE both == (r.ok /\ ok)
               u == ModuleResult(r, m, ok)
    <3>2. both \in BOOLEAN /\ r.pc = "module"
      BY <2>2 DEF ota_install_remote
    <3>3. u = [r EXCEPT !.todo = r.todo \ {m}, !.ok = both]
      BY <1>0 DEF ModuleResult, ThreadType
    <3> HIDE DEF both, u
    <3>4. u \in ThreadType /\ u.pc = "module"
      BY <1>0, <3>2, <3>3 DEF ThreadType
    <3>5. AfterModules(t, u) \/ Continue(t, u)
      BY <3>1 DEF u
    <3> QED BY <1>1, <3>4, <3>5 DEF Merging
  <2>3. CASE ota_install_fe(t)
    <3>1. [r EXCEPT !.pc = "fe_copy", !.package = base].pc \notin Merging
      BY <1>0 DEF ThreadType, Merging
    <3> QED BY <2>3, <3>1 DEF ota_install_fe
  <2>4. CASE copy_dir_recursive(t)
    <3>1. Idle.pc \notin Merging
      BY DEF Idle, Merging
    <3> QED BY <2>4, <3>1 DEF copy_dir_recursive
  <2> QED BY <2>1, <2>2, <2>3, <2>4 DEF Install
<1> QED BY <1>0, <1>2, SetPc

(* A step that leaves the row and the history alone, and moves no thread   *)
(* into the merge.                                                         *)
LEMMA QuietStep ==
    ASSUME SwitchInv, UNCHANGED <<refused, desired, lit>>,
           \A p \in Panel : th'[p] = th[p] \/ th'[p].pc \notin Merging
    PROVE  SwitchInv'
<1>1. ASSUME NEW p \in Panel PROVE Kept(th'[p], desired', lit'[p])
  <2>1. CASE th'[p] = th[p]
    BY <2>1 DEF SwitchInv
  <2>2. CASE th'[p].pc \notin Merging
    BY <2>2 DEF Kept, Merging
  <2> QED BY <2>1, <2>2
<1> QED BY <1>1 DEF SwitchInv

(* A request arrives: whatever it is, it has not read the row yet.         *)
LEMMA RequestSwitch ==
    ASSUME IInv, SwitchInv, NEW p \in Panel, NEW r, Request(p, r), r.pc # "write"
    PROVE  SwitchInv'
<1> DEFINE l == (r.pc = "read" /\ Unattended(desired))
<1>0. /\ p \in Thread /\ th \in [Thread -> ThreadType] /\ lit \in [Panel -> BOOLEAN]
      /\ th' = [th EXCEPT ![p] = r] /\ refused' = refused /\ desired' = desired
      /\ lit' = [lit EXCEPT ![p] = l]
  BY Consts DEF IInv, SwitchInv, Request, Continue, Set
<1>1. l \in BOOLEAN /\ Kept(r, desired, l)
  BY Zenon DEF Kept
<1> HIDE DEF l
<1>2. lit' \in [Panel -> BOOLEAN] /\ lit'[p] = l /\ th'[p] = r
  BY <1>0, <1>1
<1>3. ASSUME NEW q \in Panel PROVE Kept(th'[q], desired', lit'[q])
  <2>1. CASE q = p
    BY <1>0, <1>1, <1>2, <2>1
  <2>2. CASE q # p
    <3>1. th'[q] = th[q] /\ lit'[q] = lit[q]
      BY <1>0, <2>2, Consts
    <3> QED BY <1>0, <3>1 DEF SwitchInv
  <2> QED BY <2>1, <2>2
<1> QED BY <1>0, <1>2, <1>3 DEF SwitchInv

LEMMA PanelRequestSwitch ==
    ASSUME IInv, SwitchInv, NEW p \in Panel, PanelRequest(p)
    PROVE  SwitchInv'
<1>1. \E r : Request(p, r) /\ r.pc # "write"
  <2>1. CASE panel_install_fe(p)
    <3>1. [Idle EXCEPT !.pc = "fe", !.kind = "fe"].pc # "write"
      BY DEF Idle
    <3> QED BY <2>1, <3>1 DEF panel_install_fe
  <2>2. ASSUME NEW w, NEW auto, ota_set_release_url(p, w, auto)
        PROVE  \E r : Request(p, r) /\ r.pc # "write"
    <3>1. [Idle EXCEPT !.pc = "read", !.kind = "set_url", !.auto = auto, !.activate = TRUE].pc # "write"
      BY DEF Idle
    <3> QED BY <2>2, <3>1 DEF ota_set_release_url
  <2>3. ASSUME NEW w, NEW auto, NEW a, ota_full_upgrade(p, w, auto, a)
        PROVE  \E r : Request(p, r) /\ r.pc # "write"
    <3>1. PICK c \in {"manifest", "read"} :
            Request(p, [Idle EXCEPT !.pc = c, !.kind = "full", !.auto = auto, !.activate = a, !.fe = TRUE])
      BY <2>3 DEF ota_full_upgrade
    <3>2. [Idle EXCEPT !.pc = c, !.kind = "full", !.auto = auto, !.activate = a, !.fe = TRUE].pc # "write"
      BY DEF Idle
    <3> QED BY <3>1, <3>2
  <2>4. ASSUME NEW w, NEW a, apply_github_analyze(p, w, a)
        PROVE  \E r : Request(p, r) /\ r.pc # "write"
    <3>1. [Idle EXCEPT !.pc = "read", !.kind = "apply", !.version = w, !.activate = a].pc # "write"
      BY DEF Idle
    <3> QED BY <2>4, <3>1 DEF apply_github_analyze
  <2> QED BY <2>1, <2>2, <2>3, <2>4 DEF PanelRequest
<1> QED BY <1>1, RequestSwitch

(* The read: what is merged without having been asked for is in the row.   *)
LEMMA ReadSwitch ==
    ASSUME IInv, SwitchInv, NEW p \in Panel, ReadDesired(p)
    PROVE  SwitchInv'
<1> DEFINE r == th[p]
           v == DeclaredVersion(r)
<1>0. /\ p \in Thread /\ r \in ThreadType /\ th \in [Thread -> ThreadType] /\ r.pc = "read"
      /\ UNCHANGED <<refused, desired, lit>> /\ Kept(r, desired, lit[p])
  BY Consts DEF IInv, ReadDesired, SwitchInv
<1>1. PICK row \in {desired, None} :
        Continue(p, [r EXCEPT !.pc = "write", !.version = v, !.merged = MergedAuto(r.auto, row)])
  BY DEF ReadDesired
<1>2. /\ th'[p].pc = "write" /\ th'[p].auto = r.auto /\ th'[p].merged = MergedAuto(r.auto, row)
      /\ \A x \in Thread \ {p} : th'[x] = th[x]
  BY <1>0, <1>1 DEF Continue, Set, ThreadType
<1>3. ASSUME r.auto # TRUE, MergedAuto(r.auto, row) PROVE lit[p]
  <2>1. r.auto = None \/ r.auto \in BOOLEAN
    BY <1>0 DEF ThreadType, OptBool
  <2>2. row # None /\ row.auto_apply
    BY <1>3, <2>1, Zenon DEF MergedAuto
  <2>3. row = desired
    BY <1>1, <2>2
  <2>4. Unattended(desired)
    BY <2>2, <2>3, Zenon DEF Unattended
  <2> QED BY <1>0, <2>4, Zenon DEF Kept
<1>4. Kept(th'[p], desired', lit'[p])
  BY <1>0, <1>2, <1>3, Zenon DEF Kept
<1>5. ASSUME NEW q \in Panel PROVE Kept(th'[q], desired', lit'[q])
  <2>1. CASE q # p
    BY <1>0, <1>2, <2>1, Consts DEF SwitchInv
  <2> QED BY <1>4, <2>1
<1> QED BY <1>0, <1>5 DEF SwitchInv

(* The write: the requests still merging have now seen the new row.        *)
LEMMA WriteSwitch ==
    ASSUME IInv, SwitchInv, NEW p \in Panel, write_desired(p)
    PROVE  SwitchInv'
<1> DEFINE r == th[p]
<1>0. /\ p \in Thread /\ r \in ThreadType /\ th \in [Thread -> ThreadType] /\ r.pc = "write"
      /\ refused' = refused /\ lit \in [Panel -> BOOLEAN] /\ refused \subseteq Release
      /\ r.kind \in {"set_url", "full", "apply"}
  BY Consts DEF IInv, write_desired, SwitchInv, PcOK
<1>1. th'[p].pc \notin Merging /\ \A x \in Thread \ {p} : th'[x] = th[x]
  <2>1. Declared(r, "manifest").pc \notin Merging /\ Declared(r, "repoint").pc \notin Merging
    BY <1>0 DEF ThreadType, Declared, Merging
  <2>2. \/ Finish(p, FALSE) \/ Finish(p, TRUE) \/ Continue(p, Declared(r, "manifest"))
        \/ Continue(p, Declared(r, "repoint"))
    <3>1. CASE r.kind = "set_url"
      BY <3>1 DEF write_desired
    <3>2. CASE r.kind = "full"
      BY <3>2 DEF write_desired
    <3>3. CASE r.kind = "apply"
      BY <3>3 DEF write_desired
    <3> QED BY <1>0, <3>1, <3>2, <3>3
  <2> QED BY <1>0, <2>1, <2>2, SetPc
<1>2. CASE lit' = [lit EXCEPT ![p] = FALSE] /\ desired' = desired
  <2>1. lit' \in [Panel -> BOOLEAN] /\ \A q \in Panel : q # p => lit'[q] = lit[q]
    BY <1>0, <1>2
  <2>2. ASSUME NEW q \in Panel PROVE Kept(th'[q], desired', lit'[q])
    <3>1. CASE q = p
      BY <1>1, <3>1 DEF Kept, Merging
    <3>2. CASE q # p
      BY <1>1, <1>2, <2>1, <3>2, Consts DEF SwitchInv
    <3> QED BY <3>1, <3>2
  <2> QED BY <1>0, <2>1, <2>2 DEF SwitchInv
<1> DEFINE seen(q) == (q # p /\ th[q].pc \in Merging /\ (lit[q] \/ Unattended(desired')))
<1>3. CASE lit' = [q \in Panel |-> seen(q)]
  <2>1. \A q \in Panel : seen(q) \in BOOLEAN
    OBVIOUS
  <2>2. lit' \in [Panel -> BOOLEAN] /\ \A q \in Panel : lit'[q] = seen(q)
    BY <1>3, <2>1
  <2>3. ASSUME NEW q \in Panel PROVE Kept(th'[q], desired', seen(q))
    <3>1. CASE q = p
      BY <1>1, <3>1 DEF Kept, Merging
    <3>2. CASE q # p
      <4>1. th'[q] = th[q] /\ Kept(th[q], desired, lit[q])
        BY <1>1, <3>2, Consts DEF SwitchInv
      <4>2. th[q].pc \in Merging /\ (lit[q] \/ Unattended(desired')) => seen(q)
        BY <3>2
      <4> HIDE DEF seen
      <4> QED BY <4>1, <4>2, Zenon DEF Kept, Merging
    <3> QED BY <3>1, <3>2
  <2> HIDE DEF seen
  <2> QED BY <1>0, <2>2, <2>3 DEF SwitchInv
<1> QED BY <1>2, <1>3 DEF write_desired, Merging

LEMMA SwitchStep == IInv /\ SwitchInv /\ [Next]_vars => SwitchInv'
<1> SUFFICES ASSUME IInv, SwitchInv, [Next]_vars PROVE SwitchInv'
  OBVIOUS
<1>1. ASSUME NEW t \in Thread, Install(t) PROVE SwitchInv'
  BY <1>1, InstallPc, QuietStep, Consts
<1>2. CASE apply_cluster_ota_tick
  <2>1. UNCHANGED <<refused, desired, lit>> /\ \E r, ok : Finish(Hot, ok) \/ Continue(Hot, r)
    BY <1>2 DEF apply_cluster_ota_tick
  <2>2. \A p \in Panel : th'[p] = th[p]
    BY <2>1, Consts DEF IInv, Finish, Continue, Set
  <2> QED BY <2>1, <2>2, QuietStep
<1>3. CASE \E p \in Panel : PanelRequest(p)
  BY <1>3, PanelRequestSwitch
<1>4. ASSUME NEW p \in Panel, Repoint(p) PROVE SwitchInv'
  <2>0. p \in Thread /\ th[p] \in ThreadType
    BY Consts DEF IInv
  <2>1. [th[p] EXCEPT !.pc = "module", !.todo = {Analyze}].pc \notin Merging
    BY <2>0 DEF ThreadType, Merging
  <2>2. UNCHANGED <<refused, desired, lit>>
        /\ \E r, ok : (Finish(p, ok) \/ Continue(p, r)) /\ r.pc \notin Merging
    BY <1>4, <2>1 DEF Repoint
  <2>3. th'[p].pc \notin Merging /\ \A x \in Thread \ {p} : th'[x] = th[x]
    BY <2>0, <2>2, SetPc
  <2> QED BY <2>2, <2>3, QuietStep, Consts
<1>5. CASE \E p \in Panel : PanelStep(p)
  BY <1>1, <1>4, <1>5, ReadSwitch, WriteSwitch, Consts DEF PanelStep
<1>6. CASE Restart
  <2>1. /\ refused' = refused /\ \A p \in Panel : th'[p] = Idle
        /\ lit' = [p \in Panel |-> FALSE]
    BY <1>6, Consts DEF Restart
  <2>2. Idle.pc = "idle"
    BY DEF Idle
  <2> QED BY <2>1, <2>2 DEF SwitchInv, Kept
<1>7. CASE UNCHANGED vars
  BY <1>7, QuietStep DEF vars
<1> QED BY <1>1, <1>2, <1>3, <1>5, <1>6, <1>7, Consts DEF Next, HotStep

LEMMA AlwaysSwitch == Spec => []SwitchInv
<1>1. Init => SwitchInv
  <2> SUFFICES ASSUME Init PROVE SwitchInv
    OBVIOUS
  <2>1. /\ refused \subseteq Release /\ lit = [p \in Panel |-> FALSE]
        /\ \A p \in Panel : th[p] = Idle
    BY Consts DEF Init
  <2>2. Idle.pc = "idle"
    BY DEF Idle
  <2> QED BY <2>1, <2>2 DEF SwitchInv, Kept
<1> QED BY <1>1, SwitchStep, Always, PTL DEF Spec

(* Requests, ticks, failures and restarts keep the row, the markers and    *)
(* the threads in their types; the streak stays within its cap.            *)
THEOREM TypeCorrect == Spec => []TypeOK
<1>1. IInv /\ SwitchInv => TypeOK
  BY DEF IInv, Shared, SwitchInv, TypeOK
<1> QED BY Always, AlwaysSwitch, <1>1, PTL

(* desired_auto_fields: for every number of overlapping requests, one that *)
(* leaves the switch out writes unattended apply only if the row asked for *)
(* it while that request ran.                                              *)
THEOREM SwitchStaleness == Spec => SwitchAtMostOneRequestOld
<1> DEFINE on(p) == /\ th[p].pc = "write" /\ th'[p].pc # "write" /\ th[p].auto # TRUE
                    /\ desired' # desired /\ Unattended(desired')
           Act == \A p \in Panel : on(p) => lit[p]
<1>1. ASSUME IInv, SwitchInv, [Next]_vars, NEW p \in Panel, on(p) PROVE lit[p]
  <2>1. write_desired(p)
    <3>1. desired' # desired /\ th'[p] # th[p] /\ p \in Thread
      BY <1>1, Consts
    <3>2. \A t \in Thread : ~ Install(t)
      BY <1>1, <3>1, InstallPc
    <3>3. ~ HotStep
      <4>1. apply_cluster_ota_tick => desired' = desired
        BY DEF apply_cluster_ota_tick
      <4> QED BY <3>1, <3>2, <4>1, Consts DEF HotStep
    <3>4. \A q \in Panel : ~ PanelRequest(q)
      BY <3>1, RequestQuiet
    <3>5. ~ Restart /\ ~ UNCHANGED vars
      BY <3>1 DEF Restart, vars
    <3>6. PICK q \in Panel : PanelStep(q)
      BY <1>1, <3>3, <3>4, <3>5 DEF Next
    <3>7. write_desired(q)
      BY <3>1, <3>2, <3>6, Consts DEF PanelStep, ReadDesired, Repoint
    <3>8. \E r, ok : Finish(q, ok) \/ Continue(q, r)
      <4>1. th[q].kind \in {"set_url", "full", "apply"}
        BY <1>1, <3>7, Consts DEF IInv, PcOK, write_desired
      <4>2. CASE th[q].kind = "set_url"
        BY <3>7, <4>2 DEF write_desired
      <4>3. CASE th[q].kind = "full"
        BY <3>7, <4>3 DEF write_desired
      <4>4. CASE th[q].kind = "apply"
        BY <3>7, <4>4 DEF write_desired
      <4> QED BY <4>1, <4>2, <4>3, <4>4
    <3>9. q = p
      BY <1>1, <3>1, <3>8, Consts DEF IInv, Finish, Continue, Set
    <3> QED BY <3>7, <3>9
  <2>2. desired' = [version |-> th[p].version, activate |-> th[p].activate, auto_apply |-> th[p].merged]
    BY <1>1, <2>1 DEF write_desired
  <2>3. desired'.auto_apply = th[p].merged
    BY <2>2
  <2>4. th[p].pc = "write" /\ th[p].auto # TRUE /\ th[p].merged
    BY <1>1, <2>3, Zenon DEF Unattended
  <2>5. Kept(th[p], desired, lit[p])
    BY <1>1 DEF SwitchInv
  <2> QED BY <2>4, <2>5, Zenon DEF Kept
<1>2. IInv /\ SwitchInv /\ [Next]_vars => [Act]_vars
  BY <1>1
<1> QED BY Always, AlwaysSwitch, <1>2, PTL DEF Spec, SwitchAtMostOneRequestOld

=============================================================================
