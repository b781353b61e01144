----------------------------- MODULE ClusterOta -----------------------------
(***************************************************************************)
(* How a node follows the cluster's desired release: the desired row in    *)
(* the shared admin database (cluster_ota_store), the unattended hot-OTA   *)
(* thread of gr-service (apply_cluster_ota_tick), and the panel handlers   *)
(* that declare a release and install it by hand.  The hot thread and the  *)
(* handlers run side by side and share the release base URL, the module    *)
(* markers and the front-end tree; nothing serialises them.                *)
(*                                                                         *)
(* Abstractions.  A release is a number; its URL, its manifest and every   *)
(* module and front-end package in it have that version.  Installing one   *)
(* module is one step here (ModuleOta has the steps inside it), and the    *)
(* analyze module that is loaded is the one its marker names.  Time is     *)
(* left out: the hot thread's sleep only delays its next tick.             *)
(***************************************************************************)
EXTENDS Integers, FiniteSets

CONSTANTS Module,       \* the modules of every manifest
          Analyze,      \* the one apply_github_analyze installs
          Panel,        \* panel sessions, one request each at a time
          Asks,         \* Asks[p]: the kinds of request p makes (a bound)
          Hot,          \* the hot-OTA thread
          MaxRelease,
          InitMarkers,  \* the marker sets a node may start with
          InitDesired,  \* the rows the shared database may hold by then
          MaxOps, MaxFail, MaxCrash,   \* bounds
          None          \* no marker, no desired row, no front end, no request

Release == 1..MaxRelease
Thread == Panel \cup {Hot}

(* ClusterOtaDesired; the maintenance window concerns the root timer only. *)
ClusterOtaDesired == [version : Release, activate : BOOLEAN,
                      auto_apply : BOOLEAN]

Kind == {"set_url", "apply", "full", "fe"}

ASSUME ConstAssumption ==
    /\ Analyze \in Module /\ Hot \notin Panel
    /\ Asks \in [Panel -> SUBSET Kind]
    /\ MaxRelease \in Nat \ {0}
    /\ MaxOps \in Nat /\ MaxFail \in Nat /\ MaxCrash \in Nat
    /\ None \notin Release
    /\ InitMarkers \subseteq [Module -> Release \cup {None}]
    /\ InitDesired \subseteq ClusterOtaDesired \cup {None}

VARIABLES
    mode,       \* GR_AUTO_OTA_HOT, read once
    refused,    \* releases whose URL set_release_base_url refuses here
    desired,    \* the cluster_ota_desired row
    base,       \* release_base_url (persisted: it survives a restart)
    marker,     \* the active version of each module
    fe,         \* the front-end tree served; None while or after it is moved away
    th,         \* what each thread is doing
    streak,     \* the hot thread's fail_streak
    lit,        \* history: lit[p] iff the row asked for unattended apply at
                \* some moment since p's request, not yet written, came in
    ops, fails, crashes

vars == <<mode, refused, desired, base, marker, fe, th, streak, lit,
          ops, fails, crashes>>

(* An Option<bool> of a request: None keeps the row's value.               *)
OptBool == BOOLEAN \cup {None}

PC == {"idle", "read", "write", "repoint", "manifest", "module", "fe", "fe_copy"}

(* kind is what the request is; version what it declares, then what the    *)
(* manifest it installs from says; merged the auto_apply it will write;    *)
(* package the front end it extracted; ok whether all went well so far.    *)
ThreadType ==
    [pc : PC, kind : Kind \cup {"tick", None},
     version : Release \cup {None}, auto : OptBool, merged : BOOLEAN,
     activate : BOOLEAN, todo : SUBSET Module, fe : BOOLEAN,
     package : Release \cup {None}, ok : BOOLEAN]

Idle == [pc |-> "idle", kind |-> None, version |-> None, auto |-> None,
         merged |-> FALSE, activate |-> FALSE, todo |-> {}, fe |-> FALSE,
         package |-> None, ok |-> TRUE]

(* The sleep uses min(fail_streak, 14); a larger streak tells nothing.     *)
StreakCap == 14

TypeOK ==
    /\ mode \in {"enforce", "warn"}
    /\ refused \subseteq Release
    /\ desired \in ClusterOtaDesired \cup {None}
    /\ base \in Release
    /\ marker \in [Module -> Release \cup {None}]
    /\ fe \in Release \cup {None}
    /\ th \in [Thread -> ThreadType]
    /\ streak \in 0..StreakCap
    /\ lit \in [Panel -> BOOLEAN]
    /\ ops \in 0..MaxOps /\ fails \in 0..MaxFail /\ crashes \in 0..MaxCrash

(* The configured base is one the node accepts.                            *)
Init ==
    /\ mode \in {"enforce", "warn"}
    /\ refused \in SUBSET (Release \ {1})
    /\ desired \in InitDesired
    /\ base = 1
    /\ marker \in InitMarkers
    /\ fe = 1
    /\ th = [t \in Thread |-> Idle]
    /\ streak = 0
    /\ lit = [p \in Panel |-> FALSE]
    /\ ops = 0 /\ fails = 0 /\ crashes = 0

-----------------------------------------------------------------------------
(* A call that may fail: a download, a database connection, a disk.        *)
Fails == fails < MaxFail /\ fails' = fails + 1
Works == UNCHANGED fails

Set(t, r) == th' = [th EXCEPT ![t] = r]

(* The end of a request, or of a tick: the hot thread counts consecutive   *)
(* incomplete ticks, every other return of the tick resets the streak.     *)
Finish(t, ok) ==
    /\ Set(t, Idle)
    /\ streak' = IF t # Hot THEN streak
                 ELSE IF ok THEN 0
                 ELSE IF streak = StreakCap THEN StreakCap ELSE streak + 1

Continue(t, r) == Set(t, r) /\ UNCHANGED streak

(* set_release_base_url where it succeeds: a URL that is not http(s), or   *)
(* that this node's environment forbids, is refused and changes nothing.   *)
set_release_base_url(v) == v \notin refused /\ base' = v

\* Mutant: completion judged by the analyze module alone.
hot_apply_decision_Mut(want) ==
    LET versions == {marker[Analyze]} \ {None}
    IN  IF versions # {} /\ versions \subseteq {want} THEN "Closed"
        ELSE IF \E v \in versions : v > want THEN "DowngradeBlocked"
        ELSE "Apply"

(* hot_apply_decision over the markers; a module without a marker is not   *)
(* among the active ones.                                                  *)
hot_apply_decision(want) ==
    LET versions == {marker[m] : m \in Module} \ {None}
    IN  IF versions # {} /\ versions \subseteq {want} THEN "Closed"
        ELSE IF \E v \in versions : v > want THEN "DowngradeBlocked"
        ELSE "Apply"

(* should_apply_cluster_ota: the node is not on this release's URL with    *)
(* this analyze version.                                                   *)
should_apply_cluster_ota(cur, analyze, d) ==
    cur # d \/ analyze # d

(* apply_cluster_ota_tick up to its first download.  Without a row that    *)
(* asks for it, or in warn mode, a tick changes nothing; a closed gate may *)
(* still re-point the base URL; only Apply goes on.  A URL this node       *)
(* refuses ends the tick as a failed one.                                  *)
apply_cluster_ota_tick ==
    LET follow   == desired # None /\ desired.auto_apply /\ mode = "enforce"
        want     == desired.version
        decision == IF follow THEN hot_apply_decision(want) ELSE "none"
        repoint  == \/ decision = "Apply"
                    \/ /\ decision = "Closed"
                       /\ should_apply_cluster_ota(base, want, want)
    IN
    /\ th[Hot].pc = "idle"
    /\ \/ Fails /\ Finish(Hot, TRUE) /\ UNCHANGED base
       \/ /\ Works /\ repoint
          /\ set_release_base_url(want)
          /\ IF decision = "Apply"
             THEN Continue(Hot, [Idle EXCEPT !.pc = "manifest", !.kind = "tick",
                                    !.activate = desired.activate, !.fe = TRUE])
             ELSE Finish(Hot, TRUE)
       \/ /\ Works /\ repoint /\ want \in refused
          /\ Finish(Hot, FALSE)
          /\ UNCHANGED base
       \/ /\ Works /\ ~ repoint
          /\ Finish(Hot, TRUE)
          /\ UNCHANGED base
    /\ UNCHANGED <<mode, refused, desired, marker, fe, lit, ops, crashes>>

-----------------------------------------------------------------------------
(* What follows is shared by the hot thread and the panel's installs.      *)

(* After the modules: the front end if it is wanted, else the end.         *)
AfterModules(t, r) ==
    IF r.fe THEN Continue(t, [r EXCEPT !.pc = "fe"])
            ELSE Finish(t, r.ok)

(* ota_install_all_remote: the manifest of whatever release the base names *)
(* now.                                                                    *)
ota_install_all_remote(t) ==
    LET r == th[t] IN
    /\ r.pc = "manifest"
    /\ \/ /\ Works
          /\ Continue(t, [r EXCEPT !.pc = "module", !.version = base,
                                   !.todo = Module])
       \/ /\ Fails
          /\ AfterModules(t, [r EXCEPT !.ok = FALSE])
    /\ UNCHANGED <<mode, refused, desired, base, marker, fe, lit, ops, crashes>>

(* ota_install_remote of module m at version v reads the manifest again    *)
(* from the base of that moment, which must list that very version, and    *)
(* ota_activate refuses to go below the marker.                            *)
Installable(m, v, activate) ==
    /\ base = v
    /\ activate /\ marker[m] # None => v >= marker[m]

\* Mutant: a module's error is not collected.
ModuleResult_Mut(r, m, ok) == [r EXCEPT !.todo = @ \ {m}]

(* One module is done; an error is collected and the others go on.         *)
ModuleResult(r, m, ok) == [r EXCEPT !.todo = @ \ {m}, !.ok = @ /\ ok]

ota_install_remote(t) ==
    LET r == th[t] IN
    /\ r.pc = "module"
    /\ \E m \in r.todo :
          /\ \/ /\ Works
                /\ Installable(m, r.version, r.activate)
                /\ marker' = IF r.activate
                             THEN [marker EXCEPT ![m] = r.version] ELSE marker
                /\ IF r.todo = {m}
                   THEN AfterModules(t, ModuleResult(r, m, TRUE))
                   ELSE Continue(t, ModuleResult(r, m, TRUE))
             \/ /\ IF Installable(m, r.version, r.activate) THEN Fails ELSE Works
                /\ IF r.todo = {m}
                   THEN AfterModules(t, ModuleResult(r, m, FALSE))
                   ELSE Continue(t, ModuleResult(r, m, FALSE))
                /\ UNCHANGED marker
    /\ UNCHANGED <<mode, refused, desired, base, fe, lit, ops, crashes>>

(* ota_install_fe: download and extract the package of the release the     *)
(* base names now, then move the served tree to a .bak directory.          *)
ota_install_fe(t) ==
    LET r == th[t] IN
    /\ r.pc = "fe"
    /\ \/ /\ Works
          /\ fe' = None
          /\ Continue(t, [r EXCEPT !.pc = "fe_copy", !.package = base])
       \/ /\ Fails
          /\ Finish(t, FALSE)
          /\ UNCHANGED fe
    /\ UNCHANGED <<mode, refused, desired, base, marker, lit, ops, crashes>>

(* copy_dir_recursive of the extracted tree into place.                    *)
copy_dir_recursive(t) ==
    LET r == th[t] IN
    /\ r.pc = "fe_copy"
    /\ \/ Works /\ fe' = r.package /\ Finish(t, r.ok)
       \/ Fails /\ Finish(t, FALSE) /\ UNCHANGED fe
    /\ UNCHANGED <<mode, refused, desired, base, marker, lit, ops, crashes>>

-----------------------------------------------------------------------------
(* The panel's requests.                                                   *)

(* Whether a row asks for unattended apply.                                *)
Unattended(row) == row # None /\ row.auto_apply

Request(p, r) ==
    /\ th[p].pc = "idle"
    /\ r.kind \in Asks[p]
    /\ ops < MaxOps /\ ops' = ops + 1
    /\ Continue(p, r)
    /\ lit' = [lit EXCEPT ![p] = r.pc = "read" /\ Unattended(desired)]
    /\ UNCHANGED <<mode, refused, desired, marker, fe, fails, crashes>>

(* ota_set_release_url: the node's base first, then the row.  A URL the    *)
(* node refuses ends the request before anything changed.                  *)
ota_set_release_url(p, v, auto) ==
    /\ set_release_base_url(v)
    /\ Request(p, [Idle EXCEPT !.pc = "read", !.kind = "set_url",
                      !.auto = auto, !.activate = TRUE])

(* ota_full_upgrade: with a URL or a switch it declares first, and then    *)
(* installs the modules and the front end; v = None is no URL.  A refused  *)
(* URL ends it at once.                                                    *)
ota_full_upgrade(p, v, auto, activate) ==
    /\ IF v = None THEN UNCHANGED base ELSE set_release_base_url(v)
    /\ Request(p, [Idle EXCEPT
          !.pc = IF v = None /\ auto = None THEN "manifest" ELSE "read",
          !.kind = "full", !.auto = auto, !.activate = activate, !.fe = TRUE])

(* apply_github_analyze, of the panel's and of the cluster's apply route.  *)
apply_github_analyze(p, v, activate) ==
    /\ UNCHANGED base
    /\ Request(p, [Idle EXCEPT !.pc = "read", !.kind = "apply", !.version = v,
                      !.activate = activate])

(* The panel's ota_install_fe request.                                     *)
panel_install_fe(p) ==
    /\ UNCHANGED base
    /\ Request(p, [Idle EXCEPT !.pc = "fe", !.kind = "fe"])

\* Mutant: an absent row or a failed read switches unattended apply on.
MergedAuto_Mut(auto, row) ==
    IF auto # None THEN auto ELSE IF row # None THEN row.auto_apply ELSE TRUE

(* desired_auto_fields: an Option that is None takes the row's value, and  *)
(* false when there is no row or it cannot be read.                        *)
MergedAuto(auto, row) ==
    IF auto # None THEN auto ELSE IF row # None THEN row.auto_apply ELSE FALSE

\* Mutant: a request without a URL of its own declares none.
DeclaredVersion_Mut(r) == r.version

(* What a request declares: apply_github_analyze its own URL, the others   *)
(* the release base of this moment.                                        *)
DeclaredVersion(r) == IF r.kind = "apply" THEN r.version ELSE base

(* The row is read; a read error counts as no row.                         *)
ReadDesired(p) ==
    LET r == th[p]
        v == DeclaredVersion(r)
    IN
    /\ r.pc = "read"
    /\ \/ /\ Works
          /\ Continue(p, [r EXCEPT !.pc = "write", !.version = v,
                                   !.merged = MergedAuto(r.auto, desired)])
       \/ /\ Fails
          /\ Continue(p, [r EXCEPT !.pc = "write", !.version = v,
                                   !.merged = MergedAuto(r.auto, None)])
    /\ UNCHANGED <<mode, refused, desired, base, marker, fe, lit, ops, crashes>>

(* The request goes on at pc; what it merged is not used again.            *)
Declared(r, pc) == [r EXCEPT !.pc = pc, !.auto = None, !.merged = FALSE]

(* write_desired replaces the whole row.  An error ends every request.     *)
write_desired(p) ==
    LET r == th[p] IN
    /\ r.pc = "write"
    /\ \/ /\ Works
          /\ desired' = [version |-> r.version, activate |-> r.activate,
                         auto_apply |-> r.merged]
          /\ lit' = [q \in Panel |-> q # p /\ th[q].pc \in {"read", "write"}
                                    /\ (lit[q] \/ Unattended(desired'))]
          /\ CASE r.kind = "set_url" -> Finish(p, TRUE)
               [] r.kind = "full"    -> Continue(p, Declared(r, "manifest"))
               [] r.kind = "apply"   -> Continue(p, Declared(r, "repoint"))
       \/ /\ Fails
          /\ Finish(p, FALSE)
          /\ lit' = [lit EXCEPT ![p] = FALSE]
          /\ UNCHANGED desired
    /\ UNCHANGED <<mode, refused, base, marker, fe, ops, crashes>>

(* apply_github_analyze after its row: the base, and the analyze module    *)
(* unless the node is already there.  A URL the node refuses ends the      *)
(* request with the row already written.                                   *)
Repoint(p) ==
    LET r == th[p] IN
    /\ r.pc = "repoint"
    /\ \/ /\ set_release_base_url(r.version)
          /\ IF should_apply_cluster_ota(base', marker[Analyze], r.version)
             THEN Continue(p, [r EXCEPT !.pc = "module", !.todo = {Analyze}])
             ELSE Finish(p, TRUE)
       \/ r.version \in refused /\ Finish(p, FALSE) /\ UNCHANGED base
    /\ UNCHANGED <<mode, refused, desired, marker, fe, lit, ops, fails, crashes>>

-----------------------------------------------------------------------------
(* The process dies and is started again by its supervisor: threads and    *)
(* the streak are lost, files and the row are not.                         *)
Restart ==
    /\ crashes < MaxCrash /\ crashes' = crashes + 1
    /\ th' = [t \in Thread |-> Idle]
    /\ streak' = 0
    /\ lit' = [p \in Panel |-> FALSE]
    /\ UNCHANGED <<mode, refused, desired, base, marker, fe, ops, fails>>

Install(t) ==
    \/ ota_install_all_remote(t) \/ ota_install_remote(t)
    \/ ota_install_fe(t) \/ copy_dir_recursive(t)

HotStep == apply_cluster_ota_tick \/ Install(Hot)

PanelStep(p) == ReadDesired(p) \/ write_desired(p) \/ Repoint(p) \/ Install(p)

PanelRequest(p) ==
    \/ panel_install_fe(p)
    \/ \E v \in Release, auto \in OptBool : ota_set_release_url(p, v, auto)
    \/ \E v \in Release \cup {None}, auto \in OptBool, activate \in BOOLEAN :
          ota_full_upgrade(p, v, auto, activate)
    \/ \E v \in Release, activate \in BOOLEAN :
          apply_github_analyze(p, v, activate)

Next ==
    \/ HotStep
    \/ \E p \in Panel : PanelRequest(p) \/ PanelStep(p)
    \/ Restart

(* The hot thread loops for ever and every call it makes has a timeout; a  *)
(* request that was accepted runs to its end.                              *)
Fairness == WF_vars(HotStep) /\ \A p \in Panel : WF_vars(PanelStep(p))

Spec == Init /\ [][Next]_vars /\ Fairness

-----------------------------------------------------------------------------
(* The hot thread has work it may do: enforce mode, a row that asks for    *)
(* unattended activation of a release whose URL this node accepts, and no  *)
(* module ahead of it.                                                     *)
MayFollow ==
    /\ mode = "enforce"
    /\ desired # None /\ desired.auto_apply /\ desired.activate
    /\ desired.version \notin refused
    /\ \A m \in Module : marker[m] # None => marker[m] <= desired.version

(* "Completion is every active module at the desired version": once the    *)
(* row stays, and failures end, every module reaches the desired release,  *)
(* whatever the panel, failed downloads and restarts did before.           *)
ModulesConverge ==
    <>[]MayFollow => <>[](MayFollow /\ \A m \in Module :
                                          marker[m] = desired.version)

(* A tick that counts as complete, and so resets the back-off, left every  *)
(* module of its manifest at that release or above.                        *)
CompleteTickApplied ==
    [][(th[Hot].pc = "fe_copy" /\ th[Hot].ok /\ th[Hot].activate
            /\ th'[Hot].pc = "idle" /\ streak' = 0 /\ UNCHANGED <<fails, crashes>>)
          => \A m \in Module :
                marker'[m] # None /\ marker'[m] >= th[Hot].version]_vars

(* A request that leaves the switch out writes unattended apply into the   *)
(* row only if the row asked for it at some moment while that request ran: *)
(* however many requests overlap, the value desired_auto_fields merges is  *)
(* at most one request old, and a missing row or a failed read never turns *)
(* the switch on.  (That it may be stale is the lost update between the    *)
(* read and write_desired.)                                                *)
SwitchAtMostOneRequestOld ==
    [][\A p \in Panel :
          (/\ th[p].pc = "write" /\ th'[p].pc # "write" /\ th[p].auto # TRUE
           /\ desired' # desired /\ Unattended(desired'))
              => lit[p]]_vars

=============================================================================
