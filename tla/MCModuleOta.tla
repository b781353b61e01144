---------------------------- MODULE MCModuleOta -----------------------------
(* Deployments and workers for model checking ModuleOta.                    *)
EXTENDS ModuleOta, TLC

CONSTANTS hot, panel

MCWorker == {hot, panel}

(* The hot-OTA thread installs; the panel looks at manifests and activates. *)
MCAsks == (hot :> {"stage", "install"}) @@ (panel :> {"manifest", "activate"})

(* A production node with a hot module and no downgrade override.           *)
ProdHot == {[hot |-> TRUE, prod |-> TRUE, downgrade |-> FALSE]}

(* And one of each setting's other value.                                   *)
MCEnvs == ProdHot \cup {[hot |-> FALSE, prod |-> FALSE, downgrade |-> FALSE],
                        [hot |-> TRUE, prod |-> FALSE, downgrade |-> TRUE]}

=============================================================================
