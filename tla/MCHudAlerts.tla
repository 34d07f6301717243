---------------------------- MODULE MCHudAlerts ----------------------------
(* Three rules of the table: app_cpu, host_mem (latched) and k8s_issues.    *)
EXTENDS HudAlerts, TLC

MCSustained == (1 :> 2) @@ (3 :> 2) @@ (6 :> 1)
MCSourceOf == (1 :> "sample") @@ (3 :> "sample") @@ (6 :> "kube")
=============================================================================
