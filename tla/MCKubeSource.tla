--------------------------- MODULE MCKubeSource ---------------------------
(* Model values for KubeSource: one pod and one deployment in the states   *)
(* between which every line of kubeDiff has something to say.              *)
EXTENDS KubeSource

MCPodOrder == <<"web">>
MCDeploymentOrder == <<"nginx">>

APod(phase, reason, last, restarts) ==
    [phase |-> phase, reason |-> reason, last |-> last, restarts |-> restarts]

MCPodStates ==
    {APod("Running", None, None, 4),
     APod("Running", None, "Error", 5),
     APod("Running", "CrashLoopBackOff", "OOMKilled", 4),
     APod("Failed", None, None, 4)}

\* For the diagnoses: what terminated containers leave in a running pod.
ReasonedStates ==
    {APod("Running", reason, None, 0) :
        reason \in {None, "Completed", "CrashLoopBackOff", "Error"}}

MCDeploymentStates ==
    {[generation |-> 1, available |-> 1], [generation |-> 2, available |-> 0]}
=============================================================================
