----------------------------- MODULE KubeStatus -----------------------------
(***************************************************************************)
(* cpp/src/KubeStatus.cpp: what one `kubectl get` listing says, which of   *)
(* its objects are issues, why a pod is one, and what changed between two  *)
(* listings.  Objects are listed in the order the server lists them.       *)
(*                                                                         *)
(* Of the reasons that all functions treat alike one is kept: the pull     *)
(* failures are ImagePullBackOff, the two CreateContainer errors one.      *)
(***************************************************************************)
EXTENDS Integers, Sequences, SequencesExt

CONSTANTS
    PodOrder,           \* the names of the pods, in the order of the list
    PodStates,          \* what a listing may say of a pod
    DeploymentOrder,    \* the same of the deployments
    DeploymentStates

Phases == {"Pending", "Running", "Succeeded", "Failed", "Unknown"}

BadReasons ==
    {"CrashLoopBackOff", "ImagePullBackOff", "CreateContainerError",
     "RunContainerError", "OOMKilled", "Error"}

None == "none"

Reasons == BadReasons \cup {None, "ContainerCreating", "Completed"}

Pods == {PodOrder[i] : i \in DOMAIN PodOrder}
Deployments == {DeploymentOrder[i] : i \in DOMAIN DeploymentOrder}

Pod == [phase : Phases, reason : Reasons, last : Reasons, restarts : Nat]
Deployment == [generation : Nat, available : Nat]

ASSUME StatesAssumption ==
    /\ PodOrder \in Seq(Pods) /\ DeploymentOrder \in Seq(Deployments)
    /\ Pods \cap Deployments = {}
    /\ PodStates \subseteq Pod
    /\ DeploymentStates \subseteq Deployment

\* A listing gives every object it lists its state; the others do not exist.
Listings ==
    [pods : UNION {[S -> PodStates] : S \in SUBSET Pods},
     deployments : UNION {[S -> DeploymentStates] : S \in SUBSET Deployments}]

Empty == [pods |-> <<>>, deployments |-> <<>>]

-----------------------------------------------------------------------------
(* Issues and diagnoses.                                                   *)

PodIsIssue(pod) ==
    \/ pod.phase \in {"Failed", "Unknown"}
    \/ pod.reason \in BadReasons
    \/ pod.restarts >= 5

\* The pods kubeIssueCount counts.
PodIssues(listing) == {p \in DOMAIN listing.pods : PodIsIssue(listing.pods[p])}

\* The title kubeDiagnose finds for a pod, or None when it goes on to the next.
DiagnosisOf(pod) ==
    LET reason == IF pod.reason # None THEN pod.reason ELSE pod.last
    IN CASE ~ PodIsIssue(pod) /\ pod.reason = None -> None
         [] reason = "ImagePullBackOff"     -> "image pull failing"
         [] reason = "CrashLoopBackOff"     -> "crash loop"
         [] reason = "OOMKilled"            -> "OOMKilled"
         [] reason = "CreateContainerError" -> "container config error"
         [] reason = "RunContainerError"    -> "container failed to start"
         [] pod.phase = "Pending"           -> "pending / unschedulable"
         [] pod.phase = "Failed"            -> "pod failed"
         [] pod.restarts >= 5               -> "frequent restarts"
         [] OTHER                           -> None

Diagnosed(listing) == {p \in DOMAIN listing.pods : DiagnosisOf(listing.pods[p]) # None}

-----------------------------------------------------------------------------
(* kubeDiff.                                                               *)

\* An entry, with the word or the number its summary gives.
Change(object, what, word, number) ==
    [object |-> object, what |-> what, word |-> word, number |-> number]

Only(condition, change) == IF condition THEN <<change>> ELSE <<>>

\* Mutant: a restart that leaves phase and reason alone is no change.
PodChangesQuiet(prev, cur, p) ==
    CASE p \notin DOMAIN cur -> <<>>
      [] p \in DOMAIN cur \ DOMAIN prev -> <<Change(p, "created", None, 0)>>
      [] p \in DOMAIN cur \cap DOMAIN prev ->
            Only(cur[p].phase # prev[p].phase, Change(p, "phase", cur[p].phase, 0))
            \o Only(cur[p].reason \notin {prev[p].reason, None},
                    Change(p, "reason", cur[p].reason, 0))

\* What the first loop finds of a pod.
PodChanges(prev, cur, p) ==
    CASE p \notin DOMAIN cur -> <<>>
      [] p \in DOMAIN cur \ DOMAIN prev -> <<Change(p, "created", None, 0)>>
      [] p \in DOMAIN cur \cap DOMAIN prev ->
            Only(cur[p].phase # prev[p].phase, Change(p, "phase", cur[p].phase, 0))
            \o Only(cur[p].reason \notin {prev[p].reason, None},
                    Change(p, "reason", cur[p].reason, 0))
            \o Only(cur[p].restarts > prev[p].restarts, Change(p, "restarted", None, 0))

\* What the third loop finds of a deployment.
DeploymentChanges(prev, cur, d) ==
    CASE d \notin DOMAIN cur -> <<>>
      [] d \in DOMAIN cur \ DOMAIN prev -> <<Change(d, "created", None, 0)>>
      [] d \in DOMAIN cur \cap DOMAIN prev ->
            Only(cur[d].generation \notin {prev[d].generation, 0},
                 Change(d, "rollout", None, 0))
            \o Only(cur[d].available # prev[d].available,
                    Change(d, "ready", None, cur[d].available))

\* What the loops over the previous listing find.
Deleted(prev, cur, o) ==
    Only(o \in DOMAIN prev \ DOMAIN cur, Change(o, "deleted", None, 0))

\* The changes from one listing to the next, in the order they are found.
KubeDiff(prev, cur) ==
    FlattenSeq([i \in DOMAIN PodOrder |-> PodChanges(prev.pods, cur.pods, PodOrder[i])])
    \o FlattenSeq([i \in DOMAIN PodOrder |-> Deleted(prev.pods, cur.pods, PodOrder[i])])
    \o FlattenSeq([i \in DOMAIN DeploymentOrder |->
          DeploymentChanges(prev.deployments, cur.deployments, DeploymentOrder[i])])
    \o FlattenSeq([i \in DOMAIN DeploymentOrder |->
          Deleted(prev.deployments, cur.deployments, DeploymentOrder[i])])
=============================================================================
