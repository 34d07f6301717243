---------------------------- MODULE DockerStatus ----------------------------
(***************************************************************************)
(* cpp/src/DockerStatus.cpp: what one `docker ps --all` listing says, and  *)
(* how DockerStateTracker turns two successive listings into the set of    *)
(* containers that recently crashed.                                       *)
(*                                                                         *)
(* A listing gives every known container id one kind.  "failed" is the     *)
(* docker state `exited` with a non-zero exit code, "done" the same state  *)
(* with code 0; an "unhealthy" container is in the docker state `running`. *)
(***************************************************************************)
EXTENDS Naturals

CONSTANT Containers        \* the container ids the daemon may list

Kinds == {"absent", "running", "unhealthy", "restarting", "failed", "done"}

Listings == [Containers -> Kinds]

Nothing == [c \in Containers |-> "absent"]

IsRunning(kind) == kind \in {"running", "unhealthy"}

(***************************************************************************)
(* dockerContainerIsIssue over a listing whose `crashed` marks are given.  *)
(***************************************************************************)
IsIssue(listing, crashed, c) ==
    \/ c \in crashed
    \/ listing[c] = "restarting"
    \/ listing[c] = "unhealthy"

\* dockerIssueCount(...) > 0
HasIssues(listing, crashed) == \E c \in Containers : IsIssue(listing, crashed, c)

\* Mutant: the mark survives a restart of the container.
TrackCrashesKeepingRestarted(previous, crashed, listing) ==
    {c \in Containers :
        /\ listing[c] # "absent"
        /\ \/ c \in crashed
           \/ IsRunning(previous[c]) /\ listing[c] = "failed"}

\* Mutant: an exit is a crash whatever the container was before.
TrackCrashesAnyExit(previous, crashed, listing) ==
    {c \in Containers :
        /\ ~ IsRunning(listing[c]) /\ listing[c] # "absent"
        /\ c \in crashed \/ listing[c] = "failed"}

(***************************************************************************)
(* DockerStateTracker::update: the crashed set after a listing.            *)
(***************************************************************************)
TrackCrashes(previous, crashed, listing) ==
    {c \in Containers :
        /\ listing[c] # "absent"
        /\ ~ IsRunning(listing[c])
        /\ \/ c \in crashed
           \/ IsRunning(previous[c]) /\ listing[c] = "failed"}
=============================================================================
