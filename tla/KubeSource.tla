---------------------------- MODULE KubeSource ----------------------------
(***************************************************************************)
(* cpp/src/KubeSource.cpp: a worker thread that keeps one `kubectl get`    *)
(* child process at a time, and a timeline of what changed between the     *)
(* listings.  Every slot of the thread is one action.                      *)
(*                                                                         *)
(* There is no clock: a timer is armed or not and may fire at any moment   *)
(* once it is armed, so poll intervals and the retry delay are left out.   *)
(***************************************************************************)
EXTENDS KubeStatus

CONSTANT MaxTimeline        \* the 200 of emitSnapshot

ASSUME TimelineAssumption == MaxTimeline \in Nat

VARIABLES
    started,       \* start() was called
    path,          \* m_kubectlPath is not empty
    stopping,      \* m_stopping
    running,       \* m_running
    aborting,      \* m_aborting
    abortState,    \* m_abortState
    refresh,       \* m_refreshPending
    armed,         \* the timers that are active: "poll", "deadline", "kill"
    proc,          \* QProcess::state() of m_process
    sig,           \* strongest signal the child was sent
    have,          \* m_havePrev, and m_haveLast
    listing,       \* m_prevResources, and the resources of m_lastGood
    timeline,      \* m_timeline, and that of m_lastGood
    shown          \* the state of the last snapshot emitted by kubeReady

life  == <<started, path, stopping>>
child == <<proc, sig>>
query == <<running, aborting, refresh, armed, child>>
data  == <<have, listing, timeline>>
vars  == <<life, abortState, query, data, shown>>

AbortStates == {"TimedOut", "CommandFailed"}
Failures    == {"Unreachable", "CommandFailed", "ParseFailed"}
States      == {"None", "NotConfigured", "Ok", "Stale"} \cup AbortStates \cup Failures

-----------------------------------------------------------------------------
(* emitSnapshot, beginQuery and scheduleNext.                              *)

\* Mutant: a failed query shows the bare error even when a listing is known.
FailureShownBare(state) == state

\* A failed query shows the last listing again, or the bare error before it.
FailureShown(state) == IF have' THEN "Stale" ELSE state

\* beginQuery past its two early returns, entered with s on the screen and the
\* timers ts armed: there is no kubectl, or the child was forked, or start()
\* reported FailedToStart before it returned and onErrorOccurred has already
\* scheduled the next poll when the deadline timer is started.
BeginQuery(ts, s) ==
    /\ refresh' = FALSE
    /\ aborting' = FALSE
    /\ \/ /\ ~ path'
          /\ shown' = "NotConfigured"
          /\ armed' = ts \cup {"poll"}
          /\ running' = FALSE
          /\ proc' = "NotRunning"
          /\ UNCHANGED sig
       \/ /\ path'
          /\ shown' = s
          /\ armed' = ts \cup {"deadline"}
          /\ running' = TRUE
          /\ proc' = "Starting"
          /\ sig' = "none"
       \/ /\ path'
          /\ shown' = FailureShown("CommandFailed")
          /\ armed' = ts \cup {"poll", "deadline"}
          /\ running' = FALSE
          /\ proc' = "NotRunning"
          /\ sig' = "none"

\* Mutant: a pending refresh is forgotten with the poll it stands for.
EndQueryRefreshing(ts, s) ==
    /\ running' = FALSE
    /\ aborting' = FALSE
    /\ proc' = "NotRunning"
    /\ armed' = IF refresh THEN ts ELSE ts \cup {"poll"}
    /\ shown' = s
    /\ refresh' = FALSE
    /\ UNCHANGED sig

\* The end of a query that left the timers ts armed: s was emitted, then
\* scheduleNext is called.
EndQuery(ts, s) ==
    IF refresh
    THEN BeginQuery(ts, s)
    ELSE /\ running' = FALSE
         /\ aborting' = FALSE
         /\ proc' = "NotRunning"
         /\ armed' = ts \cup {"poll"}
         /\ shown' = s
         /\ UNCHANGED <<refresh, sig>>

FailQuery(ts, state) ==
    /\ UNCHANGED data
    /\ EndQuery(ts, FailureShown(state))

\* Mutant: new changes go to the end of the timeline.
RecordedLast(old, changes) ==
    LET all == old \o changes
    IN IF Len(all) <= MaxTimeline THEN all ELSE SubSeq(all, 1, MaxTimeline)

\* Mutant: nothing is removed.
RecordedAll(old, changes) == Reverse(changes) \o old

\* Each change is prepended, then the oldest are removed.
Recorded(old, changes) ==
    LET all == Reverse(changes) \o old
    IN IF Len(all) <= MaxTimeline THEN all ELSE SubSeq(all, 1, MaxTimeline)

SucceedQuery(ts, new) ==
    /\ have' = TRUE
    /\ listing' = new
    /\ timeline' = IF have THEN Recorded(timeline, KubeDiff(listing, new)) ELSE timeline
    /\ EndQuery(ts, "Ok")

-----------------------------------------------------------------------------
(* The slots.                                                              *)

Init ==
    /\ started = FALSE /\ path = FALSE /\ stopping = FALSE
    /\ running = FALSE /\ aborting = FALSE /\ refresh = FALSE
    /\ abortState = "TimedOut"
    /\ armed = {}
    /\ proc = "NotRunning" /\ sig = "none"
    /\ have = FALSE
    /\ listing = Empty
    /\ timeline = <<>>
    /\ shown = "None"

\* start(), at any moment and more than once.  Bound: kubectl is neither
\* installed nor removed after the first call.
Start ==
    /\ started' = TRUE
    /\ path' \in IF started THEN {path} ELSE BOOLEAN
    /\ UNCHANGED <<stopping, abortState, data>>
    /\ \/ /\ stopping
          /\ UNCHANGED <<query, shown>>
       \/ /\ ~ stopping /\ running
          /\ refresh' = TRUE
          /\ UNCHANGED <<running, aborting, armed, child, shown>>
       \/ /\ ~ stopping /\ ~ running
          /\ BeginQuery(armed, shown)

OnPollTimeout ==
    /\ "poll" \in armed
    /\ UNCHANGED <<life, abortState, data>>
    /\ IF running
       THEN /\ refresh' = TRUE
            /\ armed' = armed \ {"poll"}
            /\ UNCHANGED <<running, aborting, child, shown>>
       ELSE BeginQuery(armed \ {"poll"}, shown)

\* External: the exec of the child succeeded.
OnStarted ==
    /\ proc = "Starting"
    /\ proc' = "Running"
    /\ UNCHANGED <<life, abortState, running, aborting, refresh, armed, sig, data, shown>>

\* onErrorOccurred(FailedToStart), reported by the event loop.
OnStartFailure ==
    /\ proc = "Starting"
    /\ UNCHANGED <<life, abortState>>
    /\ IF stopping
       THEN /\ UNCHANGED <<data, refresh, sig>>
            /\ proc' = "NotRunning"
            /\ running' = FALSE
            /\ aborting' = FALSE
            /\ armed' = armed \ {"deadline"}
            /\ shown' = FailureShown("CommandFailed")
       ELSE FailQuery(armed \ {"deadline"}, "CommandFailed")

\* terminate() and the kill timer, for the reason given.
Abort(ts, state) ==
    /\ aborting' = TRUE
    /\ abortState' = state
    /\ sig' = IF sig = "kill" THEN "kill" ELSE "term"
    /\ armed' = ts \cup {"kill"}

\* onStdout / onStderr once the buffer holds more than kMaxOutputBytes.
OnOverflow ==
    /\ proc = "Running"
    /\ Abort(armed, "CommandFailed")
    /\ UNCHANGED <<life, running, refresh, proc, data, shown>>

OnDeadlineTimeout ==
    /\ "deadline" \in armed
    /\ IF running
       THEN Abort(armed \ {"deadline"}, "TimedOut")
       ELSE /\ armed' = armed \ {"deadline"}
            /\ UNCHANGED <<aborting, abortState, sig>>
    /\ UNCHANGED <<life, running, refresh, proc, data, shown>>

OnKillTimeout ==
    /\ "kill" \in armed
    /\ armed' = armed \ {"kill"}
    /\ sig' = IF running /\ proc # "NotRunning" THEN "kill" ELSE sig
    /\ UNCHANGED <<life, abortState, running, aborting, refresh, proc, data, shown>>

\* Mutant: only a child that was killed is treated as aborted.
OnFinishedUnlessKilled ==
    /\ proc = "Running" /\ ~ stopping
    /\ UNCHANGED <<life, abortState>>
    /\ IF aborting /\ sig = "kill"
       THEN FailQuery(armed \ {"deadline", "kill"}, abortState)
       ELSE \E new \in Listings : SucceedQuery(armed \ {"deadline", "kill"}, new)

\* onFinished: the child exited, however it was asked to.
OnFinished ==
    LET ts == armed \ {"deadline", "kill"}
    IN /\ proc = "Running"
       /\ UNCHANGED <<life, abortState>>
       /\ \/ /\ stopping
             /\ proc' = "NotRunning"
             /\ running' = FALSE
             /\ aborting' = FALSE
             /\ armed' = ts
             /\ UNCHANGED <<refresh, sig, data, shown>>
          \/ /\ ~ stopping /\ aborting
             /\ FailQuery(ts, abortState)
          \/ /\ ~ stopping /\ ~ aborting
             /\ \E state \in Failures : FailQuery(ts, state)
          \/ /\ ~ stopping /\ ~ aborting
             /\ \E new \in Listings : SucceedQuery(ts, new)

\* stop(): blocks the thread until the child is gone, or gives up after SIGKILL
\* and 200 ms.  While it waits, the child's exit, its start failure and its last
\* output are delivered to the slots above.
Stop ==
    /\ ~ stopping
    /\ stopping' = TRUE
    /\ running' = FALSE /\ aborting' = FALSE
    /\ UNCHANGED <<started, path, refresh, data>>
    /\ \/ /\ ~ running
          /\ armed' = {}
          /\ UNCHANGED <<child, abortState, shown>>
       \/ /\ running
          /\ armed' = {}
          /\ proc' = "NotRunning"
          /\ sig' \in {"term", "kill"}
          /\ abortState' \in {abortState, "CommandFailed"}
          /\ UNCHANGED shown
       \/ /\ running /\ proc = "Starting"
          /\ armed' = {}
          /\ proc' = "NotRunning"
          /\ sig' \in {"term", "kill"}
          /\ shown' = FailureShown("CommandFailed")
          /\ UNCHANGED abortState
       \/ /\ running
          /\ sig' = "kill"
          /\ proc' \in {proc, "Running"}
          /\ \/ armed' = {} /\ UNCHANGED abortState
             \/ armed' = {"kill"} /\ proc' = "Running" /\ abortState' = "CommandFailed"
          /\ UNCHANGED shown

Next ==
    \/ Start \/ Stop
    \/ OnPollTimeout \/ OnDeadlineTimeout \/ OnKillTimeout
    \/ OnStarted \/ OnStartFailure \/ OnOverflow \/ OnFinished

Spec == Init /\ [][Next]_vars

-----------------------------------------------------------------------------
(* Correctness.                                                            *)

Changes ==
    [object : Pods \cup Deployments,
     what : {"created", "deleted", "phase", "reason", "restarted", "rollout", "ready"},
     word : Phases \cup Reasons,
     number : Nat]

\* Every variable keeps its type.
TypeOK ==
    /\ {started, path, stopping, running, aborting, refresh, have} \subseteq BOOLEAN
    /\ abortState \in AbortStates
    /\ armed \subseteq {"poll", "deadline", "kill"}
    /\ proc \in {"NotRunning", "Starting", "Running"}
    /\ sig \in {"none", "term", "kill"}
    /\ listing \in Listings
    /\ timeline \in Seq(Changes) /\ Len(timeline) <= MaxTimeline
    /\ shown \in States

\* Once started and until stopped, the source always has something that will
\* call it back: a poll timer, or a query with a living child and either a timer
\* that will end it or a SIGKILL already sent; and only a running query can be
\* aborting or owe a refresh, so none is forgotten.  With nothing happening before
\* start() it is inductive.
Supervised ==
    /\ started /\ ~ stopping =>
          /\ running \/ "poll" \in armed
          /\ running <=> proc # "NotRunning"
          /\ running => {"deadline", "kill"} \cap armed # {} \/ sig = "kill"
          /\ refresh \/ aborting => running
    /\ ~ started => ~ running /\ ~ aborting /\ ~ refresh /\ armed = {} /\ proc = "NotRunning"

\* A query that ran into its deadline or the output limit never becomes a
\* listing on the screen, however its child exits (onFinished, wasAborting).
AbortedNeverFresh ==
    [][aborting /\ ~ aborting' /\ ~ stopping' => shown' # "Ok" /\ UNCHANGED data]_vars

TellsPresence(i) == timeline[i].what \in {"created", "deleted"}

Agrees(change) ==
    LET states == IF change.object \in Pods THEN listing.pods ELSE listing.deployments
    IN CASE change.what = "created" -> change.object \in DOMAIN states
         [] change.what = "deleted" -> change.object \notin DOMAIN states
         [] change.what = "phase"   -> states[change.object].phase = change.word
         [] change.what = "ready"   -> states[change.object].available = change.number

\* Of the entries about one object that say whether it exists, the newest one
\* says what the listing says; so do the newest phase of a pod and the newest
\* readiness of a deployment that were not followed by its deletion or its
\* creation.  Trimming, aborted queries and restarts cannot separate the two
\* ("diff: restart, create, rollout, readiness captured", test_kube.cpp:243).
TimelineTellsListing ==
    \A i \in DOMAIN timeline :
        /\ timeline[i].what \in {"created", "deleted", "phase", "ready"}
        /\ \A j \in 1 .. i - 1 : timeline[j].object = timeline[i].object
              => ~ TellsPresence(j) /\ timeline[j].what # timeline[i].what
        => Agrees(timeline[i])

\* A pod that becomes an issue between two listings has an entry among the ones
\* this listing added, as long as it added no more than the timeline holds: the
\* two functions that look at a pod, kubePodIsIssue and kubeDiff, look at the
\* same things.
NewIssueIsLogged ==
    [][LET added == Len(KubeDiff(listing, listing'))
       IN have /\ added <= MaxTimeline =>
            \A p \in PodIssues(listing') \ PodIssues(listing) :
                \E i \in 1 .. added : timeline'[i].object = p]_vars

\* Every pod the badge counts as an issue is named by the diagnosis card "(why
\* broken)" (DashboardPanel.cpp:756), which otherwise says "no problems
\* detected" (KubeStatus.cpp:731).
IssuesAreDiagnosed == shown = "Ok" => PodIssues(listing) \subseteq Diagnosed(listing)

-----------------------------------------------------------------------------
(* The source implements the feed the window relies on.                    *)

OnScreen ==
    [state  |-> shown,
     answer |-> IF shown \in {"Ok", "Stale"} THEN {listing} ELSE {}]

Phase ==
    IF stopping THEN "stopped"
    ELSE IF running THEN "asking"
    ELSE IF started THEN "idle" ELSE "off"

Feed == INSTANCE StatusFeed WITH
            Answers     <- {{l} : l \in Listings},
            Errors      <- AbortStates \cup Failures,
            NoAnswer    <- {},
            Unavailable <- "NotConfigured",
            phase       <- Phase,
            known       <- IF have THEN {listing} ELSE {},
            screen      <- OnScreen,
            waiting     <- refresh

\* However often start() is called, every step of the source is a step of the
\* feed or none: one kubectl at a time, nothing on the screen that no kubectl
\* said, and what was asked meanwhile is asked at once when it ends.
ImplementsFeed == Feed!Spec
=============================================================================
