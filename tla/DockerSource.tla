---------------------------- MODULE DockerSource ----------------------------
(***************************************************************************)
(* cpp/src/DockerSource.cpp: a worker thread that keeps one `docker ps`    *)
(* child process at a time and supervises it with three single-shot        *)
(* timers.  Every slot the thread's event loop can call is one action.     *)
(*                                                                         *)
(* A timer is the number of ticks left before it is due, or Off.  Due      *)
(* timers are served before time moves on (the thread does nothing else),  *)
(* in any order among themselves and against what the child does.          *)
(***************************************************************************)
EXTENDS DockerStatus, Integers

CONSTANTS
    HealthyMs, IssueMs, AbsentMs,    \* poll intervals
    BackoffStartMs, BackoffCapMs,    \* retry intervals
    TimeoutMs, KillGraceMs,          \* life of a query, SIGTERM to SIGKILL
    MaxStarts,                       \* bound: calls of start() (main makes one)
    Chatty                           \* may a child write on after SIGTERM?

\* What validate() in Config.cpp leaves of any configuration file.
ASSUME ConfigAssumption ==
    /\ {HealthyMs, IssueMs, AbsentMs} \subseteq Nat \ {0}
    /\ {BackoffStartMs, BackoffCapMs, TimeoutMs, KillGraceMs} \subseteq Nat \ {0}
    /\ BackoffStartMs <= BackoffCapMs
    /\ MaxStarts \in Nat
    /\ Chatty \in BOOLEAN

VARIABLES
    starts,        \* calls of start() so far
    path,          \* m_dockerPath is not empty
    stopping,      \* m_stopping
    running,       \* m_running
    aborting,      \* m_aborting
    abortState,    \* m_abortState
    refresh,       \* m_refreshPending
    backoff,       \* m_backoffMs
    poll,          \* m_pollTimer
    deadline,      \* m_deadlineTimer
    kill,          \* m_killTimer
    proc,          \* QProcess::state() of m_process
    sig,           \* strongest signal the child was sent
    lastGood,      \* m_lastGood (and m_haveLast: it is not NoSnapshot)
    previous,      \* m_stateTracker.m_previousState
    crashed,       \* m_stateTracker.m_crashed
    shown          \* the last snapshot emitted by dockerReady

timers  == <<poll, deadline, kill>>
child   == <<proc, sig>>
flags   == <<running, aborting, abortState, refresh>>
tracker == <<lastGood, previous, crashed>>
vars    == <<starts, path, stopping, flags, backoff, timers, child, tracker, shown>>

Off == -1

AbortStates == {"TimedOut", "CommandFailed"}
Failures    == {"PermissionDenied", "Unreachable", "CommandFailed", "ParseFailed"}

Snapshot(state, listing, marks) ==
    [state |-> state, listing |-> listing, crashed |-> marks]

NoSnapshot == Snapshot("None", Nothing, {})

SnapshotStates ==
    {"None", "Ok", "Stale", "NotInstalled", "TimedOut"} \cup Failures

Snapshots == [state : SnapshotStates, listing : Listings, crashed : SUBSET Containers]

HaveLast == lastGood # NoSnapshot

-----------------------------------------------------------------------------
(* emitSnapshot and nextIntervalMs.                                        *)

\* Mutant: a failure shows the bare error even when data is known.
BareFailure(state) == Snapshot(state, Nothing, {})

\* What is emitted for a failed query: the last good listing, marked stale, or
\* the bare error before the first success.
FailureShown(state) ==
    IF lastGood' # NoSnapshot
    THEN [lastGood' EXCEPT !.state = "Stale"]
    ELSE Snapshot(state, Nothing, {})

\* Mutant: PermissionDenied forgets the retry delay reached so far.
BackoffAfterResetting(state, b) ==
    CASE state \in {"Ok", "PermissionDenied"} -> BackoffStartMs
      [] state = "NotInstalled" -> b
      [] OTHER -> IF 2 * b < BackoffCapMs THEN 2 * b ELSE BackoffCapMs

\* Mutant: the cap is forgotten.
BackoffAfterUncapped(state, b) ==
    CASE state = "Ok" -> BackoffStartMs
      [] state \in {"NotInstalled", "PermissionDenied"} -> b
      [] OTHER -> 2 * b

BackoffAfter(state, b) ==
    CASE state = "Ok" -> BackoffStartMs
      [] state \in {"NotInstalled", "PermissionDenied"} -> b
      [] OTHER -> IF 2 * b < BackoffCapMs THEN 2 * b ELSE BackoffCapMs

Interval(state, issues, b) ==
    CASE state = "Ok" -> IF issues THEN IssueMs ELSE HealthyMs
      [] state \in {"NotInstalled", "PermissionDenied"} -> AbsentMs
      [] OTHER -> b

-----------------------------------------------------------------------------
(* beginQuery and scheduleNext.                                            *)

\* Mutant: the deadline timer is not started with the query.
BeginQueryWithoutDeadline(p, d, b, s) ==
    /\ refresh' = FALSE
    /\ aborting' = FALSE
    /\ path'
    /\ running' = TRUE
    /\ proc' = "Starting"
    /\ sig' = "none"
    /\ deadline' = d
    /\ poll' = p
    /\ backoff' = b
    /\ shown' = s

\* beginQuery past its two early returns.  On entry the poll timer is p, the
\* deadline timer d, the retry delay b, and s the last snapshot emitted.
\* QProcess::start either forks or reports FailedToStart before it returns; in
\* the second case onErrorOccurred has already scheduled the next poll when the
\* deadline timer is started, and that timer stays armed without a query.
BeginQuery(p, d, b, s) ==
    /\ refresh' = FALSE
    /\ aborting' = FALSE
    /\ \/ /\ ~ path'
          /\ shown' = Snapshot("NotInstalled", Nothing, {})
          /\ poll' = Interval("NotInstalled", FALSE, b)
          /\ backoff' = BackoffAfter("NotInstalled", b)
          /\ running' = FALSE
          /\ proc' = "NotRunning"
          /\ deadline' = d
          /\ UNCHANGED sig
       \/ /\ path'
          /\ running' = TRUE
          /\ proc' = "Starting"
          /\ sig' = "none"
          /\ deadline' = TimeoutMs
          /\ poll' = p
          /\ backoff' = b
          /\ shown' = s
       \/ /\ path'
          /\ running' = FALSE
          /\ proc' = "NotRunning"
          /\ sig' = "none"
          /\ shown' = FailureShown("CommandFailed")
          /\ poll' = Interval("CommandFailed", FALSE, b)
          /\ backoff' = BackoffAfter("CommandFailed", b)
          /\ deadline' = TimeoutMs

\* Mutant: a finished query does not schedule the next one.
EndQueryUnscheduled(ms, b, s) ==
    /\ running' = FALSE
    /\ aborting' = FALSE
    /\ proc' = "NotRunning"
    /\ deadline' = Off
    /\ backoff' = b
    /\ shown' = s
    /\ UNCHANGED <<refresh, poll, sig>>

\* The end of a query: s was emitted, then scheduleNext(ms) is called with the
\* retry delay at b.  The deadline timer is stopped by both callers.
EndQuery(ms, b, s) ==
    IF refresh
    THEN BeginQuery(poll, Off, b, s)
    ELSE /\ running' = FALSE
         /\ aborting' = FALSE
         /\ proc' = "NotRunning"
         /\ poll' = ms
         /\ deadline' = Off
         /\ backoff' = b
         /\ shown' = s
         /\ UNCHANGED <<refresh, sig>>

\* A query that failed with `state`.
FailQuery(state) ==
    /\ UNCHANGED tracker
    /\ EndQuery(Interval(state, FALSE, backoff), BackoffAfter(state, backoff),
                FailureShown(state))

\* A query that returned `listing`.  The poll interval is chosen from the marks
\* the parsed listing carries, before the tracker sets them: none is crashed.
SucceedQuery(listing) ==
    /\ previous' = listing
    /\ crashed' = TrackCrashes(previous, crashed, listing)
    /\ lastGood' = Snapshot("Ok", listing, crashed')
    /\ EndQuery(Interval("Ok", HasIssues(listing, {}), backoff), BackoffStartMs, lastGood')

-----------------------------------------------------------------------------
(* The slots.                                                              *)

Init ==
    /\ starts = 0
    /\ path = FALSE
    /\ stopping = FALSE
    /\ running = FALSE
    /\ aborting = FALSE
    /\ abortState = "TimedOut"
    /\ refresh = FALSE
    /\ backoff = BackoffStartMs
    /\ poll = Off /\ deadline = Off /\ kill = Off
    /\ proc = "NotRunning"
    /\ sig = "none"
    /\ lastGood = NoSnapshot
    /\ previous = Nothing
    /\ crashed = {}
    /\ shown = NoSnapshot

\* start(): looks the executable up, resets the retry delay, asks.
Start ==
    /\ starts < MaxStarts
    /\ starts' = starts + 1
    /\ path' \in BOOLEAN
    /\ UNCHANGED <<stopping, abortState, kill, tracker>>
    /\ CASE stopping ->
              /\ backoff' = BackoffStartMs
              /\ UNCHANGED <<running, aborting, refresh, poll, deadline, child, shown>>
         [] ~ stopping /\ running ->
              /\ backoff' = BackoffStartMs
              /\ refresh' = TRUE
              /\ UNCHANGED <<running, aborting, poll, deadline, child, shown>>
         [] OTHER -> BeginQuery(poll, deadline, BackoffStartMs, shown)

OnPollTimeout ==
    /\ poll = 0
    /\ UNCHANGED <<starts, path, stopping, abortState, kill, tracker>>
    /\ IF running
       THEN /\ refresh' = TRUE
            /\ poll' = Off
            /\ UNCHANGED <<running, aborting, backoff, deadline, child, shown>>
       ELSE BeginQuery(Off, deadline, backoff, shown)

\* External: the exec of the child succeeded.
OnStarted ==
    /\ proc = "Starting"
    /\ proc' = "Running"
    /\ UNCHANGED <<starts, path, stopping, flags, backoff, timers, sig, tracker, shown>>

\* onErrorOccurred(FailedToStart), reported by the event loop.  It stops neither
\* the kill timer nor, once stop() was called, the emission.
OnStartFailure ==
    /\ proc = "Starting"
    /\ UNCHANGED <<starts, path, stopping, abortState, kill>>
    /\ IF stopping
       THEN /\ UNCHANGED <<tracker, refresh, poll, sig>>
            /\ proc' = "NotRunning"
            /\ running' = FALSE
            /\ aborting' = FALSE
            /\ deadline' = Off
            /\ shown' = FailureShown("CommandFailed")
            /\ backoff' = BackoffAfter("CommandFailed", backoff)
       ELSE FailQuery("CommandFailed")

\* Mutant: the kill timer is started without asking the child to leave.
AbortWithoutTerminate(state) ==
    /\ aborting' = TRUE
    /\ abortState' = state
    /\ UNCHANGED sig
    /\ kill' = KillGraceMs

\* terminate() and the kill timer, for the reason given.
Abort(state) ==
    /\ aborting' = TRUE
    /\ abortState' = state
    /\ sig' = IF sig = "kill" THEN "kill" ELSE "term"
    /\ kill' = KillGraceMs

\* onStdout / onStderr once the buffer holds more than kMaxOutputBytes: every
\* further chunk aborts again and restarts the kill timer.  Smaller output only
\* fills the buffer.
OnOverflow ==
    /\ proc = "Running"
    /\ Chatty \/ sig = "none"
    /\ Abort("CommandFailed")
    /\ UNCHANGED <<starts, path, stopping, running, refresh, backoff, poll, deadline,
                   proc, tracker, shown>>

\* Mutant: the deadline gives up waiting without ending the child.
OnDeadlineTimeoutNoKillTimer ==
    /\ deadline = 0
    /\ deadline' = Off
    /\ IF running
       THEN /\ aborting' = TRUE
            /\ abortState' = "TimedOut"
            /\ sig' = IF sig = "kill" THEN "kill" ELSE "term"
            /\ UNCHANGED kill
       ELSE UNCHANGED <<aborting, abortState, sig, kill>>
    /\ UNCHANGED <<starts, path, stopping, running, refresh, backoff, poll, proc,
                   tracker, shown>>

OnDeadlineTimeout ==
    /\ deadline = 0
    /\ deadline' = Off
    /\ IF running THEN Abort("TimedOut")
                  ELSE UNCHANGED <<aborting, abortState, sig, kill>>
    /\ UNCHANGED <<starts, path, stopping, running, refresh, backoff, poll, proc,
                   tracker, shown>>

OnKillTimeout ==
    /\ kill = 0
    /\ kill' = Off
    /\ sig' = IF running /\ proc # "NotRunning" THEN "kill" ELSE sig
    /\ UNCHANGED <<starts, path, stopping, flags, backoff, poll, deadline, proc,
                   tracker, shown>>

\* Mutant: the abort flag is not looked at when the child exits.
OnFinishedIgnoringAbort ==
    /\ proc = "Running"
    /\ kill' = Off
    /\ UNCHANGED <<starts, path, stopping, abortState>>
    /\ ~ stopping
    /\ \E listing \in Listings : SucceedQuery(listing)

\* Mutant: a child that exits after stop() is handled like any other.
OnFinishedAfterStop ==
    /\ proc = "Running"
    /\ kill' = Off
    /\ UNCHANGED <<starts, path, stopping, abortState>>
    /\ IF aborting
       THEN FailQuery(abortState)
       ELSE \E listing \in Listings : SucceedQuery(listing)

\* onFinished: the child exited, however it was asked to.
OnFinished ==
    /\ proc = "Running"
    /\ kill' = Off
    /\ UNCHANGED <<starts, path, stopping, abortState>>
    /\ \/ /\ stopping
          /\ proc' = "NotRunning"
          /\ running' = FALSE
          /\ aborting' = FALSE
          /\ deadline' = Off
          /\ UNCHANGED <<refresh, backoff, poll, sig, tracker, shown>>
       \/ /\ ~ stopping /\ aborting
          /\ FailQuery(abortState)
       \/ /\ ~ stopping /\ ~ aborting
          /\ \E state \in Failures : FailQuery(state)
       \/ /\ ~ stopping /\ ~ aborting
          /\ \E listing \in Listings : SucceedQuery(listing)

\* stop(): blocks the thread until the child is gone, or gives up after SIGKILL
\* and 200 ms.  While it waits, the child's exit, its start failure and its last
\* output are delivered to the slots above.
Stop ==
    /\ ~ stopping
    /\ stopping' = TRUE
    /\ poll' = Off /\ deadline' = Off
    /\ running' = FALSE /\ aborting' = FALSE
    /\ UNCHANGED <<starts, path, refresh, tracker>>
    /\ \/ /\ ~ running
          /\ kill' = Off
          /\ UNCHANGED <<child, abortState, backoff, shown>>
       \/ /\ running
          /\ kill' = Off
          /\ proc' = "NotRunning"
          /\ sig' \in {"term", "kill"}
          /\ abortState' \in {abortState, "CommandFailed"}
          /\ UNCHANGED <<backoff, shown>>
       \/ /\ running /\ proc = "Starting"
          /\ kill' = Off
          /\ proc' = "NotRunning"
          /\ sig' \in {"term", "kill"}
          /\ shown' = FailureShown("CommandFailed")
          /\ backoff' = BackoffAfter("CommandFailed", backoff)
          /\ UNCHANGED abortState
       \/ /\ running
          /\ sig' = "kill"
          /\ proc' \in {proc, "Running"}
          /\ \/ kill' = Off /\ UNCHANGED abortState
             \/ kill' = KillGraceMs /\ proc' = "Running" /\ abortState' = "CommandFailed"
          /\ UNCHANGED <<backoff, shown>>

\* One tick passes; nothing that is due is left waiting.
Tick ==
    LET Left(t) == IF t = Off THEN Off ELSE t - 1
    IN /\ \A t \in {poll, deadline, kill} : t # 0
       /\ \E t \in {poll, deadline, kill} : t # Off
       /\ poll' = Left(poll)
       /\ deadline' = Left(deadline)
       /\ kill' = Left(kill)
       /\ UNCHANGED <<starts, path, stopping, flags, backoff, child, tracker, shown>>

\* The thread has quit: nothing is left to happen.
Stopped ==
    /\ stopping /\ proc = "NotRunning"
    /\ UNCHANGED vars

Next ==
    \/ Start \/ Stop \/ Stopped \/ Tick
    \/ OnPollTimeout \/ OnDeadlineTimeout \/ OnKillTimeout
    \/ OnStarted \/ OnStartFailure \/ OnOverflow \/ OnFinished

Spec == Init /\ [][Next]_vars

\* The event loop serves due timers, time passes, the kernel reports the result
\* of an exec, and a child that was sent SIGKILL exits.  Nothing is assumed of a
\* child that was not, nor of who calls start() and stop().
Fairness ==
    /\ WF_vars(Tick)
    /\ WF_vars(OnPollTimeout) /\ WF_vars(OnDeadlineTimeout) /\ WF_vars(OnKillTimeout)
    /\ WF_vars(OnStarted \/ OnStartFailure)
    /\ WF_vars(OnFinished /\ sig = "kill")

FairSpec == Spec /\ Fairness

-----------------------------------------------------------------------------
(* Correctness.                                                            *)

Timer == {Off} \cup Nat

\* Every variable keeps its type.
TypeOK ==
    /\ starts \in 0 .. MaxStarts
    /\ path \in BOOLEAN /\ stopping \in BOOLEAN
    /\ running \in BOOLEAN /\ aborting \in BOOLEAN /\ refresh \in BOOLEAN
    /\ abortState \in AbortStates
    /\ backoff \in BackoffStartMs .. BackoffCapMs
    /\ poll \in Timer /\ deadline \in Timer /\ kill \in Timer
    /\ proc \in {"NotRunning", "Starting", "Running"}
    /\ sig \in {"none", "term", "kill"}
    /\ lastGood \in Snapshots /\ shown \in Snapshots
    /\ previous \in Listings
    /\ crashed \in SUBSET Containers

\* Once started and until stopped, the source always has something that will
\* call it back: a poll timer, or a query that has a living child and either a
\* timer that will end it or a SIGKILL already sent.  (What every combination of
\* beginQuery, onErrorOccurred, onFinished and the two kill paths must keep.)
NeverStranded ==
    starts > 0 /\ ~ stopping =>
        /\ running \/ poll # Off
        /\ running => /\ proc # "NotRunning"
                      /\ deadline # Off \/ kill # Off \/ sig = "kill"

\* A pending refresh belongs to a running query, so scheduleNext always consumes
\* it: no query is forgotten between two start() calls.
RefreshIsServed == refresh /\ ~ stopping => running

\* What the callbacks keep between them: running is true exactly while a child is
\* alive, only a running query can be aborting or owe a refresh, stop() leaves no
\* timer that polls, and nothing happens before start().  With NeverStranded it
\* is inductive.
Supervised ==
    /\ NeverStranded
    /\ RefreshIsServed
    /\ ~ stopping => (running <=> proc # "NotRunning")
    /\ aborting /\ ~ stopping => running
    /\ stopping => ~ running /\ poll = Off /\ deadline = Off
    /\ starts = 0 => ~ running /\ poll = Off

\* A query that ran into its deadline or the output limit never puts its output
\* on the screen, however its child exits (onFinished, wasAborting).
AbortedNeverFresh ==
    [][aborting /\ ~ aborting' /\ ~ stopping' => shown'.state # "Ok"]_vars

\* The kill timer of one query never kills the child of a later one: SIGKILL
\* from onKillTimeout only reaches a child that was sent SIGTERM.
KillOnlyAsked ==
    [][sig # "kill" /\ sig' = "kill" /\ ~ stopping' => sig = "term"]_vars

\* The retry delay only falls back when a listing was shown or start() was called.
OnlySuccessResetsBackoff ==
    [][backoff' < backoff => shown'.state = "Ok" \/ starts' # starts]_vars

\* After stop() no child is launched, no timer but the kill timer runs, no query
\* counts as running, and the only snapshot that can still be emitted is the
\* start failure of a child whose exec had not been reported by then.
StopIsFinal ==
    [][stopping => /\ poll' = Off /\ deadline' = Off /\ ~ running'
                   /\ proc' = "Starting" => proc = "Starting"
                   /\ shown' # shown => proc = "Starting"]_vars

\* Once a listing was shown the badge never falls back to a bare error (with
\* one start(); a second one that finds no executable shows NotInstalled).
DataIsNeverDropped ==
    [][HaveLast /\ shown' # shown => shown'.state \in {"Ok", "Stale"}]_vars

\* A mark is set when a container listed as running is next listed with an error
\* exit, and by nothing else: "never-observed-running exit is not a crash"
\* (test_docker.cpp:198), nor is a clean one or one after a removal.  It then
\* stays, through failed queries and further start() calls, until a listing shows
\* the container running or not at all.  The marks on the screen, fresh or
\* stale, are those the tracker has.
CrashMarksAreEarned ==
    /\ [][\A c \in Containers :
             /\ c \in crashed' \ crashed <=>
                    /\ c \notin crashed
                    /\ IsRunning(previous[c]) /\ previous'[c] = "failed"
             /\ c \in crashed \ crashed' <=>
                    /\ c \in crashed
                    /\ IsRunning(previous'[c]) \/ previous'[c] = "absent"]_vars
    /\ [](shown.state \in {"Ok", "Stale"} => shown.crashed = crashed)

\* A query always ends: a hung child is terminated, then killed.
QueryEnds == running ~> ~ running

\* The source never goes quiet: a started source polls again or is stopped.
KeepsPolling == starts > 0 ~> stopping \/ running \/ poll = 0

\* While the badge shows an issue, the next poll comes after issueMs, not after
\* the longer healthyMs: a "crashed container is an issue" (test_docker.cpp:181)
\* like an unhealthy or a restarting one.
IssuePolledSooner ==
    shown.state = "Ok" /\ HasIssues(shown.listing, shown.crashed) /\ ~ running
        => poll <= IssueMs

-----------------------------------------------------------------------------
(* The source implements the feed the window relies on (with one start()). *)

OnScreen ==
    [state  |-> shown.state,
     answer |-> IF shown.state \in {"Ok", "Stale"}
                THEN [shown EXCEPT !.state = "Ok"]
                ELSE NoSnapshot]

Phase ==
    IF stopping THEN "stopped"
    ELSE IF running THEN "asking"
    ELSE IF starts = 0 THEN "off" ELSE "idle"

Feed == INSTANCE StatusFeed WITH
            Answers     <- [state : {"Ok"}, listing : Listings, crashed : SUBSET Containers],
            Errors      <- AbortStates \cup Failures,
            NoAnswer    <- NoSnapshot,
            Unavailable <- "NotInstalled",
            phase       <- Phase,
            known       <- lastGood,
            screen      <- OnScreen,
            waiting     <- refresh

\* Every step of the source is a step of the feed, or none.
ImplementsFeed == Feed!Spec
=============================================================================
