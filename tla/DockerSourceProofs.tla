-------------------------- MODULE DockerSourceProofs --------------------------
(***************************************************************************)
(* Theorems about DockerSource for every set of containers, every polling  *)
(* configuration that validate() leaves and any number of start() calls.   *)
(***************************************************************************)
EXTENDS DockerSource, TLAPS

Backoffs == BackoffStartMs .. BackoffCapMs

-----------------------------------------------------------------------------
(* The helpers.                                                            *)

\* emitSnapshot: a failed query shows a snapshot, and never a fresh one.
LEMMA FailureShownType ==
    ASSUME NEW state \in SnapshotStates, lastGood' \in Snapshots
    PROVE  FailureShown(state) \in Snapshots
<1>1. Nothing \in Listings
  BY DEF Nothing, Listings, Kinds
<1>2. \A r \in Snapshots : [r EXCEPT !.state = "Stale"] \in Snapshots
  BY DEF Snapshots, SnapshotStates
<1>. QED
  BY <1>1, <1>2 DEF FailureShown, Snapshot, Snapshots

\* nextIntervalMs: the retry delay stays between its two bounds, and every
\* interval it returns arms a timer.
LEMMA BackoffType ==
    ASSUME NEW state, NEW b \in Backoffs, NEW issues \in BOOLEAN
    PROVE  /\ BackoffAfter(state, b) \in Backoffs
           /\ Interval(state, issues, b) \in Nat \ {0}
<1>1. BackoffAfter(state, b) \in Backoffs
  BY ConfigAssumption DEF BackoffAfter, Backoffs
<1>2. Interval(state, issues, b) \in Nat \ {0}
  BY ConfigAssumption DEF Interval, Backoffs
<1>. QED  BY <1>1, <1>2

\* The variables that the end of a query and the start of the next one assign.
QueryTyped ==
    /\ running \in BOOLEAN /\ aborting \in BOOLEAN /\ refresh \in BOOLEAN
    /\ backoff \in Backoffs
    /\ poll \in Timer /\ deadline \in Timer
    /\ proc \in {"NotRunning", "Starting", "Running"}
    /\ sig \in {"none", "term", "kill"}
    /\ shown \in Snapshots

\* What beginQuery leaves behind: a query with a child and an armed deadline, or
\* no query and an armed poll timer.
LEMMA BeginQueryEffect ==
    ASSUME NEW p \in Timer, NEW d \in Timer, NEW b \in Backoffs, NEW s \in Snapshots,
           lastGood' \in Snapshots, sig \in {"none", "term", "kill"},
           BeginQuery(p, d, b, s)
    PROVE  /\ QueryTyped'
           /\ refresh' = FALSE /\ aborting' = FALSE
           /\ running' => proc' = "Starting" /\ deadline' # Off /\ sig' = "none"
           /\ ~ running' => proc' = "NotRunning" /\ poll' # Off
           /\ sig' \in {sig, "none"}
           /\ backoff' >= b
           /\ shown' = s \/ shown'.state # "Ok"
<1>1. /\ Snapshot("NotInstalled", Nothing, {}) \in Snapshots
      /\ Snapshot("NotInstalled", Nothing, {}).state # "Ok"
  BY DEF Snapshot, Snapshots, SnapshotStates, Nothing, Listings, Kinds
<1>2. /\ FailureShown("CommandFailed") \in Snapshots
      /\ FailureShown("CommandFailed").state # "Ok"
  <2>1. FailureShown("CommandFailed") \in Snapshots
    BY FailureShownType DEF SnapshotStates, Failures
  <2>2. FailureShown("CommandFailed").state \in {"Stale", "CommandFailed"}
    BY DEF FailureShown, Snapshot, Snapshots
  <2>. QED  BY <2>1, <2>2
<1>3. /\ BackoffAfter("NotInstalled", b) \in Backoffs
      /\ BackoffAfter("CommandFailed", b) \in Backoffs
      /\ BackoffAfter("NotInstalled", b) >= b
      /\ BackoffAfter("CommandFailed", b) >= b
      /\ Interval("NotInstalled", FALSE, b) \in Timer \ {Off}
      /\ Interval("CommandFailed", FALSE, b) \in Timer \ {Off}
  BY ConfigAssumption DEF BackoffAfter, Interval, Backoffs, Timer, Off
<1>4. TimeoutMs \in Timer /\ TimeoutMs # Off /\ b >= b
  BY ConfigAssumption DEF Timer, Off, Backoffs
<1>5. CASE ~ path'
  <2>1. /\ refresh' = FALSE /\ aborting' = FALSE /\ running' = FALSE
        /\ shown' = Snapshot("NotInstalled", Nothing, {})
        /\ poll' = Interval("NotInstalled", FALSE, b)
        /\ backoff' = BackoffAfter("NotInstalled", b)
        /\ proc' = "NotRunning" /\ deadline' = d /\ sig' = sig
    BY <1>5 DEF BeginQuery
  <2>2. QueryTyped'
    BY <2>1, <1>1, <1>3 DEF QueryTyped
  <2>3. poll' # Off
    BY <2>1, <1>3
  <2>4. backoff' >= b
    BY <2>1, <1>3
  <2>5. shown'.state # "Ok"
    BY <2>1, <1>1
  <2>. QED  BY <2>1, <2>2, <2>3, <2>4, <2>5
<1>6. CASE running' = TRUE
  BY <1>1, <1>3, <1>4, <1>6 DEF BeginQuery, QueryTyped, Timer, Off
<1>7. CASE path' /\ running' = FALSE
  <2>1. /\ refresh' = FALSE /\ aborting' = FALSE
        /\ shown' = FailureShown("CommandFailed")
        /\ poll' = Interval("CommandFailed", FALSE, b)
        /\ backoff' = BackoffAfter("CommandFailed", b)
        /\ proc' = "NotRunning" /\ deadline' = TimeoutMs /\ sig' = "none"
    BY <1>7 DEF BeginQuery
  <2>2. QueryTyped'
    BY <2>1, <1>2, <1>3, <1>4, <1>7 DEF QueryTyped
  <2>3. poll' # Off
    BY <2>1, <1>3
  <2>4. backoff' >= b
    BY <2>1, <1>3
  <2>5. shown'.state # "Ok"
    BY <2>1, <1>2
  <2>. QED  BY <1>7, <2>1, <2>2, <2>3, <2>4, <2>5
<1>. QED
  BY <1>5, <1>6, <1>7 DEF BeginQuery

\* scheduleNext, after a query: it leaves a running query or an armed poll timer.
LEMMA EndQueryEffect ==
    ASSUME NEW ms \in Timer \ {Off}, NEW b \in Backoffs, NEW s \in Snapshots,
           QueryTyped, lastGood' \in Snapshots, EndQuery(ms, b, s)
    PROVE  /\ QueryTyped'
           /\ refresh' = FALSE /\ aborting' = FALSE
           /\ running' => proc' = "Starting" /\ deadline' # Off /\ sig' = "none"
           /\ ~ running' => proc' = "NotRunning" /\ poll' # Off
           /\ backoff' >= b
           /\ shown' = s \/ shown'.state # "Ok"
<1>1. CASE refresh = TRUE
  <2>1. BeginQuery(poll, Off, b, s)
    BY <1>1 DEF EndQuery
  <2>2. poll \in Timer /\ Off \in Timer /\ sig \in {"none", "term", "kill"}
    BY DEF QueryTyped, Timer
  <2>. QED
    BY <2>1, <2>2, BeginQueryEffect
<1>2. CASE refresh = FALSE
  <2>1. /\ running' = FALSE /\ aborting' = FALSE /\ proc' = "NotRunning"
        /\ poll' = ms /\ deadline' = Off /\ backoff' = b /\ shown' = s
        /\ refresh' = FALSE /\ sig' = sig
    BY <1>2 DEF EndQuery
  <2>2. Off \in Timer /\ b >= b
    BY ConfigAssumption DEF Timer, Backoffs
  <2>3. QueryTyped'
    BY <2>1, <2>2 DEF QueryTyped
  <2>. QED
    BY <2>1, <2>2, <2>3
<1>. QED
  BY <1>1, <1>2 DEF QueryTyped

\* A failed query leaves the tracker and shows no fresh listing.
LEMMA FailQueryEffect ==
    ASSUME NEW state \in AbortStates \cup Failures,
           QueryTyped, lastGood \in Snapshots, FailQuery(state)
    PROVE  /\ QueryTyped' /\ UNCHANGED tracker
           /\ refresh' = FALSE /\ aborting' = FALSE
           /\ running' => proc' = "Starting" /\ deadline' # Off /\ sig' = "none"
           /\ ~ running' => proc' = "NotRunning" /\ poll' # Off
           /\ backoff' >= backoff
           /\ shown'.state # "Ok"
<1>1. UNCHANGED tracker /\ lastGood' \in Snapshots
  BY DEF FailQuery, tracker
<1>2. state \in SnapshotStates /\ state # "Ok"
  BY DEF AbortStates, Failures, SnapshotStates
<1>3. FailureShown(state) \in Snapshots
  BY <1>1, <1>2, FailureShownType
<1>4. FailureShown(state).state # "Ok"
  <2>1. FailureShown(state).state \in {"Stale", state}
    BY <1>1 DEF FailureShown, Snapshot, Snapshots
  <2>. QED  BY <2>1, <1>2
<1>5. /\ BackoffAfter(state, backoff) \in Backoffs
      /\ BackoffAfter(state, backoff) >= backoff
      /\ Interval(state, FALSE, backoff) \in Timer \ {Off}
  BY <1>2, ConfigAssumption DEF QueryTyped, BackoffAfter, Interval, Backoffs, Timer, Off
<1>6. EndQuery(Interval(state, FALSE, backoff), BackoffAfter(state, backoff),
               FailureShown(state))
  BY DEF FailQuery
<1>7. /\ QueryTyped'
      /\ refresh' = FALSE /\ aborting' = FALSE
      /\ running' => proc' = "Starting" /\ deadline' # Off /\ sig' = "none"
      /\ ~ running' => proc' = "NotRunning" /\ poll' # Off
      /\ backoff' >= BackoffAfter(state, backoff)
      /\ shown' = FailureShown(state) \/ shown'.state # "Ok"
  BY <1>1, <1>3, <1>5, <1>6, EndQueryEffect
<1>8. backoff' >= backoff
  BY <1>5, <1>7 DEF QueryTyped, Backoffs
<1>9. shown'.state # "Ok"
  BY <1>4, <1>7
<1>. QED
  BY <1>1, <1>7, <1>8, <1>9

\* A listing keeps the tracker's types and leaves a running query or a timer.
LEMMA SucceedQueryEffect ==
    ASSUME NEW listing \in Listings,
           QueryTyped, lastGood \in Snapshots, crashed \in SUBSET Containers,
           SucceedQuery(listing)
    PROVE  /\ QueryTyped'
           /\ lastGood' \in Snapshots
           /\ previous' = listing
           /\ crashed' \in SUBSET Containers
           /\ refresh' = FALSE /\ aborting' = FALSE
           /\ running' => proc' = "Starting" /\ deadline' # Off /\ sig' = "none"
           /\ ~ running' => proc' = "NotRunning" /\ poll' # Off
<1>1. previous' = listing /\ crashed' \in SUBSET Containers
  BY DEF SucceedQuery, TrackCrashes
<1>2. lastGood' \in Snapshots
  BY <1>1 DEF SucceedQuery, Snapshot, Snapshots, SnapshotStates
<1>3. BackoffStartMs \in Backoffs
  BY ConfigAssumption DEF Backoffs
<1>4. Interval("Ok", HasIssues(listing, {}), backoff) \in Timer \ {Off}
  BY ConfigAssumption DEF Interval, Timer, Off
<1>5. EndQuery(Interval("Ok", HasIssues(listing, {}), backoff), BackoffStartMs, lastGood')
  BY DEF SucceedQuery
<1>. QED
  BY <1>1, <1>2, <1>3, <1>4, <1>5, EndQueryEffect

-----------------------------------------------------------------------------
(* Types.                                                                  *)

LEMMA TypeInit == Init => TypeOK
<1>1. Nothing \in Listings /\ NoSnapshot \in Snapshots
  BY DEF Nothing, Listings, Kinds, NoSnapshot, Snapshot, Snapshots, SnapshotStates
<1>2. /\ 0 \in 0 .. MaxStarts /\ BackoffStartMs \in BackoffStartMs .. BackoffCapMs
      /\ Off \in Timer /\ "TimedOut" \in AbortStates
  BY ConfigAssumption DEF Timer, AbortStates
<1>. QED
  BY <1>1, <1>2 DEF Init, TypeOK

\* The slots that begin or end a query.
LEMMA TypeQuery ==
    ASSUME TypeOK, Start \/ OnPollTimeout \/ OnStartFailure \/ OnFinished
    PROVE  TypeOK'
<1>1. QueryTyped
  BY DEF TypeOK, QueryTyped, Backoffs
<1>2. SUFFICES /\ QueryTyped'
               /\ starts' \in 0 .. MaxStarts /\ path' \in BOOLEAN /\ stopping' \in BOOLEAN
               /\ abortState' \in AbortStates /\ kill' \in Timer
               /\ lastGood' \in Snapshots /\ previous' \in Listings
               /\ crashed' \in SUBSET Containers
  BY DEF TypeOK, QueryTyped, Backoffs
<1>3. /\ BackoffStartMs \in Backoffs /\ Off \in Timer
      /\ poll \in Timer /\ deadline \in Timer /\ backoff \in Backoffs
      /\ shown \in Snapshots /\ lastGood \in Snapshots
      /\ sig \in {"none", "term", "kill"}
  BY ConfigAssumption DEF TypeOK, Backoffs, Timer
<1>4. CASE Start
  <2>1. /\ starts' \in 0 .. MaxStarts /\ path' \in BOOLEAN /\ stopping' \in BOOLEAN
        /\ abortState' \in AbortStates /\ kill' \in Timer
        /\ lastGood' \in Snapshots /\ previous' \in Listings
        /\ crashed' \in SUBSET Containers
    BY <1>4, ConfigAssumption DEF Start, TypeOK, tracker
  <2>2. CASE stopping \/ running
    BY <1>1, <1>3, <1>4, <2>1, <2>2 DEF Start, QueryTyped, child
  <2>3. CASE ~ stopping /\ ~ running
    <3>1. BeginQuery(poll, deadline, BackoffStartMs, shown)
      BY <1>4, <2>3 DEF Start
    <3>. QED
      BY <1>3, <2>1, <3>1, BeginQueryEffect
  <2>. QED  BY <2>1, <2>2, <2>3
<1>5. CASE OnPollTimeout
  <2>1. /\ starts' \in 0 .. MaxStarts /\ path' \in BOOLEAN /\ stopping' \in BOOLEAN
        /\ abortState' \in AbortStates /\ kill' \in Timer
        /\ lastGood' \in Snapshots /\ previous' \in Listings
        /\ crashed' \in SUBSET Containers
    BY <1>5 DEF OnPollTimeout, TypeOK, tracker
  <2>2. CASE running
    BY <1>1, <1>3, <1>5, <2>1, <2>2 DEF OnPollTimeout, QueryTyped, child
  <2>3. CASE ~ running
    <3>1. BeginQuery(Off, deadline, backoff, shown)
      BY <1>5, <2>3 DEF OnPollTimeout
    <3>. QED
      BY <1>3, <2>1, <3>1, BeginQueryEffect
  <2>. QED  BY <2>1, <2>2, <2>3
<1>6. CASE OnStartFailure
  <2>1. UNCHANGED <<starts, path, stopping, abortState, kill>>
    BY <1>6 DEF OnStartFailure
  <2>2. CASE stopping
    <3>1. lastGood' \in Snapshots /\ "CommandFailed" \in SnapshotStates
      BY <1>3, <1>6, <2>2 DEF OnStartFailure, tracker, SnapshotStates, Failures
    <3>2. FailureShown("CommandFailed") \in Snapshots
      BY <3>1, FailureShownType
    <3>3. BackoffAfter("CommandFailed", backoff) \in Backoffs
      BY <1>3, BackoffType
    <3>. QED
      BY <1>1, <1>3, <1>6, <2>1, <2>2, <3>1, <3>2, <3>3
      DEF OnStartFailure, QueryTyped, TypeOK, tracker
  <2>3. CASE ~ stopping
    <3>1. FailQuery("CommandFailed") /\ "CommandFailed" \in AbortStates \cup Failures
      BY <1>6, <2>3 DEF OnStartFailure, Failures
    <3>2. QueryTyped' /\ UNCHANGED tracker
      BY <1>1, <1>3, <3>1, FailQueryEffect
    <3>. QED
      BY <2>1, <3>2 DEF TypeOK, tracker
  <2>. QED  BY <2>2, <2>3
<1>7. CASE OnFinished
  <2>1. UNCHANGED <<starts, path, stopping, abortState>> /\ kill' = Off
    BY <1>7 DEF OnFinished
  <2>2. CASE stopping
    BY <1>1, <1>3, <1>7, <2>1, <2>2 DEF OnFinished, QueryTyped, TypeOK, tracker
  <2>3. ASSUME NEW state \in AbortStates \cup Failures, FailQuery(state)
        PROVE  QueryTyped' /\ UNCHANGED tracker
    BY <1>1, <1>3, <2>3, FailQueryEffect
  <2>4. ASSUME NEW listing \in Listings, SucceedQuery(listing)
        PROVE  /\ QueryTyped' /\ lastGood' \in Snapshots
               /\ previous' \in Listings /\ crashed' \in SUBSET Containers
    <3>1. crashed \in SUBSET Containers
      BY DEF TypeOK
    <3>. QED
      BY <1>1, <1>3, <2>4, <3>1, SucceedQueryEffect
  <2>5. CASE ~ stopping
    <3>1. \/ \E state \in AbortStates \cup Failures : FailQuery(state)
          \/ \E listing \in Listings : SucceedQuery(listing)
      BY <1>7, <2>5 DEF OnFinished, TypeOK
    <3>2. CASE \E state \in AbortStates \cup Failures : FailQuery(state)
      BY <1>3, <2>1, <2>3, <3>2 DEF TypeOK, tracker
    <3>3. CASE \E listing \in Listings : SucceedQuery(listing)
      BY <1>3, <2>1, <2>4, <3>3 DEF TypeOK
    <3>. QED  BY <3>1, <3>2, <3>3
  <2>. QED  BY <2>2, <2>5
<1>. QED  BY <1>4, <1>5, <1>6, <1>7

\* The slots that only touch timers, signals and the flags of an abort.
LEMMA TypeTimers ==
    ASSUME TypeOK,
           \/ OnStarted \/ OnOverflow \/ OnDeadlineTimeout \/ OnKillTimeout
           \/ Tick \/ Stopped
    PROVE  TypeOK'
<1>1. /\ KillGraceMs \in Timer /\ Off \in Timer
      /\ {"TimedOut", "CommandFailed"} \subseteq AbortStates
  BY ConfigAssumption DEF Timer, AbortStates
<1>2. CASE OnStarted
  BY <1>2 DEF OnStarted, TypeOK, flags, timers, tracker
<1>3. CASE OnOverflow
  BY <1>1, <1>3 DEF OnOverflow, Abort, TypeOK, tracker
<1>4. CASE OnDeadlineTimeout
  BY <1>1, <1>4 DEF OnDeadlineTimeout, Abort, TypeOK, tracker
<1>5. CASE OnKillTimeout
  BY <1>1, <1>5 DEF OnKillTimeout, TypeOK, flags, tracker
<1>6. CASE Tick
  <2>1. poll' \in Timer /\ deadline' \in Timer /\ kill' \in Timer
    BY <1>6 DEF Tick, TypeOK, Timer, Off
  <2>. QED
    BY <1>6, <2>1 DEF Tick, TypeOK, flags, child, tracker
<1>7. CASE Stopped
  BY <1>7 DEF Stopped, vars, flags, timers, child, tracker, TypeOK
<1>. QED  BY <1>2, <1>3, <1>4, <1>5, <1>6, <1>7

LEMMA TypeStop ==
    ASSUME TypeOK, Stop
    PROVE  TypeOK'
<1>1. UNCHANGED tracker /\ lastGood' \in Snapshots
  BY DEF Stop, TypeOK, tracker
<1>2. FailureShown("CommandFailed") \in Snapshots
  BY <1>1, FailureShownType DEF SnapshotStates, Failures
<1>3. BackoffAfter("CommandFailed", backoff) \in Backoffs
  BY BackoffType DEF TypeOK, Backoffs
<1>4. KillGraceMs \in Timer /\ Off \in Timer /\ "CommandFailed" \in AbortStates
  BY ConfigAssumption DEF Timer, AbortStates
<1>. QED
  BY <1>1, <1>2, <1>3, <1>4 DEF Stop, TypeOK, tracker, child, Backoffs

\* Every step keeps the types.
LEMMA TypeStep == TypeOK /\ [Next]_vars => TypeOK'
<1>1. ASSUME TypeOK, UNCHANGED vars  PROVE TypeOK'
  BY <1>1 DEF vars, flags, timers, child, tracker, TypeOK
<1>. QED
  BY <1>1, TypeQuery, TypeTimers, TypeStop DEF Next

\* Every variable keeps its type; in particular the retry delay stays within the
\* bounds of the configuration however queries fail (nextIntervalMs).
THEOREM TypeCorrect == Spec => []TypeOK
BY TypeInit, TypeStep, PTL DEF Spec

-----------------------------------------------------------------------------
(* Supervision.  NeverStranded alone is not inductive: that a finished query *)
(* leaves a timer depends on running following the child, and that the kill  *)
(* path reaches the child on the same fact.                                 *)

LEMMA SupervisedInit == Init => Supervised
BY DEF Init, Supervised, NeverStranded, RefreshIsServed

\* What the end or the begin of a query, outside stop(), makes of the flags.
LEMMA SupervisedAfterQuery ==
    ASSUME refresh' = FALSE, aborting' = FALSE, stopping' = FALSE, starts' # 0,
           running' \in BOOLEAN,
           running' => proc' = "Starting" /\ deadline' # Off,
           ~ running' => proc' = "NotRunning" /\ poll' # Off
    PROVE  Supervised'
BY DEF Supervised, NeverStranded, RefreshIsServed

LEMMA SupervisedQuery ==
    ASSUME TypeOK, Supervised, Start \/ OnPollTimeout \/ OnStartFailure \/ OnFinished
    PROVE  Supervised'
<1>1. QueryTyped
  BY DEF TypeOK, QueryTyped, Backoffs
<1>2. /\ BackoffStartMs \in Backoffs /\ Off \in Timer
      /\ poll \in Timer /\ deadline \in Timer /\ backoff \in Backoffs
      /\ shown \in Snapshots /\ lastGood \in Snapshots
      /\ crashed \in SUBSET Containers
      /\ sig \in {"none", "term", "kill"}
      /\ stopping \in BOOLEAN /\ running \in BOOLEAN /\ refresh \in BOOLEAN
  BY ConfigAssumption DEF TypeOK, Backoffs, Timer
<1>3. /\ TypeOK'
      /\ running' \in BOOLEAN
  BY TypeQuery DEF TypeOK
<1>4. CASE Start
  <2>1. UNCHANGED stopping /\ starts' # 0 /\ lastGood' \in Snapshots
    BY <1>2, <1>4, ConfigAssumption DEF Start, TypeOK, tracker
  <2>2. CASE stopping = TRUE
    <3>1. UNCHANGED <<running, refresh, aborting, poll, deadline>>
      BY <1>4, <2>2 DEF Start
    <3>. QED
      BY <2>1, <2>2, <3>1 DEF Supervised, NeverStranded, RefreshIsServed
  <2>3. CASE stopping = FALSE /\ running = TRUE
    <3>1. UNCHANGED <<running, aborting, poll, deadline, kill, proc, sig>>
      BY <1>4, <2>3 DEF Start, child
    <3>2. starts # 0
      BY <2>3 DEF Supervised
    <3>. QED
      BY <1>2, <2>1, <2>3, <3>1, <3>2, ConfigAssumption
      DEF Supervised, NeverStranded, RefreshIsServed, TypeOK
  <2>4. CASE stopping = FALSE /\ running = FALSE
    <3>1. BeginQuery(poll, deadline, BackoffStartMs, shown)
      BY <1>4, <2>4 DEF Start
    <3>2. /\ refresh' = FALSE /\ aborting' = FALSE
          /\ running' => proc' = "Starting" /\ deadline' # Off
          /\ ~ running' => proc' = "NotRunning" /\ poll' # Off
      BY <1>2, <2>1, <3>1, BeginQueryEffect
    <3>. QED
      BY <1>3, <2>1, <2>4, <3>2, SupervisedAfterQuery
  <2>. QED  BY <1>2, <2>2, <2>3, <2>4
<1>5. CASE OnPollTimeout
  <2>1. /\ poll = 0 /\ stopping = FALSE /\ starts # 0
        /\ UNCHANGED <<starts, stopping>> /\ lastGood' \in Snapshots
    BY <1>2, <1>5 DEF OnPollTimeout, Supervised, Off, tracker
  <2>2. CASE running = TRUE
    <3>1. UNCHANGED <<running, aborting, deadline, kill, proc, sig>>
      BY <1>5, <2>2 DEF OnPollTimeout, child
    <3>. QED
      BY <2>1, <2>2, <3>1, ConfigAssumption
      DEF Supervised, NeverStranded, RefreshIsServed, TypeOK
  <2>3. CASE running = FALSE
    <3>1. BeginQuery(Off, deadline, backoff, shown)
      BY <1>5, <2>3 DEF OnPollTimeout
    <3>2. /\ refresh' = FALSE /\ aborting' = FALSE
          /\ running' => proc' = "Starting" /\ deadline' # Off
          /\ ~ running' => proc' = "NotRunning" /\ poll' # Off
      BY <1>2, <2>1, <3>1, BeginQueryEffect
    <3>. QED
      BY <1>3, <2>1, <3>2, SupervisedAfterQuery
  <2>. QED  BY <1>2, <2>2, <2>3
<1>6. CASE OnStartFailure \/ OnFinished
  <2>1. UNCHANGED <<starts, stopping>> /\ proc # "NotRunning"
    BY <1>6 DEF OnStartFailure, OnFinished
  <2>2. CASE stopping = TRUE
    <3>1. running' = FALSE /\ deadline' = Off /\ UNCHANGED poll
      BY <1>6, <2>2 DEF OnStartFailure, OnFinished
    <3>. QED
      BY <2>1, <2>2, <3>1 DEF Supervised, NeverStranded, RefreshIsServed
  <2>3. CASE stopping = FALSE
    <3>1. starts # 0
      BY <2>1, <2>3 DEF Supervised
    <3>2. \/ \E state \in AbortStates \cup Failures : FailQuery(state)
          \/ \E listing \in Listings : SucceedQuery(listing)
      BY <1>6, <2>3 DEF OnStartFailure, OnFinished, TypeOK, Failures
    <3>3. ASSUME NEW state \in AbortStates \cup Failures, FailQuery(state)
          PROVE  /\ refresh' = FALSE /\ aborting' = FALSE
                 /\ running' => proc' = "Starting" /\ deadline' # Off
                 /\ ~ running' => proc' = "NotRunning" /\ poll' # Off
      BY <1>1, <1>2, <3>3, FailQueryEffect
    <3>4. ASSUME NEW listing \in Listings, SucceedQuery(listing)
          PROVE  /\ refresh' = FALSE /\ aborting' = FALSE
                 /\ running' => proc' = "Starting" /\ deadline' # Off
                 /\ ~ running' => proc' = "NotRunning" /\ poll' # Off
      BY <1>1, <1>2, <3>4, SucceedQueryEffect
    <3>. QED
      BY <1>3, <2>1, <2>3, <3>1, <3>2, <3>3, <3>4, SupervisedAfterQuery
  <2>. QED  BY <1>2, <2>2, <2>3
<1>. QED  BY <1>4, <1>5, <1>6

LEMMA SupervisedTimers ==
    ASSUME TypeOK, Supervised,
           \/ OnStarted \/ OnOverflow \/ OnDeadlineTimeout \/ OnKillTimeout
           \/ Tick \/ Stopped
    PROVE  Supervised'
<1>1. KillGraceMs # Off
  BY ConfigAssumption DEF Off
<1>2. CASE OnStarted
  BY <1>2 DEF OnStarted, flags, timers, Supervised, NeverStranded, RefreshIsServed
<1>3. CASE OnOverflow
  BY <1>1, <1>3 DEF OnOverflow, Abort, Supervised, NeverStranded, RefreshIsServed, TypeOK
<1>4. CASE OnDeadlineTimeout
  <2>1. UNCHANGED <<starts, stopping, running, refresh, poll, proc>> /\ deadline' = Off
    BY <1>4 DEF OnDeadlineTimeout
  <2>2. CASE running = TRUE
    BY <1>1, <1>4, <2>1, <2>2
    DEF OnDeadlineTimeout, Abort, Supervised, NeverStranded, RefreshIsServed
  <2>3. CASE running = FALSE
    BY <1>4, <2>1, <2>3
    DEF OnDeadlineTimeout, Supervised, NeverStranded, RefreshIsServed
  <2>. QED  BY <2>2, <2>3 DEF TypeOK
<1>5. CASE OnKillTimeout
  BY <1>5 DEF OnKillTimeout, flags, Supervised, NeverStranded, RefreshIsServed
<1>6. CASE Tick
  <2>1. /\ poll' = Off <=> poll = Off
        /\ deadline' = Off <=> deadline = Off
        /\ kill' = Off <=> kill = Off
    BY <1>6 DEF Tick, TypeOK, Timer, Off
  <2>. QED
    BY <1>6, <2>1
    DEF Tick, flags, child, Supervised, NeverStranded, RefreshIsServed
<1>7. CASE Stopped
  BY <1>7 DEF Stopped, vars, flags, timers, child, Supervised, NeverStranded, RefreshIsServed
<1>. QED  BY <1>2, <1>3, <1>4, <1>5, <1>6, <1>7

LEMMA SupervisedStop ==
    ASSUME Stop
    PROVE  Supervised'
BY DEF Stop, Supervised, NeverStranded, RefreshIsServed

\* Every step keeps the flags, the timers and the child together.
LEMMA SupervisedStep == TypeOK /\ Supervised /\ [Next]_vars => Supervised'
<1>1. ASSUME Supervised, UNCHANGED vars  PROVE Supervised'
  BY <1>1 DEF vars, flags, timers, child, Supervised, NeverStranded, RefreshIsServed
<1>. QED
  BY <1>1, SupervisedQuery, SupervisedTimers, SupervisedStop DEF Next

\* Supervised holds for any number of start() calls, in any order with the
\* child, the timers and stop().
THEOREM AlwaysSupervised == Spec => []Supervised
<1>1. TypeOK /\ Supervised /\ [Next]_vars => (TypeOK /\ Supervised)'
  BY TypeStep, SupervisedStep
<1>. QED
  BY TypeInit, SupervisedInit, <1>1, PTL DEF Spec

\* A started source that was not stopped always has a timer or a child that will
\* call it back, and a running query always has a way to end.
THEOREM NeverStrandedAlways == Spec => []NeverStranded
<1>1. Supervised => NeverStranded
  BY DEF Supervised
<1>. QED
  BY AlwaysSupervised, <1>1, PTL

\* A refresh asked for during a query is never left without one.
THEOREM RefreshAlwaysServed == Spec => []RefreshIsServed
<1>1. Supervised => RefreshIsServed
  BY DEF Supervised
<1>. QED
  BY AlwaysSupervised, <1>1, PTL

-----------------------------------------------------------------------------
(* What no step may do.                                                    *)

\* What any way out of a query shows, whatever became of its output.
LEMMA FailureNeverFresh ==
    ASSUME TypeOK, UNCHANGED tracker
    PROVE  FailureShown("CommandFailed").state # "Ok"
<1>1. lastGood' \in Snapshots
  BY DEF TypeOK, tracker
<1>2. FailureShown("CommandFailed").state \in {"Stale", "CommandFailed"}
  BY <1>1 DEF FailureShown, Snapshot, Snapshots
<1>. QED  BY <1>2

\* An aborted query ends in a failure on the screen: wasAborting is read before
\* the flag is cleared, and no other slot clears it (onFinished).
THEOREM AbortedIsNeverFresh == Spec => AbortedNeverFresh
<1> DEFINE Step == aborting /\ ~ aborting' /\ ~ stopping' => shown'.state # "Ok"
<1>1. TypeOK /\ Supervised /\ [Next]_vars => [Step]_vars
  <2> SUFFICES ASSUME TypeOK, Supervised, Next, aborting, ~ aborting', ~ stopping'
               PROVE  shown'.state # "Ok"
    OBVIOUS
  <2>1. QueryTyped /\ lastGood \in Snapshots
    BY DEF TypeOK, QueryTyped, Backoffs
  <2>2. stopping \/ running
    BY DEF Supervised
  <2>3. CASE OnStartFailure
    <3>1. FailQuery("CommandFailed") /\ "CommandFailed" \in AbortStates \cup Failures
      BY <2>3 DEF OnStartFailure, Failures
    <3>. QED  BY <2>1, <3>1, FailQueryEffect
  <2>4. CASE OnFinished
    <3>1. FailQuery(abortState) /\ abortState \in AbortStates \cup Failures
      BY <2>4 DEF OnFinished, TypeOK
    <3>. QED  BY <2>1, <3>1, FailQueryEffect
  <2>5. CASE Start
    BY <2>2, <2>5 DEF Start
  <2>6. CASE OnPollTimeout
    BY <2>2, <2>6 DEF OnPollTimeout, Supervised, Off
  <2>7. CASE OnOverflow \/ OnDeadlineTimeout
    BY <2>7 DEF OnOverflow, OnDeadlineTimeout, Abort
  <2>8. CASE OnStarted \/ OnKillTimeout \/ Tick \/ Stop \/ Stopped
    BY <2>8 DEF OnStarted, OnKillTimeout, Tick, Stop, Stopped, vars, flags
  <2>. QED
    BY <2>3, <2>4, <2>5, <2>6, <2>7, <2>8 DEF Next
<1>2. QED
  BY <1>1, TypeCorrect, AlwaysSupervised, PTL DEF Spec, AbortedNeverFresh

\* Nothing that is called after stop() starts a child or a timer that polls, and
\* only an exec whose result was still open can send one more snapshot.
THEOREM StopIsFinalAlways == Spec => StopIsFinal
<1> DEFINE Step == stopping => /\ poll' = Off /\ deadline' = Off /\ ~ running'
                               /\ proc' = "Starting" => proc = "Starting"
                               /\ shown' # shown => proc = "Starting"
<1>1. TypeOK /\ Supervised /\ [Next]_vars => [Step]_vars
  <2> SUFFICES ASSUME TypeOK, Supervised, Next, stopping  PROVE Step
    OBVIOUS
  <2>1. ~ running /\ poll = Off /\ deadline = Off /\ running \in BOOLEAN
    BY DEF Supervised, TypeOK
  <2>2. CASE Start
    BY <2>1, <2>2 DEF Start, child
  <2>3. CASE OnPollTimeout \/ OnDeadlineTimeout
    BY <2>1, <2>3 DEF OnPollTimeout, OnDeadlineTimeout, Off
  <2>4. CASE OnKillTimeout
    BY <2>1, <2>4 DEF OnKillTimeout, flags
  <2>5. CASE OnStartFailure \/ OnFinished
    BY <2>1, <2>5 DEF OnStartFailure, OnFinished
  <2>6. CASE OnStarted
    BY <2>1, <2>6 DEF OnStarted, flags, timers
  <2>7. CASE OnOverflow
    BY <2>1, <2>7 DEF OnOverflow
  <2>8. CASE Tick
    BY <2>1, <2>8 DEF Tick, flags, child
  <2>9. CASE Stop \/ Stopped
    BY <2>1, <2>9 DEF Stop, Stopped, vars, flags, timers, child
  <2>. QED
    BY <2>2, <2>3, <2>4, <2>5, <2>6, <2>7, <2>8, <2>9 DEF Next
<1>2. QED
  BY <1>1, TypeCorrect, AlwaysSupervised, PTL DEF Spec, StopIsFinal

-----------------------------------------------------------------------------
(* The marks of the tracker.                                               *)

\* A container that was listed last as running or not at all carries no mark.
MarksAreDown == \A c \in crashed : ~ IsRunning(previous[c]) /\ previous[c] # "absent"

\* What a snapshot shows of the marks.
MarksOn(s, marks) == s.state \in {"Ok", "Stale"} => s.crashed = marks

MarksAreShown == lastGood.crashed = crashed /\ MarksOn(shown, crashed)

\* A failure shows the marks of the last good listing, or none with an error.
LEMMA FailureMarks ==
    ASSUME lastGood' \in Snapshots, lastGood'.crashed = crashed',
           NEW state \in AbortStates \cup Failures
    PROVE  MarksOn(FailureShown(state), crashed')
<1>1. CASE lastGood' # NoSnapshot
  BY <1>1 DEF FailureShown, Snapshots, MarksOn
<1>2. CASE lastGood' = NoSnapshot
  BY <1>2 DEF FailureShown, Snapshot, MarksOn, AbortStates, Failures
<1>. QED  BY <1>1, <1>2

LEMMA BeginMarks ==
    ASSUME lastGood' \in Snapshots, lastGood'.crashed = crashed',
           NEW p, NEW d, NEW b, NEW s, MarksOn(s, crashed'), BeginQuery(p, d, b, s)
    PROVE  MarksOn(shown', crashed')
<1>1. MarksOn(FailureShown("CommandFailed"), crashed')
  BY FailureMarks DEF Failures
<1>2. MarksOn(Snapshot("NotInstalled", Nothing, {}), crashed')
  BY DEF MarksOn, Snapshot
<1>3. \/ shown' = FailureShown("CommandFailed")
      \/ shown' = Snapshot("NotInstalled", Nothing, {})
      \/ shown' = s
  BY Zenon DEF BeginQuery
<1>. QED  BY <1>1, <1>2, <1>3, Zenon

LEMMA EndMarks ==
    ASSUME lastGood' \in Snapshots, lastGood'.crashed = crashed',
           NEW ms, NEW b, NEW s, MarksOn(s, crashed'), EndQuery(ms, b, s)
    PROVE  MarksOn(shown', crashed')
<1>1. CASE refresh
  <2>1. BeginQuery(poll, Off, b, s)
    BY <1>1, Zenon DEF EndQuery
  <2>. QED  BY <2>1, BeginMarks
<1>2. CASE ~ refresh
  <2>1. shown' = s
    BY <1>2, Zenon DEF EndQuery
  <2>. QED  BY <2>1, Zenon
<1>. QED  BY <1>1, <1>2

\* Every step that shows something shows the marks of the tracker.
LEMMA MarksAreShownStep ==
    ASSUME TypeOK, MarksAreShown, [Next]_vars  PROVE MarksAreShown'
<1>1. lastGood' \in Snapshots /\ abortState \in AbortStates
  BY TypeStep DEF TypeOK
<1>2. ASSUME NEW state \in AbortStates \cup Failures, FailQuery(state)  PROVE MarksAreShown'
  <2>1. UNCHANGED <<lastGood, crashed>>
    BY <1>2, Zenon DEF FailQuery, tracker
  <2>2. EndQuery(Interval(state, FALSE, backoff), BackoffAfter(state, backoff), FailureShown(state))
    BY <1>2, Zenon DEF FailQuery
  <2>3. lastGood'.crashed = crashed'
    BY <2>1, Zenon DEF MarksAreShown
  <2>4. MarksOn(FailureShown(state), crashed')
    BY <1>1, <1>2, <2>3, FailureMarks
  <2>5. MarksOn(shown', crashed')
    BY <1>1, <2>2, <2>3, <2>4, EndMarks
  <2>. QED  BY <2>3, <2>5, Zenon DEF MarksAreShown
<1>3. ASSUME NEW listing \in Listings, SucceedQuery(listing)  PROVE MarksAreShown'
  <2>1. lastGood' = Snapshot("Ok", listing, crashed')
    BY <1>3, Zenon DEF SucceedQuery
  <2>2. lastGood'.crashed = crashed'
    BY <2>1 DEF Snapshot
  <2>3. EndQuery(Interval("Ok", HasIssues(listing, {}), backoff), BackoffStartMs, lastGood')
    BY <1>3, Zenon DEF SucceedQuery
  <2>4. MarksOn(lastGood', crashed')
    BY <2>2, Zenon DEF MarksOn
  <2>5. MarksOn(shown', crashed')
    BY <1>1, <2>2, <2>3, <2>4, EndMarks
  <2>. QED  BY <2>2, <2>5, Zenon DEF MarksAreShown
<1>4. ASSUME UNCHANGED tracker, shown' = shown \/ shown' = FailureShown("CommandFailed")
      PROVE  MarksAreShown'
  <2>1. lastGood'.crashed = crashed' /\ crashed' = crashed
    BY <1>4, Zenon DEF tracker, MarksAreShown
  <2>2. MarksOn(FailureShown("CommandFailed"), crashed')
    BY <1>1, <2>1, FailureMarks DEF Failures
  <2>3. MarksOn(shown, crashed')
    BY <2>1, Zenon DEF MarksAreShown
  <2>4. MarksOn(shown', crashed')
    BY <1>4, <2>2, <2>3, Zenon
  <2>. QED  BY <2>1, <2>4, Zenon DEF MarksAreShown
<1>5. CASE Start \/ OnPollTimeout
  <2>1. UNCHANGED tracker
    BY <1>5, Zenon DEF Start, OnPollTimeout
  <2>2. \/ shown' = shown
        \/ \E p, d, b : BeginQuery(p, d, b, shown)
    BY <1>5, Zenon DEF Start, OnPollTimeout
  <2>3. CASE \E p, d, b : BeginQuery(p, d, b, shown)
    <3>1. lastGood'.crashed = crashed' /\ MarksOn(shown, crashed')
      BY <2>1, Zenon DEF tracker, MarksAreShown
    <3>2. MarksOn(shown', crashed')
      BY <1>1, <2>3, <3>1, BeginMarks
    <3>. QED  BY <3>1, <3>2, Zenon DEF MarksAreShown
  <2>. QED  BY <1>4, <2>1, <2>2, <2>3
<1>6. CASE OnStartFailure
  <2>1. CASE stopping
    BY <1>4, <1>6, <2>1, Zenon DEF OnStartFailure
  <2>2. CASE ~ stopping
    <3>1. FailQuery("CommandFailed") /\ "CommandFailed" \in AbortStates \cup Failures
      BY <1>6, <2>2 DEF OnStartFailure, Failures
    <3>. QED  BY <1>2, <3>1
  <2>. QED  BY <2>1, <2>2
<1>7. CASE OnFinished
  <2>1. \/ UNCHANGED tracker /\ shown' = shown
        \/ FailQuery(abortState)
        \/ \E state \in Failures : FailQuery(state)
        \/ \E listing \in Listings : SucceedQuery(listing)
    BY <1>7, Zenon DEF OnFinished, tracker
  <2>. QED  BY <1>1, <1>2, <1>3, <1>4, <2>1
<1>8. CASE OnStarted \/ OnOverflow \/ OnDeadlineTimeout \/ OnKillTimeout \/ Tick
  <2>1. UNCHANGED tracker /\ shown' = shown
    BY <1>8, Zenon DEF OnStarted, OnOverflow, OnDeadlineTimeout, OnKillTimeout, Tick
  <2>. QED  BY <1>4, <2>1
<1>9. CASE Stop \/ Stopped \/ UNCHANGED vars
  <2>1. UNCHANGED tracker /\ (shown' = shown \/ shown' = FailureShown("CommandFailed"))
    BY <1>9, Zenon DEF Stop, Stopped, vars
  <2>. QED  BY <1>4, <2>1
<1>. QED  BY <1>5, <1>6, <1>7, <1>8, <1>9, Zenon DEF Next

\* Only a listing changes what the tracker knows.
LEMMA TrackerStep ==
    ASSUME [Next]_vars
    PROVE  UNCHANGED tracker \/ \E listing \in Listings : SucceedQuery(listing)
<1>1. CASE OnFinished
  <2>1. \/ UNCHANGED tracker
        \/ \E state : FailQuery(state)
        \/ \E listing \in Listings : SucceedQuery(listing)
    BY <1>1, Zenon DEF OnFinished
  <2>. QED  BY <2>1, Zenon DEF FailQuery
<1>2. CASE OnStartFailure
  BY <1>2, Zenon DEF OnStartFailure, FailQuery
<1>3. CASE Start \/ OnPollTimeout \/ OnStarted \/ OnOverflow
  BY <1>3, Zenon DEF Start, OnPollTimeout, OnStarted, OnOverflow
<1>4. CASE OnDeadlineTimeout \/ OnKillTimeout \/ Tick
  BY <1>4, Zenon DEF OnDeadlineTimeout, OnKillTimeout, Tick
<1>5. CASE Stop \/ Stopped \/ UNCHANGED vars
  BY <1>5, Zenon DEF Stop, Stopped, vars
<1>. QED  BY <1>1, <1>2, <1>3, <1>4, <1>5, Zenon DEF Next

\* For any containers, any listings and any number of start() calls: a container
\* gets its mark exactly by being listed with an error exit right after it was
\* listed as running, keeps it exactly until it is listed as running or not at
\* all, and every listing on the screen carries the marks there are
\* (DockerStateTracker::update, emitSnapshot).
THEOREM CrashMarksAlwaysEarned == Spec => CrashMarksAreEarned
<1> DEFINE Step == \A c \in Containers :
                      /\ c \in crashed' \ crashed <=>
                             /\ c \notin crashed
                             /\ IsRunning(previous[c]) /\ previous'[c] = "failed"
                      /\ c \in crashed \ crashed' <=>
                             /\ c \in crashed
                             /\ IsRunning(previous'[c]) \/ previous'[c] = "absent"
           Shown == shown.state \in {"Ok", "Stale"} => shown.crashed = crashed
<1>1. Init => MarksAreDown /\ MarksAreShown
  BY DEF Init, MarksAreDown, MarksAreShown, MarksOn, NoSnapshot, Snapshot
<1>2. MarksAreDown /\ [Next]_vars => MarksAreDown' /\ Step
  <2> SUFFICES ASSUME MarksAreDown, [Next]_vars  PROVE MarksAreDown' /\ Step
    OBVIOUS
  <2>1. CASE UNCHANGED tracker
    <3>1. crashed' = crashed /\ previous' = previous
      BY <2>1 DEF tracker
    <3>. QED  BY <3>1 DEF MarksAreDown, IsRunning
  <2>2. ASSUME NEW listing \in Listings, SucceedQuery(listing)  PROVE MarksAreDown' /\ Step
    <3>1. previous' = listing /\ crashed' = TrackCrashes(previous, crashed, listing)
      BY <2>2, Zenon DEF SucceedQuery
    <3>. QED  BY <3>1 DEF TrackCrashes, MarksAreDown, IsRunning
  <2>. QED  BY <2>1, <2>2, TrackerStep
<1>3. TypeOK /\ MarksAreShown /\ [Next]_vars => MarksAreShown'
  BY MarksAreShownStep
<1>4. MarksAreShown => Shown
  BY Zenon DEF MarksAreShown, MarksOn
<1>. QED
  BY <1>1, <1>2, <1>3, <1>4, TypeCorrect, PTL DEF Spec, CrashMarksAreEarned

-----------------------------------------------------------------------------
(* With one start(), as main.cpp makes it, no refresh is ever pending, and a *)
(* kill timer that outlives its query (a start failure does not stop it) is  *)
(* due before the next query when the grace period is shorter than the first *)
(* retry delay.                                                              *)

Unrefreshed ==
    /\ refresh = FALSE
    /\ running => poll = Off

KillTimed ==
    /\ kill <= KillGraceMs
    /\ starts = 0 /\ ~ stopping => kill = Off
    /\ kill # Off /\ ~ stopping =>
          /\ running => sig # "none"
          /\ ~ running => poll # Off /\ kill < poll

\* The two ways a query ends when no refresh is pending.
LEMMA EndUnrefreshed ==
    ASSUME NEW ms, NEW b, NEW s, refresh = FALSE, EndQuery(ms, b, s)
    PROVE  /\ running' = FALSE /\ refresh' = FALSE
           /\ poll' = ms /\ backoff' = b /\ shown' = s
BY DEF EndQuery

\* beginQuery with no poll timer armed.
LEMMA BeginUnrefreshed ==
    ASSUME NEW d, NEW b, NEW s, BeginQuery(Off, d, b, s)
    PROVE  Unrefreshed'
BY DEF BeginQuery, Unrefreshed

LEMMA UnrefreshedStep ==
    ASSUME MaxStarts <= 1, TypeOK, Supervised, Unrefreshed, [Next]_vars
    PROVE  Unrefreshed'
<1>1. running \in BOOLEAN /\ stopping \in BOOLEAN
  BY DEF TypeOK
<1>2. CASE Start
  <2>1. starts = 0
    BY <1>2, ConfigAssumption DEF Start, TypeOK
  <2>2. running = FALSE /\ poll = Off
    BY <1>1, <2>1 DEF Supervised
  <2>3. CASE stopping = TRUE
    BY <1>2, <2>2, <2>3 DEF Start, Unrefreshed
  <2>4. CASE stopping = FALSE
    <3>1. BeginQuery(Off, deadline, BackoffStartMs, shown)
      BY <1>2, <2>2, <2>4 DEF Start
    <3>. QED  BY <3>1, BeginUnrefreshed
  <2>. QED  BY <1>1, <2>3, <2>4
<1>3. CASE OnPollTimeout
  <2>1. running = FALSE
    BY <1>1, <1>3 DEF OnPollTimeout, Unrefreshed, Off
  <2>2. BeginQuery(Off, deadline, backoff, shown)
    BY <1>3, <2>1 DEF OnPollTimeout
  <2>. QED  BY <2>2, BeginUnrefreshed
<1>4. CASE OnStartFailure \/ OnFinished
  <2>1. CASE stopping = TRUE
    BY <1>4, <2>1 DEF OnStartFailure, OnFinished, Unrefreshed
  <2>2. CASE stopping = FALSE
    <3>1. \/ \E state : FailQuery(state)
          \/ \E listing : SucceedQuery(listing)
      BY <1>4, <2>2 DEF OnStartFailure, OnFinished
    <3>2. ASSUME NEW state, FailQuery(state)  PROVE Unrefreshed'
      <4>1. EndQuery(Interval(state, FALSE, backoff), BackoffAfter(state, backoff),
                     FailureShown(state))
        BY <3>2 DEF FailQuery
      <4>. QED  BY <4>1, EndUnrefreshed DEF Unrefreshed
    <3>3. ASSUME NEW listing, SucceedQuery(listing)  PROVE Unrefreshed'
      <4>1. EndQuery(Interval("Ok", HasIssues(listing, {}), backoff),
                     BackoffStartMs, lastGood')
        BY <3>3 DEF SucceedQuery
      <4>. QED  BY <4>1, EndUnrefreshed DEF Unrefreshed
    <3>. QED  BY <3>1, <3>2, <3>3
  <2>. QED  BY <1>1, <2>1, <2>2
<1>5. CASE OnStarted \/ OnOverflow \/ OnDeadlineTimeout \/ OnKillTimeout
  BY <1>5 DEF OnStarted, OnOverflow, OnDeadlineTimeout, OnKillTimeout, flags, timers,
              Unrefreshed
<1>6. CASE Tick
  BY <1>6 DEF Tick, flags, Unrefreshed, Off
<1>7. CASE Stop \/ Stopped \/ UNCHANGED vars
  BY <1>7 DEF Stop, Stopped, vars, flags, timers, Unrefreshed
<1>. QED  BY <1>2, <1>3, <1>4, <1>5, <1>6, <1>7 DEF Next

LEMMA UnrefreshedAlways ==
    ASSUME MaxStarts <= 1
    PROVE  Spec => []Unrefreshed
<1>1. Init => Unrefreshed
  BY DEF Init, Unrefreshed
<1>2. TypeOK /\ Supervised /\ Unrefreshed /\ [Next]_vars => Unrefreshed'
  BY UnrefreshedStep
<1>. QED
  BY <1>1, <1>2, TypeCorrect, AlwaysSupervised, PTL DEF Spec

\* The retry delay falls back to its start only when a listing was shown or
\* start() was called: no mixture of failures, aborts and missing executables
\* shortens it (nextIntervalMs, resetBackoff).
THEOREM BackoffOnlyReset ==
    ASSUME MaxStarts <= 1
    PROVE  Spec => OnlySuccessResetsBackoff
<1> DEFINE Step == backoff' < backoff => shown'.state = "Ok" \/ starts' # starts
<1>1. TypeOK /\ Unrefreshed /\ [Next]_vars => [Step]_vars
  <2> SUFFICES ASSUME TypeOK, Unrefreshed, Next, backoff' < backoff
               PROVE  shown'.state = "Ok" \/ starts' # starts
    OBVIOUS
  <2>1. QueryTyped /\ lastGood \in Snapshots /\ ~ (backoff < backoff)
    BY DEF TypeOK, QueryTyped, Backoffs
  <2>2. BackoffAfter("CommandFailed", backoff) >= backoff
    BY ConfigAssumption DEF BackoffAfter, TypeOK
  <2>3. TypeOK'
    BY TypeStep
  <2>4. ~ (backoff' >= backoff)
    BY <2>1, <2>3 DEF TypeOK
  <2>5. CASE Start
    BY <2>5, ConfigAssumption DEF Start, TypeOK
  <2>6. CASE OnPollTimeout
    <3>1. CASE running
      BY <2>1, <2>6, <3>1 DEF OnPollTimeout
    <3>2. CASE ~ running
      <4>1. BeginQuery(Off, deadline, backoff, shown)
        BY <2>6, <3>2 DEF OnPollTimeout
      <4>2. Off \in Timer /\ lastGood' \in Snapshots
        BY <2>3 DEF Timer, TypeOK
      <4>3. backoff' >= backoff
        BY <2>1, <4>1, <4>2, BeginQueryEffect DEF QueryTyped
      <4>. QED  BY <2>4, <4>3
    <3>. QED  BY <3>1, <3>2
  <2>7. CASE OnStartFailure \/ OnFinished
    <3>1. CASE stopping
      BY <2>1, <2>2, <2>4, <2>7, <3>1 DEF OnStartFailure, OnFinished
    <3>2. CASE ~ stopping
      <4>1. \/ \E state \in AbortStates \cup Failures : FailQuery(state)
            \/ \E listing \in Listings : SucceedQuery(listing)
        BY <2>7, <3>2 DEF OnStartFailure, OnFinished, TypeOK, Failures
      <4>2. ASSUME NEW state \in AbortStates \cup Failures, FailQuery(state)
            PROVE  FALSE
        BY <2>1, <2>4, <4>2, FailQueryEffect
      <4>3. ASSUME NEW listing \in Listings, SucceedQuery(listing)
            PROVE  shown'.state = "Ok"
        <5>1. EndQuery(Interval("Ok", HasIssues(listing, {}), backoff),
                       BackoffStartMs, lastGood')
          BY <4>3 DEF SucceedQuery
        <5>2. shown' = lastGood'
          BY <5>1, EndUnrefreshed DEF Unrefreshed
        <5>3. lastGood'.state = "Ok"
          BY <4>3 DEF SucceedQuery, Snapshot
        <5>. QED  BY <5>2, <5>3
      <4>. QED  BY <4>1, <4>2, <4>3
    <3>. QED  BY <3>1, <3>2
  <2>8. CASE Stop
    BY <2>1, <2>2, <2>4, <2>8 DEF Stop
  <2>9. CASE OnStarted \/ OnOverflow \/ OnDeadlineTimeout \/ OnKillTimeout \/ Tick \/ Stopped
    BY <2>1, <2>9
    DEF OnStarted, OnOverflow, OnDeadlineTimeout, OnKillTimeout, Tick, Stopped, vars
  <2>. QED
    BY <2>5, <2>6, <2>7, <2>8, <2>9 DEF Next
<1>2. QED
  BY <1>1, TypeCorrect, UnrefreshedAlways, PTL DEF Spec, OnlySuccessResetsBackoff

\* Every step keeps the kill timer of one query clear of the next one's child.
LEMMA KillTimedStep ==
    ASSUME MaxStarts <= 1, KillGraceMs < BackoffStartMs,
           TypeOK, Supervised, Unrefreshed, KillTimed, [Next]_vars
    PROVE  KillTimed'
<1>1. /\ running \in BOOLEAN /\ stopping \in BOOLEAN
      /\ kill \in Timer /\ poll \in Timer
      /\ KillGraceMs \in Nat /\ Off <= KillGraceMs
      /\ refresh = FALSE
      /\ \A t \in Timer : t # Off => t \in Nat
  BY ConfigAssumption DEF TypeOK, Timer, Off, Unrefreshed
<1>2. CASE Start
  <2>1. /\ UNCHANGED <<stopping, kill>>
        /\ kill <= KillGraceMs
        /\ ~ stopping => kill = Off
    BY <1>2, ConfigAssumption DEF Start, TypeOK, KillTimed
  <2>. QED  BY <1>1, <2>1 DEF KillTimed
<1>3. CASE OnPollTimeout
  <2>1. poll = 0 /\ stopping = FALSE /\ running = FALSE
    BY <1>1, <1>3 DEF OnPollTimeout, Supervised, Unrefreshed, Off
  <2>2. kill = Off
    BY <1>1, <2>1 DEF KillTimed
  <2>3. kill' = Off
    BY <1>3, <2>2 DEF OnPollTimeout
  <2>. QED  BY <1>1, <2>3 DEF KillTimed
<1>4. CASE OnStartFailure
  <2>1. UNCHANGED <<starts, stopping, kill>>
    BY <1>4 DEF OnStartFailure
  <2>2. CASE stopping = TRUE
    BY <2>1, <2>2 DEF KillTimed
  <2>3. CASE stopping = FALSE
    <3>1. FailQuery("CommandFailed")
      BY <1>4, <2>3 DEF OnStartFailure
    <3>2. EndQuery(Interval("CommandFailed", FALSE, backoff),
                   BackoffAfter("CommandFailed", backoff), FailureShown("CommandFailed"))
      BY <3>1 DEF FailQuery
    <3>3. running' = FALSE /\ poll' = Interval("CommandFailed", FALSE, backoff)
      BY <1>1, <3>2, EndUnrefreshed
    <3>4. /\ Interval("CommandFailed", FALSE, backoff) # Off
          /\ KillGraceMs < Interval("CommandFailed", FALSE, backoff)
      BY ConfigAssumption DEF Interval, TypeOK, Off
    <3>5. kill # Off => kill < Interval("CommandFailed", FALSE, backoff)
      BY <1>1, <3>4, ConfigAssumption DEF KillTimed, Interval, TypeOK
    <3>. QED  BY <2>1, <3>3, <3>4, <3>5 DEF KillTimed
  <2>. QED  BY <1>1, <2>2, <2>3
<1>5. CASE OnFinished
  BY <1>1, <1>5 DEF OnFinished, KillTimed
<1>6. CASE OnStarted
  BY <1>6 DEF OnStarted, flags, timers, KillTimed
<1>7. CASE OnOverflow \/ OnDeadlineTimeout
  <2>1. UNCHANGED <<starts, stopping, running, poll>>
    BY <1>7 DEF OnOverflow, OnDeadlineTimeout
  <2>2. \/ kill' = KillGraceMs /\ sig' # "none" /\ (stopping \/ running)
        \/ kill' = kill /\ sig' = sig
    BY <1>7 DEF OnOverflow, OnDeadlineTimeout, Abort, Supervised
  <2>3. starts = 0 => ~ running
    BY DEF Supervised
  <2>4. CASE kill' = kill /\ sig' = sig
    BY <2>1, <2>4 DEF KillTimed
  <2>5. CASE kill' = KillGraceMs /\ sig' # "none" /\ (stopping \/ running)
    <3>1. starts # 0 \/ stopping
      BY <2>3, <2>5
    <3>. QED  BY <1>1, <2>1, <2>5, <3>1 DEF KillTimed
  <2>. QED  BY <2>2, <2>4, <2>5
<1>8. CASE OnKillTimeout
  BY <1>1, <1>8 DEF OnKillTimeout, KillTimed
<1>9. CASE Tick
  <2>1. /\ kill # 0 /\ poll # 0
        /\ kill' = IF kill = Off THEN Off ELSE kill - 1
        /\ poll' = IF poll = Off THEN Off ELSE poll - 1
        /\ UNCHANGED <<starts, stopping, running, sig>>
    BY <1>9 DEF Tick, flags, child
  <2>. QED  BY <1>1, <2>1 DEF KillTimed, Off, Timer
<1>10. CASE Stop
  <2>1. stopping' = TRUE /\ UNCHANGED starts /\ kill' \in {Off, KillGraceMs}
    BY <1>10 DEF Stop
  <2>. QED  BY <1>1, <2>1 DEF KillTimed
<1>11. CASE Stopped \/ UNCHANGED vars
  BY <1>11 DEF Stopped, vars, flags, timers, child, KillTimed
<1>. QED
  BY <1>2, <1>3, <1>4, <1>5, <1>6, <1>7, <1>8, <1>9, <1>10, <1>11 DEF Next

\* SIGKILL only ever reaches a child that was asked to leave first, if the grace
\* period is shorter than the first retry delay (onKillTimeout).
THEOREM KillIsAsked ==
    ASSUME MaxStarts <= 1, KillGraceMs < BackoffStartMs
    PROVE  Spec => KillOnlyAsked
<1> DEFINE Step == sig # "kill" /\ sig' = "kill" /\ ~ stopping' => sig = "term"
<1>1. Init => KillTimed
  BY ConfigAssumption DEF Init, KillTimed, Off
<1>2. TypeOK /\ Supervised /\ Unrefreshed /\ KillTimed /\ [Next]_vars => KillTimed'
  BY KillTimedStep
<1>3. TypeOK /\ Supervised /\ KillTimed /\ [Next]_vars => [Step]_vars
  <2> SUFFICES ASSUME TypeOK, Supervised, KillTimed, Next,
                      sig # "kill", sig' = "kill", ~ stopping'
               PROVE  sig = "term"
    OBVIOUS
  <2>1. QueryTyped /\ lastGood \in Snapshots
    BY DEF TypeOK, QueryTyped, Backoffs
  <2>2. CASE OnKillTimeout
    <3>1. kill # Off /\ running /\ ~ stopping /\ sig \in {"none", "term", "kill"}
      BY <2>2 DEF OnKillTimeout, Off, TypeOK
    <3>. QED  BY <3>1 DEF KillTimed
  <2>3. CASE OnOverflow \/ OnDeadlineTimeout
    BY <2>3 DEF OnOverflow, OnDeadlineTimeout, Abort
  <2>4. CASE Start \/ OnPollTimeout
    BY <2>4 DEF Start, OnPollTimeout, BeginQuery, child
  <2>5. CASE OnStartFailure \/ OnFinished
    BY <2>5 DEF OnStartFailure, OnFinished, FailQuery, SucceedQuery, EndQuery, BeginQuery
  <2>6. CASE OnStarted \/ Stop \/ Tick \/ Stopped
    BY <2>6 DEF OnStarted, Stop, Tick, Stopped, vars, child
  <2>. QED  BY <2>2, <2>3, <2>4, <2>5, <2>6 DEF Next
<1>4. QED
  BY <1>1, <1>2, <1>3, TypeCorrect, AlwaysSupervised, UnrefreshedAlways, PTL
  DEF Spec, KillOnlyAsked

-----------------------------------------------------------------------------
(* Refinement: with one start(), the source is a StatusFeed.               *)

Answers == [state : {"Ok"}, listing : Listings, crashed : SUBSET Containers]

\* What the answers known so far have to do with the executable that gives them.
KnownSound ==
    /\ lastGood # NoSnapshot => lastGood \in Answers
    /\ starts = 0 => lastGood = NoSnapshot /\ ~ running
    /\ ~ path => lastGood = NoSnapshot /\ ~ running

\* What a failure puts on the screen.
LEMMA FailureOnScreen ==
    ASSUME KnownSound, UNCHANGED lastGood, NEW state \in AbortStates \cup Failures,
           shown' = FailureShown(state)
    PROVE  Feed!ShowFailure
<1>1. state # "Ok" /\ state # "Stale"
  BY DEF AbortStates, Failures
<1>2. CASE lastGood = NoSnapshot
  <2>1. shown' = [state |-> state, listing |-> Nothing, crashed |-> {}]
    BY <1>2 DEF FailureShown, Snapshot
  <2>2. OnScreen' = [state |-> state, answer |-> NoSnapshot]
    BY <1>1, <2>1 DEF OnScreen, NoSnapshot, Nothing, Snapshot
  <2>. QED
    BY <1>2, <2>2 DEF Feed!ShowFailure, Feed!Error
<1>3. CASE lastGood # NoSnapshot
  <2>1. lastGood \in Answers /\ shown' = [lastGood EXCEPT !.state = "Stale"]
    BY <1>3 DEF FailureShown, KnownSound
  <2>2. shown'.state = "Stale" /\ [shown' EXCEPT !.state = "Ok"] = lastGood
    BY <2>1 DEF Answers
  <2>3. OnScreen' = [state |-> "Stale", answer |-> lastGood]
    BY <2>2 DEF OnScreen
  <2>. QED
    BY <1>3, <2>3 DEF Feed!ShowFailure, Feed!Stale
<1>. QED  BY <1>2, <1>3

\* beginQuery asks, fails to, or finds nobody to ask.
LEMMA BeginFeeds ==
    ASSUME KnownSound', UNCHANGED <<lastGood, stopping>>, ~ stopping, ~ running,
           refresh = FALSE, KnownSound, starts' # 0, NEW p, NEW d, NEW b, BeginQuery(p, d, b, shown)
    PROVE  Feed!Next
<1>1. Phase \in {"off", "idle"} /\ refresh' = refresh
  BY DEF Phase, BeginQuery
<1>2. CASE ~ path'
  <2>1. shown' = [state |-> "NotInstalled", listing |-> Nothing, crashed |-> {}]
        /\ running' = FALSE
    BY <1>2 DEF BeginQuery, Snapshot
  <2>2. OnScreen' = [state |-> "NotInstalled", answer |-> NoSnapshot] /\ Phase' = "idle"
    BY <2>1 DEF OnScreen, Phase
  <2>3. lastGood = NoSnapshot
    BY <1>2 DEF KnownSound
  <2>4. Feed!Decline
    BY <1>1, <2>2, <2>3 DEF Feed!Decline, Feed!Error
  <2>. QED  BY <2>4 DEF Feed!Next
<1>3. CASE path' /\ running' = TRUE
  <2>1. shown' = shown
    BY <1>3 DEF BeginQuery
  <2>2. OnScreen' = OnScreen /\ Phase' = "asking"
    BY <1>3, <2>1 DEF OnScreen, Phase
  <2>3. Feed!Ask
    BY <1>1, <2>2 DEF Feed!Ask
  <2>. QED  BY <2>3 DEF Feed!Next
<1>4. CASE path' /\ running' = FALSE
  <2>1. shown' = FailureShown("CommandFailed")
    BY <1>4 DEF BeginQuery
  <2>2. Feed!ShowFailure
    BY <2>1, FailureOnScreen DEF Failures
  <2>3. Phase' = "idle"
    BY <1>4 DEF Phase
  <2>4. Feed!Fail
    BY <1>1, <2>2, <2>3 DEF Feed!Fail
  <2>. QED  BY <2>4 DEF Feed!Next
<1>. QED  BY <1>2, <1>3, <1>4 DEF BeginQuery

\* A failed query is a failed question.
LEMMA FailFeeds ==
    ASSUME KnownSound, Unrefreshed, running, ~ stopping, UNCHANGED <<starts, stopping>>,
           NEW state \in AbortStates \cup Failures, FailQuery(state)
    PROVE  Feed!Next
<1>1. /\ EndQuery(Interval(state, FALSE, backoff), BackoffAfter(state, backoff),
                  FailureShown(state))
      /\ UNCHANGED lastGood
  BY DEF FailQuery, tracker
<1>2. shown' = FailureShown(state) /\ running' = FALSE /\ refresh = FALSE /\ refresh' = refresh
  BY <1>1, EndUnrefreshed DEF Unrefreshed
<1>3. Feed!ShowFailure
  BY <1>1, <1>2, FailureOnScreen
<1>4. Phase = "asking" /\ Phase' = "idle"
  BY <1>2 DEF Phase, KnownSound
<1>5. Feed!Fail
  BY <1>2, <1>3, <1>4 DEF Feed!Fail
<1>. QED  BY <1>5 DEF Feed!Next

\* A listing is an answer, and it is what the screen shows.
LEMMA SucceedFeeds ==
    ASSUME KnownSound, Unrefreshed, running, ~ stopping, UNCHANGED <<starts, stopping>>,
           NEW listing \in Listings, SucceedQuery(listing)
    PROVE  Feed!Next /\ lastGood' \in Answers
<1>1. /\ EndQuery(Interval("Ok", HasIssues(listing, {}), backoff),
                  BackoffStartMs, lastGood')
      /\ lastGood' = [state |-> "Ok", listing |-> listing, crashed |-> crashed']
      /\ crashed' \in SUBSET Containers
  BY DEF SucceedQuery, Snapshot, TrackCrashes
<1>2. shown' = lastGood' /\ running' = FALSE /\ refresh = FALSE /\ refresh' = refresh
  BY <1>1, EndUnrefreshed DEF Unrefreshed
<1>3. lastGood' \in Answers
  BY <1>1 DEF Answers
<1>4. OnScreen' = [state |-> "Ok", answer |-> lastGood']
  <2>1. shown'.state = "Ok" /\ [shown' EXCEPT !.state = "Ok"] = lastGood'
    BY <1>1, <1>2
  <2>. QED  BY <2>1 DEF OnScreen
<1>5. Phase = "asking" /\ Phase' = "idle"
  BY <1>2 DEF Phase, KnownSound
<1>6. Feed!Answer
  BY <1>2, <1>3, <1>4, <1>5 DEF Feed!Answer, Feed!Fresh, Answers
<1>. QED  BY <1>3, <1>6 DEF Feed!Next

\* stop() and the start failure it may still let through.
LEMMA HaltFeeds ==
    ASSUME KnownSound, stopping' = TRUE, UNCHANGED <<lastGood, refresh>>,
           shown' \in {shown, FailureShown("CommandFailed")}
    PROVE  Feed!Next
<1>1. Phase' = "stopped"
  BY DEF Phase
<1>2. CASE shown' = shown
  <2>1. UNCHANGED OnScreen
    BY <1>2 DEF OnScreen
  <2>. QED  BY <1>1, <2>1 DEF Feed!Next, Feed!Halt
<1>3. CASE shown' = FailureShown("CommandFailed")
  <2>1. Feed!ShowFailure
    BY <1>3, FailureOnScreen DEF Failures
  <2>. QED  BY <1>1, <2>1 DEF Feed!Next, Feed!Halt
<1>. QED  BY <1>2, <1>3

\* The slots that the window cannot see.
LEMMA QuietFeeds ==
    ASSUME UNCHANGED <<stopping, running, refresh, starts, lastGood, shown>>
    PROVE  UNCHANGED Feed!feed
BY DEF Feed!feed, Phase, OnScreen

LEMMA FeedStep ==
    ASSUME MaxStarts <= 1, TypeOK, Supervised, Unrefreshed, KnownSound, [Next]_vars
    PROVE  KnownSound' /\ [Feed!Next]_(Feed!feed)
<1>1. running \in BOOLEAN /\ stopping \in BOOLEAN /\ refresh = FALSE
  BY DEF TypeOK, Unrefreshed
<1>2. CASE Start
  <2>1. starts = 0 /\ starts' # 0 /\ running = FALSE /\ poll = Off
        /\ UNCHANGED <<stopping, lastGood>> /\ lastGood = NoSnapshot
    BY <1>1, <1>2, ConfigAssumption DEF Start, TypeOK, tracker, KnownSound, Supervised
  <2>2. CASE stopping = TRUE
    <3>1. UNCHANGED <<running, refresh, shown>>
      BY <1>2, <2>2 DEF Start
    <3>2. UNCHANGED <<lastGood, OnScreen, Phase>>
      BY <2>1, <2>2, <3>1 DEF OnScreen, Phase
    <3>. QED  BY <2>1, <3>1, <3>2 DEF KnownSound, Feed!feed
  <2>3. CASE stopping = FALSE
    <3>1. BeginQuery(Off, deadline, BackoffStartMs, shown)
      BY <1>2, <2>1, <2>3 DEF Start
    <3>2. KnownSound'
      BY <2>1, <3>1 DEF BeginQuery, KnownSound
    <3>3. Feed!Next
      BY <1>1, <2>1, <2>3, <3>1, <3>2, BeginFeeds
    <3>. QED  BY <3>2, <3>3
  <2>. QED  BY <1>1, <2>2, <2>3
<1>3. CASE OnPollTimeout
  <2>1. running = FALSE /\ stopping = FALSE /\ starts' # 0
        /\ UNCHANGED <<starts, path, stopping, lastGood>>
    BY <1>1, <1>3 DEF OnPollTimeout, Unrefreshed, Supervised, Off, tracker
  <2>2. BeginQuery(Off, deadline, backoff, shown)
    BY <1>3, <2>1 DEF OnPollTimeout
  <2>3. KnownSound'
    BY <2>1, <2>2 DEF BeginQuery, KnownSound
  <2>4. Feed!Next
    BY <1>1, <2>1, <2>2, <2>3, BeginFeeds
  <2>. QED  BY <2>3, <2>4
<1>4. CASE OnStartFailure \/ OnFinished
  <2>1. UNCHANGED <<starts, path, stopping>> /\ proc # "NotRunning"
    BY <1>4 DEF OnStartFailure, OnFinished
  <2>2. CASE stopping = TRUE
    <3>1. UNCHANGED <<lastGood, refresh>> /\ shown' \in {shown, FailureShown("CommandFailed")}
          /\ running' = FALSE
      BY <1>4, <2>2 DEF OnStartFailure, OnFinished, tracker
    <3>. QED  BY <2>1, <2>2, <3>1, HaltFeeds DEF KnownSound
  <2>3. CASE stopping = FALSE
    <3>1. running /\ path /\ starts # 0
      BY <1>1, <2>1, <2>3 DEF Supervised, KnownSound
    <3>2. \/ \E state \in AbortStates \cup Failures : FailQuery(state)
          \/ \E listing \in Listings : SucceedQuery(listing)
      BY <1>4, <2>3 DEF OnStartFailure, OnFinished, TypeOK, Failures
    <3>3. ASSUME NEW state \in AbortStates \cup Failures, FailQuery(state)
          PROVE  KnownSound' /\ Feed!Next
      <4>1. Feed!Next
        BY <2>1, <2>3, <3>1, <3>3, FailFeeds
      <4>2. UNCHANGED lastGood
        BY <3>3 DEF FailQuery, tracker
      <4>. QED  BY <2>1, <3>1, <4>1, <4>2 DEF KnownSound
    <3>4. ASSUME NEW listing \in Listings, SucceedQuery(listing)
          PROVE  KnownSound' /\ Feed!Next
      <4>1. Feed!Next /\ lastGood' \in Answers
        BY <2>1, <2>3, <3>1, <3>4, SucceedFeeds
      <4>. QED  BY <2>1, <3>1, <4>1 DEF KnownSound
    <3>. QED  BY <3>2, <3>3, <3>4
  <2>. QED  BY <1>1, <2>2, <2>3
<1>5. CASE Stop
  <2>1. stopping' = TRUE /\ running' = FALSE /\ UNCHANGED <<starts, path, lastGood, refresh>>
        /\ shown' \in {shown, FailureShown("CommandFailed")}
    BY <1>5 DEF Stop, tracker
  <2>. QED  BY <2>1, HaltFeeds DEF KnownSound
<1>6. CASE \/ OnStarted \/ OnOverflow \/ OnDeadlineTimeout \/ OnKillTimeout
           \/ Tick \/ Stopped \/ UNCHANGED vars
  <2>1. UNCHANGED <<stopping, running, refresh, starts, path, lastGood, shown>>
    BY <1>6 DEF OnStarted, OnOverflow, OnDeadlineTimeout, OnKillTimeout, Tick, Stopped,
                vars, flags, tracker
  <2>. QED  BY <2>1, QuietFeeds DEF KnownSound
<1>. QED  BY <1>2, <1>3, <1>4, <1>5, <1>6 DEF Next

\* Every behaviour of the source, whatever its timers, signals and buffers do,
\* is one of the abstract feed: questions are answered one at a time, and the
\* badge shows the last answer, fresh or stale, once there was one.
THEOREM SourceImplementsFeed ==
    ASSUME MaxStarts <= 1
    PROVE  Spec => ImplementsFeed
<1>1. Init => Feed!Init /\ KnownSound
  <2>1. Init => KnownSound
    BY DEF Init, KnownSound
  <2>2. Init => Phase = "off" /\ OnScreen = [state |-> "None", answer |-> NoSnapshot]
    BY DEF Init, Phase, OnScreen, NoSnapshot, Snapshot
  <2>3. Init => Feed!Init
    BY <2>2 DEF Init, Feed!Init, Feed!Blank
  <2>. QED  BY <2>1, <2>3
<1>2. TypeOK /\ Supervised /\ Unrefreshed /\ KnownSound /\ [Next]_vars
        => KnownSound' /\ [Feed!Next]_(Feed!feed)
  BY FeedStep
<1>. QED
  BY <1>1, <1>2, TypeCorrect, AlwaysSupervised, UnrefreshedAlways, PTL
  DEF Spec, ImplementsFeed, Feed!Spec

\* What a failure shows once an answer is known.
LEMMA FailureIsStale ==
    ASSUME KnownSound, HaveLast, UNCHANGED lastGood, NEW state
    PROVE  FailureShown(state).state = "Stale"
<1>1. lastGood \in Answers /\ FailureShown(state) = [lastGood EXCEPT !.state = "Stale"]
  BY Zenon DEF KnownSound, HaveLast, FailureShown
<1>. QED  BY <1>1 DEF Answers

\* Once a listing was shown the badge never falls back to a bare error: every
\* way out of a query shows the listing it got or the last one, marked stale.
THEOREM DataNeverDropped ==
    ASSUME MaxStarts <= 1
    PROVE  Spec => DataIsNeverDropped
<1> DEFINE Step == HaveLast /\ shown' # shown => shown'.state \in {"Ok", "Stale"}
<1>1. TypeOK /\ Supervised /\ Unrefreshed /\ KnownSound /\ [Next]_vars => [Step]_vars
  <2> SUFFICES ASSUME TypeOK, Unrefreshed, KnownSound, Next, HaveLast, shown' # shown
               PROVE  shown'.state \in {"Ok", "Stale"}
    OBVIOUS
  <2>1. path /\ starts # 0 /\ refresh = FALSE
    BY DEF KnownSound, HaveLast, Unrefreshed
  <2>2. CASE OnPollTimeout
    <3>1. path' = path /\ lastGood' = lastGood
      BY <2>2 DEF OnPollTimeout, tracker
    <3>2. BeginQuery(Off, deadline, backoff, shown)
      BY <2>2, Zenon DEF OnPollTimeout
    <3>3. shown' = FailureShown("CommandFailed")
      BY <2>1, <3>1, <3>2, Zenon DEF BeginQuery
    <3>. QED  BY <3>1, <3>3, FailureIsStale
  <2>3. CASE OnStartFailure \/ OnFinished
    <3>1. \/ lastGood' = lastGood /\ \E state : shown' = FailureShown(state)
          \/ \E state : FailQuery(state)
          \/ \E listing : SucceedQuery(listing)
      BY <2>3, Zenon DEF OnStartFailure, OnFinished, tracker
    <3>2. ASSUME NEW state, FailQuery(state)
          PROVE  lastGood' = lastGood /\ shown' = FailureShown(state)
      <4>1. EndQuery(Interval(state, FALSE, backoff), BackoffAfter(state, backoff),
                     FailureShown(state)) /\ UNCHANGED tracker
        BY <3>2, Zenon DEF FailQuery
      <4>. QED  BY <2>1, <4>1, EndUnrefreshed DEF tracker
    <3>3. ASSUME NEW listing, SucceedQuery(listing)  PROVE shown'.state = "Ok"
      <4>1. /\ lastGood' = Snapshot("Ok", listing, crashed')
            /\ EndQuery(Interval("Ok", HasIssues(listing, {}), backoff), BackoffStartMs, lastGood')
        BY <3>3, Zenon DEF SucceedQuery
      <4>2. shown' = lastGood'
        BY <2>1, <4>1, EndUnrefreshed
      <4>. QED  BY <4>1, <4>2 DEF Snapshot
    <3>. QED  BY <3>1, <3>2, <3>3, FailureIsStale
  <2>4. CASE Start
    BY <2>1, <2>4, ConfigAssumption DEF Start, TypeOK
  <2>5. CASE Stop
    <3>1. lastGood' = lastGood /\ shown' = FailureShown("CommandFailed")
      BY <2>5, Zenon DEF Stop, tracker
    <3>. QED  BY <3>1, FailureIsStale
  <2>6. CASE OnStarted \/ OnOverflow \/ OnDeadlineTimeout \/ OnKillTimeout \/ Tick \/ Stopped
    BY <2>6, Zenon DEF OnStarted, OnOverflow, OnDeadlineTimeout, OnKillTimeout, Tick, Stopped, vars
  <2>. QED  BY <2>2, <2>3, <2>4, <2>5, <2>6, Zenon DEF Next
<1>2. Init => KnownSound
  BY DEF Init, KnownSound
<1>3. TypeOK /\ Supervised /\ Unrefreshed /\ KnownSound /\ [Next]_vars => KnownSound'
  BY FeedStep
<1>. QED
  BY <1>1, <1>2, <1>3, TypeCorrect, AlwaysSupervised, UnrefreshedAlways, PTL
  DEF Spec, DataIsNeverDropped
=============================================================================
