--------------------------- MODULE SyntheticSource ---------------------------
(***************************************************************************)
(* The worker thread of SyntheticSource: a round runs curl for one target   *)
(* after the other and ends with a snapshot and a timer for the next round. *)
(* curl gets --max-time; nothing here watches the child.                    *)
(***************************************************************************)
EXTENDS Integers, Sequences, FiniteSets

CONSTANTS
    Probes,       \* m_config.targets, a sequence of URLs
    Statuses      \* the HTTP codes curl reports

VARIABLES
    running, stopping, child, timer,   \* as in ServicesSource
    found,        \* start() found curl on the path
    index,        \* m_index, the number of targets done in this round
    results,      \* m_snapshot.results of this round
    shown         \* the last snapshot emitted

vars == <<running, stopping, child, timer, found, index, results, shown>>

Result(url, ok) == [url |-> url, success |-> ok]

\* A code of 2xx or 3xx is a success; a crash, an exit code or a line that
\* parseCurlWriteOut cannot read is none.
Outcomes(url) ==
    {Result(url, status \in 200..399) : status \in Statuses} \cup {Result(url, FALSE)}

\* finishRun: a round that has nothing to show reports curl itself.
Snapshot(done, curl) ==
    LET all == IF ~curl /\ done = <<>> THEN <<Result("curl", FALSE)>> ELSE done
        up == Cardinality({i \in DOMAIN all : all[i].success})
    IN  [results |-> all, upCount |-> up, downCount |-> Len(all) - up]

\* runNext while m_stopping is false: the next target, or the end of the round.
RunNext(done, n, curl) ==
    /\ results' = done /\ index' = n
    /\ IF ~curl \/ n >= Len(Probes)
       THEN /\ running' = FALSE /\ child' = "none" /\ timer' = TRUE
            /\ shown' = {Snapshot(done, curl)}
       ELSE running' = TRUE /\ child' = "starting" /\ timer' = FALSE /\ UNCHANGED shown

Init ==
    /\ running = FALSE /\ stopping = FALSE /\ child = "none" /\ timer = FALSE
    /\ found = FALSE /\ index = 0 /\ results = <<>> /\ shown = {}

\* start() looks for curl once.
Start ==
    /\ shown = {} /\ ~running /\ ~stopping
    /\ \E curl \in BOOLEAN : found' = curl /\ RunNext(<<>>, 0, curl)
    /\ UNCHANGED stopping

\* onTimeout, beginRun
OnTimeout ==
    /\ timer
    /\ RunNext(<<>>, 0, found)
    /\ UNCHANGED <<stopping, found>>

OnStarted ==
    /\ child = "starting"
    /\ child' = "alive"
    /\ UNCHANGED <<running, stopping, timer, found, index, results, shown>>

\* runNext from the slot of a failed start: QProcess takes the start of the
\* next target and then, cleaning up after the failed one, sweeps its child
\* away; m_running stays set with nothing left to clear it.
RunNextSwept(done, n) ==
    IF n >= Len(Probes) THEN RunNext(done, n, found)
    ELSE /\ results' = done /\ index' = n
         /\ running' = TRUE /\ child' = "none" /\ timer' = FALSE /\ UNCHANGED shown

\* A mutant: a target that fails to start has no result.
OnStartFailureSkipping ==
    /\ child = "starting" /\ running
    /\ RunNextSwept(results, index + 1)
    /\ UNCHANGED <<stopping, found>>

\* onErrorOccurred(FailedToStart): the target is down.
OnStartFailure ==
    /\ child = "starting" /\ running
    /\ RunNextSwept(Append(results, Result(Probes[index + 1], FALSE)), index + 1)
    /\ UNCHANGED <<stopping, found>>

OnFinished ==
    /\ child = "alive" /\ running
    /\ \E r \in Outcomes(Probes[index + 1]) : RunNext(Append(results, r), index + 1, found)
    /\ UNCHANGED <<stopping, found>>

\* stop(): the child may leave in one of the two waits, while its exit is
\* still handled (runNext then ends the round without a snapshot), or after
\* them, when m_running is cleared.
Stop ==
    /\ ~stopping
    /\ stopping' = TRUE /\ running' = FALSE /\ timer' = FALSE
    /\ \/ child = "alive" /\ child' = "none" /\ index' = index + 1
          /\ \E r \in Outcomes(Probes[index + 1]) : results' = Append(results, r)
       \/ UNCHANGED <<child, index, results>>
    /\ UNCHANGED <<found, shown>>

\* A child that outlived stop(): onFinished and onErrorOccurred return early.
OnLateExit ==
    /\ child # "none" /\ ~running
    /\ child' = "none"
    /\ UNCHANGED <<running, stopping, timer, found, index, results, shown>>

Next ==
    \/ Start \/ OnTimeout \/ OnStarted \/ OnStartFailure \/ OnFinished
    \/ Stop \/ OnLateExit

(***************************************************************************)
(* A snapshot that is shown has one result per target, in their order,      *)
(* whatever became of each curl, and its two counts add up to it: a target   *)
(* that crashes neither ends the round nor takes another one's place.  (One  *)
(* that fails to start with another after it leaves nothing to show.)       *)
(***************************************************************************)
ProbesAreComplete ==
    \A s \in shown :
        /\ found => [i \in DOMAIN s.results |-> s.results[i].url] = Probes
        /\ ~found => s.results = <<Result("curl", FALSE)>>
        /\ s.upCount + s.downCount = Len(s.results)

Fairness == WF_vars(Start) /\ WF_vars(OnTimeout) /\ WF_vars(OnStarted \/ OnStartFailure)

Spec == Init /\ [][Next]_vars /\ Fairness
=============================================================================
