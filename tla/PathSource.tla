----------------------------- MODULE PathSource -----------------------------
(***************************************************************************)
(* The worker thread of PathSource: every interval it runs mtr for one      *)
(* target after the other.  Two callbacks advance the round: finished, and  *)
(* errorOccurred for any error.  A child that crashes causes both, the       *)
(* error first, when QProcess (of Qt 6) is cleaned up and takes another      *)
(* start; the start from finished is then refused, as any is while a child   *)
(* is there.  After a failed start errorOccurred comes before the cleaning   *)
(* up, which sweeps away what was started in its slot.                       *)
(***************************************************************************)
EXTENDS Integers, Sequences, Functions

CONSTANTS Hops    \* m_config.targets; one may be listed twice

VARIABLES
    running, stopping, child, timer,   \* stopping: stop() was called (no member)
    pending,      \* m_pending: the targets left
    reports,      \* m_reports, as the places in Hops of the targets that were read,
                  \* 0 for one of the round before
    tried,        \* the places of the targets that got a child in this round
    crashes,      \* crashes of children that this round met
    shown         \* the last snapshot emitted, with the history of its round

vars == <<running, stopping, child, timer, pending, reports, tried, crashes, shown>>

Round(done, attempts, lost) ==
    [available |-> TRUE, reports |-> done, tried |-> attempts, crashes |-> lost]

\* runNext over what the caller leaves of m_pending and m_reports.
RunNext(rest, done, attempts, lost) ==
    /\ reports' = done /\ crashes' = lost
    /\ IF rest = <<>>
       THEN /\ running' = FALSE /\ child' = "none"
            /\ shown' = {Round(done, attempts, lost)}
            /\ pending' = <<>> /\ tried' = attempts
       ELSE /\ running' = TRUE /\ child' = "starting"
            /\ pending' = Tail(rest)
            /\ tried' = Append(attempts, Len(Hops) - Len(rest) + 1)
            /\ UNCHANGED shown

\* onTick: one round at a time.
OnTickIdle == RunNext(Hops, <<>>, <<>>, 0)

Init ==
    /\ running = FALSE /\ stopping = FALSE /\ child = "none" /\ timer = FALSE
    /\ pending = <<>> /\ reports = <<>> /\ tried = <<>> /\ crashes = 0 /\ shown = {}

\* start(): without mtr or targets one empty snapshot and no timer.
Start ==
    /\ shown = {} /\ ~timer /\ ~running /\ ~stopping
    /\ \/ timer' = TRUE /\ OnTickIdle
       \/ shown' = {[Round(<<>>, <<>>, 0) EXCEPT !.available = FALSE]}
          /\ UNCHANGED <<running, child, timer, pending, reports, tried, crashes>>
    /\ UNCHANGED stopping

\* A child that outlived its round has the first target refused.
OnTick ==
    /\ timer /\ ~running
    /\ \/ child = "none" /\ OnTickIdle
       \/ /\ child # "none"
          /\ running' = TRUE /\ pending' = Tail(Hops)
          /\ reports' = <<>> /\ tried' = <<>> /\ crashes' = 1
          /\ UNCHANGED <<child, shown>>
    /\ UNCHANGED <<stopping, timer>>

OnStarted ==
    /\ child = "starting"
    /\ child' = "alive"
    /\ UNCHANGED <<running, stopping, timer, pending, reports, tried, crashes, shown>>

\* onErrorOccurred(FailedToStart): the next target's child is swept away, and
\* m_running stays set with nothing left to clear it.
OnStartFailure ==
    /\ child = "starting"
    /\ \/ running /\ pending = <<>> /\ RunNext(<<>>, reports, tried, crashes)
       \/ /\ running => pending # <<>>
          /\ child' = "none"
          /\ pending' = IF running THEN Tail(pending) ELSE pending
          /\ UNCHANGED <<running, reports, tried, crashes, shown>>
    /\ UNCHANGED <<stopping, timer>>

\* What m_reports can be when the child has gone: its output may be unreadable.
Read == {reports, Append(reports, IF tried = <<>> THEN 0 ELSE tried[Len(tried)])}

\* onProcessFinished after an exit.
OnExit ==
    /\ child = "alive"
    /\ \E done \in Read : RunNext(pending, done, tried, crashes)
    /\ UNCHANGED <<stopping, timer>>

\* A crash between rounds or with no target left: nothing is started from
\* onErrorOccurred, and onProcessFinished has the last word.
OnLastCrash ==
    /\ child = "alive" /\ (running => pending = <<>>)
    /\ \E done \in Read : RunNext(pending, done, tried, crashes + 1)
    /\ UNCHANGED <<stopping, timer>>

\* A crash with targets left: onErrorOccurred starts the next one, which
\* empties the buffers.  onProcessFinished then takes another target for a
\* start that is refused or, with none left, ends the round under that child.
OnCrash ==
    /\ child = "alive" /\ running /\ pending # <<>>
    /\ child' = "starting" /\ crashes' = crashes + 1
    /\ tried' = Append(tried, Len(Hops) - Len(pending) + 1)
    /\ IF Tail(pending) = <<>>
       THEN running' = FALSE /\ pending' = <<>> /\ shown' = {Round(reports, tried', crashes')}
       ELSE pending' = Tail(Tail(pending)) /\ UNCHANGED <<running, shown>>
    /\ UNCHANGED <<stopping, timer, reports>>

\* stop() kills the child, which is one more crash; the round goes on.
Stop ==
    /\ ~stopping
    /\ stopping' = TRUE /\ timer' = FALSE
    /\ UNCHANGED <<running, child, pending, reports, tried, crashes, shown>>

Next ==
    \/ Start \/ OnTick \/ OnStarted \/ OnStartFailure \/ OnExit
    \/ OnLastCrash \/ OnCrash \/ Stop

(***************************************************************************)
(* The two callbacks between them never repeat a target, and each crash of  *)
(* a child costs at most one target its turn, be it in the round or, when   *)
(* its successor outlives the round, the first of the next: a round that     *)
(* met no crash probes every target once and in order, and shows no report   *)
(* but of these.                                                            *)
(***************************************************************************)
PathSkipsOnlyOnCrash ==
    \A s \in {r \in shown : r.available} :
        /\ Len(s.tried) + s.crashes >= Len(Hops)
        /\ s.crashes = 0 => /\ s.tried = [i \in DOMAIN Hops |-> i]
                            /\ Range(s.reports) \subseteq Range(s.tried)
        /\ \A i, j \in DOMAIN s.tried : i # j => s.tried[i] # s.tried[j]
        /\ Range(s.reports) \ {0} \subseteq Range(s.tried)

Fairness == WF_vars(Start) /\ WF_vars(OnTick) /\ WF_vars(OnStarted \/ OnStartFailure)

Spec == Init /\ [][Next]_vars /\ Fairness
=============================================================================
