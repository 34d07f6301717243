--------------------------- MODULE ServicesSource ---------------------------
(***************************************************************************)
(* The worker thread of ServicesSource: it runs `systemctl list-units`,   *)
(* compares the listing with the one before, keeps a log of the changes   *)
(* (newest first) and arms one timer for the next query.  No timer watches *)
(* the child: one that never exits silences the source.                    *)
(***************************************************************************)
EXTENDS Integers, SequencesExt

CONSTANTS
    Units,        \* the service units of the host
    UnitStates,   \* what active/sub of a unit can be
    FailedStates, \* those that say failed
    MaxLog        \* ServicesSource.cpp:89 says 200

VARIABLES
    running,    \* m_running
    stopping,   \* m_stopping
    child,      \* the QProcess: "none", "starting" or "alive"
    timer,      \* the single shot timer is armed
    prev,       \* m_prevUnits, or {} while m_havePrev is false
    log,        \* m_timeline
    shown       \* the last snapshot emitted

vars == <<running, stopping, child, timer, prev, log, shown>>

\* A listing is a function from the units listed to their states;
\* parseSystemctlUnits keeps the lines with four fields and a dotted name.
Listings == UNION {[U -> UnitStates] : U \in SUBSET Units}

\* servicesFailedCount
FailedCount(units) == Cardinality({u \in DOMAIN units : units[u] \in FailedStates})

Change(u, from, to) == [unit |-> u, from |-> from, to |-> to]

\* A unit outside a listing has no state.
StateIn(units, u) == IF u \in DOMAIN units THEN {units[u]} ELSE {}

\* diffServices: appeared and changed units first, then those that left.
DiffServices(old, new) ==
    LET Changed(U) == {u \in U : StateIn(old, u) # StateIn(new, u)}
        Entries(U) == SetToSeq({Change(u, StateIn(old, u), StateIn(new, u)) : u \in U})
    IN  Entries(Changed(DOMAIN new)) \o Entries(DOMAIN old \ DOMAIN new)

\* A mutant: the changes of a listing are appended instead.
LoggedLast(changes) ==
    LET all == log \o changes
    IN  SubSeq(all, 1, IF Len(all) < MaxLog THEN Len(all) ELSE MaxLog)

\* Each change is prepended in turn, then the tail beyond MaxLog is dropped.
Logged(changes) ==
    LET all == Reverse(changes) \o log
    IN  SubSeq(all, 1, IF Len(all) < MaxLog THEN Len(all) ELSE MaxLog)

Failure == [available |-> FALSE, units |-> <<>>, failedCount |-> 0, log |-> <<>>]

Init ==
    /\ running = FALSE /\ stopping = FALSE
    /\ child = "none" /\ timer = FALSE
    /\ prev = {} /\ log = <<>> /\ shown = {}

\* A mutant: a failed query is the last one.
EmitFailureForGood ==
    /\ shown' = {Failure}
    /\ timer' = FALSE
    /\ UNCHANGED <<prev, log>>

\* emitFailure: the snapshot carries neither units nor changes.
EmitFailure ==
    /\ shown' = {Failure}
    /\ timer' = TRUE
    /\ UNCHANGED <<prev, log>>

\* beginQuery, with systemctl on the path or not.
BeginQuery ==
    IF stopping THEN UNCHANGED <<running, child, prev, log, shown>> /\ timer' = FALSE
    ELSE \/ running' = TRUE /\ child' = "starting" /\ timer' = FALSE
            /\ UNCHANGED <<prev, log, shown>>
         \/ EmitFailure /\ UNCHANGED <<running, child>>

\* start() has one caller, the thread's started signal.
Start ==
    /\ shown = {} /\ ~running /\ ~timer /\ child = "none"
    /\ BeginQuery
    /\ UNCHANGED stopping

OnTimeout ==
    /\ timer
    /\ BeginQuery
    /\ UNCHANGED stopping

OnStarted ==
    /\ child = "starting"
    /\ child' = "alive"
    /\ UNCHANGED <<running, stopping, timer, prev, log, shown>>

\* onErrorOccurred(FailedToStart); other errors are ignored.
OnStartFailure ==
    /\ child = "starting"
    /\ child' = "none"
    /\ running' = FALSE
    /\ EmitFailure
    /\ UNCHANGED stopping

\* onFinished after exit code 0: the log grows only when there is a listing
\* to compare with.
Succeed(units) ==
    /\ log' \in IF prev = {} THEN {log} ELSE {Logged(DiffServices(p, units)) : p \in prev}
    /\ prev' = {units}
    /\ shown' = {[available |-> TRUE, units |-> units,
                failedCount |-> FailedCount(units), log |-> log']}
    /\ timer' = TRUE

\* onFinished: also reached from the nested waits of stop().
OnFinished ==
    /\ child = "alive" /\ running
    /\ running' = FALSE /\ child' = "none"
    /\ \/ \E units \in Listings : Succeed(units)
       \/ EmitFailure
    /\ UNCHANGED stopping

\* stop() asks the child to leave and waits 700 ms for it; it does not touch
\* m_running, so the exit is handled as any other.
Stop ==
    /\ ~stopping
    /\ stopping' = TRUE
    /\ timer' = FALSE
    /\ UNCHANGED <<running, child, prev, log, shown>>

Next ==
    \/ Start \/ OnTimeout \/ OnStarted \/ OnStartFailure \/ OnFinished \/ Stop

(***************************************************************************)
(* The log is what the change card shows: for every unit its entries chain  *)
(* from one state to the next, newest first, and the newest one leads to    *)
(* the listing shown last, over failed queries and a trimmed tail.          *)
(***************************************************************************)
ServiceLogTellsUnits ==
    \A i \in DOMAIN log :
        LET newer == {j \in 1..(i - 1) : log[j].unit = log[i].unit}
        IN  IF newer = {} THEN \A p \in prev : log[i].to = StateIn(p, log[i].unit)
            ELSE log[Max(newer)].from = log[i].to

Fairness == WF_vars(Start) /\ WF_vars(OnTimeout) /\ WF_vars(OnStarted \/ OnStartFailure)

Spec == Init /\ [][Next]_vars /\ Fairness
=============================================================================
