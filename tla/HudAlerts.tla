----------------------------- MODULE HudAlerts -----------------------------
(***************************************************************************)
(* cpp/src/HudWindow.cpp, the alert path.  Four sources send snapshots to  *)
(* the window, each at its own pace; every one of them overwrites its own  *)
(* fields of m_alertInput and then runs all the rules and the incident     *)
(* tracker over all the fields.                                            *)
(*                                                                         *)
(* The wall clock (currentMSecsSinceEpoch) may jump in either direction.   *)
(***************************************************************************)
EXTENDS AlertEngine, IncidentTracker

CONSTANTS
    Sources,       \* the slots: "sample", "kube", "services", "journal"
    SourceOf,      \* the slot that writes the field of a rule
    Latched,       \* the rules whose field is valid for ever once it was valid
    Clock,         \* bound: the wall clock times
    MaxIncidents   \* bound: incidents ever opened

ASSUME HudAssumption ==
    /\ SourceOf \in [Rules -> Sources]
    /\ Latched \subseteq Rules
    /\ Clock \subseteq Int
    /\ MaxIncidents \in Nat
    /\ IsFiniteSet(Rules)

VARIABLES
    input,       \* m_alertInput: the reading of each rule
    streak,      \* m_alerts.m_state[rule].streak
    firing,      \* the rules with m_alerts.m_state[rule].firing
    active,      \* the rules in m_alerts.m_active
    sent,        \* the rules handed to the notifier by the last evaluation
    incidents,   \* m_incidents.m_incidents
    nextId,      \* m_incidents.m_nextId
    now,         \* the time of the last evaluation
    breaches     \* history: breaching snapshots in a row of the rule's own source

vars == <<input, streak, firing, active, sent, incidents, nextId, now, breaches>>

\* Mutant: the engine reports every alert that is active.
SentAfterAll(firingNow) == firingNow

\* The alerts update() returns, in a pass after which firingNow are firing.
SentAfter(firingNow) == firingNow \ firing

\* evaluateAlerts, over the input left by the slot that called it.
EvaluateAlerts ==
    /\ streak' = StreakAfter(streak, input')
    /\ firing' = Firing(streak', input')
    /\ sent' = SentAfter(firing')
    /\ active' = firing'
    /\ now' \in Clock
    /\ incidents' = IncidentsAfter(incidents, nextId, active', now')
    /\ nextId' = NextIdAfter(incidents, nextId, active')
    /\ nextId' <= MaxIncidents + 1

\* What a snapshot of its source can make of a rule's field.
Readable(r) ==
    IF r \in Latched
    THEN {input[r], "normal", "breach"}
    ELSE Readings

\* setSnapshot, setKubeSnapshot, setServicesSnapshot and setJournalSnapshot.
SetSnapshot(source) ==
    /\ input' \in [Rules -> Readings]
    /\ \A r \in Rules :
          input'[r] \in IF SourceOf[r] = source THEN Readable(r) ELSE {input[r]}
    /\ breaches' = [r \in Rules |->
          IF SourceOf[r] = source
          THEN StreakAfter(breaches, input')[r]
          ELSE breaches[r]]
    /\ EvaluateAlerts

Init ==
    /\ input = [r \in Rules |-> "invalid"]
    /\ streak = [r \in Rules |-> 0]
    /\ firing = {} /\ active = {} /\ sent = {}
    /\ incidents = {}
    /\ nextId = 1
    /\ now \in Clock
    /\ breaches = [r \in Rules |-> 0]

Next == \E source \in Sources : SetSnapshot(source)

Spec == Init /\ [][Next]_vars

-----------------------------------------------------------------------------
(* Correctness.                                                            *)

Incidents ==
    [id : Nat \ {0}, key : Rules, open : BOOLEAN, lastSeen : Clock]

\* Every variable keeps its type.
TypeOK ==
    /\ input \in [Rules -> Readings]
    /\ streak \in [Rules -> Nat] /\ breaches \in [Rules -> Nat]
    /\ firing \in SUBSET Rules /\ active \in SUBSET Rules /\ sent \in SUBSET Rules
    /\ incidents \in SUBSET Incidents
    /\ nextId \in Nat \ {0}
    /\ now \in Clock

\* "alerts sharing a group_by key are folded into a single incident"
\* (IncidentStatus.h:22): a rule has at most one open incident, however it
\* flaps, whichever snapshots arrive and wherever the clock jumps.
OneOpenPerRule ==
    \A i, j \in incidents : i.open /\ j.open /\ i.key = j.key => i = j

\* What is on the list of active alerts is on the list of incidents, open and
\* dated now: neither the resolution nor the cap can take it away.
ActiveHasIncident ==
    \A r \in active : \E i \in incidents : i.open /\ i.key = r /\ i.lastSeen = now

\* Ids are never reused, so a resolved incident is never open again and two
\* incidents are never mistaken for each other.
IdsAreFresh ==
    /\ \A i \in incidents : i.id < nextId
    /\ \A i, j \in incidents : i.id = j.id => i = j

\* An open incident leaves the list only by resolving, and only when the alert
\* was silent; it never loses its date or its rule.
OpenIsKept ==
    [][\A i \in incidents : i.open =>
          \/ \E j \in incidents' : j.id = i.id /\ j.key = i.key /\ j.open
          \/ i.key \notin active' /\ now' - i.lastSeen >= ResolveAfter]_vars

\* At most KeepResolved resolved incidents are kept.
HistoryIsBounded == Cardinality({i \in incidents : ~ i.open}) <= KeepResolved

\* An alert is notified exactly when it becomes active: not again while it
\* stays, however many snapshots of other sources evaluate it meanwhile.
NotifiedOnce == [][sent' = active' \ active]_vars

\* A metric that its own source stopped vouching for raises no alert, except the
\* latched ones: a last snapshot without a value ends the alert at once.
InvalidIsSilent ==
    \A r \in active : input[r] = "breach" /\ breaches[r] > 0

\* An alert needs `sustained` "consecutive breaches" (AlertEngine.h:13) of its
\* own metric: as many snapshots of its source in a row that breach.
FiringIsSustained == \A r \in active : breaches[r] >= Sustained[r]
=============================================================================
