-------------------------- MODULE IncidentTracker --------------------------
(***************************************************************************)
(* cpp/src/IncidentStatus.cpp: alerts of one rule are folded into one      *)
(* incident, which resolves after a time of silence; the resolved ones     *)
(* are kept up to a number.                                                *)
(*                                                                         *)
(* The list m_incidents is a set of records: an incident is appended with  *)
(* the next id and never moved, so the ids are the order of the list.      *)
(* Titles, counts and the texts of the timeline are left out.              *)
(***************************************************************************)
EXTENDS Integers, FiniteSets

CONSTANTS
    ResolveAfter,   \* m_resolveAfterMs
    KeepResolved    \* m_keepResolved

ASSUME IncidentAssumption ==
    /\ ResolveAfter \in Nat \ {0}
    /\ KeepResolved \in Nat

OpenOf(incidents, key) == {i \in incidents : i.open /\ i.key = key}

\* The first loop looks for the first open incident of the alert's key.
IsMatch(incidents, i) ==
    /\ i.open
    /\ \A j \in OpenOf(incidents, i.key) : i.id <= j.id

Unmatched(incidents, active) == {r \in active : OpenOf(incidents, r) = {}}

Seen(incidents, active, now) ==
    {IF i.key \in active /\ IsMatch(incidents, i) THEN [i EXCEPT !.lastSeen = now] ELSE i :
        i \in incidents}

\* Mutant: the id is taken before the counter moves past the last one given.
OpenedEarly(incidents, nextId, active, now) ==
    {[id |-> nextId - 1, key |-> r, open |-> TRUE, lastSeen |-> now] :
        r \in Unmatched(incidents, active)}

Opened(incidents, nextId, active, now) ==
    LET new == Unmatched(incidents, active)
    IN {[id |-> nextId + Cardinality({q \in new : q < r}),
         key |-> r, open |-> TRUE, lastSeen |-> now] : r \in new}

\* Mutant: every alert opens an incident, whether its rule has an open one or not.
FoldNever(incidents, nextId, active, now) ==
    incidents \cup {[id |-> nextId + Cardinality({q \in active : q < r}),
                     key |-> r, open |-> TRUE, lastSeen |-> now] : r \in active}

\* Mutant: an incident is only dated when it opens.
FoldWithoutSeeing(incidents, nextId, active, now) ==
    incidents \cup Opened(incidents, nextId, active, now)

\* The first loop: each active alert updates its incident or opens one.
Fold(incidents, nextId, active, now) ==
    Seen(incidents, active, now) \cup Opened(incidents, nextId, active, now)

\* The second loop.
Resolve(incidents, now) ==
    {[i EXCEPT !.open = i.open /\ now - i.lastSeen < ResolveAfter] : i \in incidents}

ResolvedSince(incidents, i) == {j \in incidents : ~ j.open /\ j.id > i.id}

\* Mutant: the cap counts the open incidents too.
TrimAny(incidents) ==
    {i \in incidents : Cardinality({j \in incidents : j.id > i.id}) < KeepResolved}

\* Mutant: the resolved ones are never removed.
TrimNone(incidents) == incidents

\* The last loop, from the end of the list: the newest resolved ones stay.
Trim(incidents) ==
    {i \in incidents :
        i.open \/ Cardinality(ResolvedSince(incidents, i)) < KeepResolved}

\* IncidentTracker::update: m_incidents and m_nextId after it.
IncidentsAfter(incidents, nextId, active, now) ==
    Trim(Resolve(Fold(incidents, nextId, active, now), now))

\* Mutant: the counter moves once per update, however many incidents open.
NextIdAfterOne(incidents, nextId, active) ==
    IF Unmatched(incidents, active) = {} THEN nextId ELSE nextId + 1

NextIdAfter(incidents, nextId, active) ==
    nextId + Cardinality(Unmatched(incidents, active))
=============================================================================
