-------------------------- MODULE HudAlertsProofs --------------------------
(***************************************************************************)
(* Theorems about HudAlerts for every table of rules, every assignment of  *)
(* rules to sources, every resolution time and history length, and a wall  *)
(* clock that jumps as it likes.                                           *)
(***************************************************************************)
EXTENDS HudAlerts, FiniteSetTheorems, TLAPS

OneOpen(I) == \A i, j \in I : i.open /\ j.open /\ i.key = j.key => i = j

FreshIds(I, n) ==
    /\ \A i \in I : i.id < n
    /\ \A i, j \in I : i.id = j.id => i = j

-----------------------------------------------------------------------------
(* The ids of the incidents one update opens.                              *)

\* Distinct rules of one update get distinct ids, all below the next counter.
LEMMA RanksDiffer ==
    ASSUME NEW S \in SUBSET Rules, NEW p \in S, NEW r \in S, p < r
    PROVE  Cardinality({q \in S : q < p}) < Cardinality({q \in S : q < r})
<1> DEFINE P == {q \in S : q < p}
           R == {q \in S : q < r}
<1>1. S \subseteq Nat /\ IsFiniteSet(R) /\ IsFiniteSet(P)
  BY HudAssumption, RulesAssumption, FS_Subset
<1>2. p \notin P /\ p \in R /\ P \subseteq R
  <2>1. p \in Nat /\ r \in Nat /\ \A q \in S : q \in Nat
    BY <1>1
  <2>2. \A q \in S : q < p => q < r
    BY <2>1
  <2>3. P \subseteq R
    BY <2>2
  <2>4. p \notin P
    BY <2>1
  <2>5. p \in R
    OBVIOUS
  <2>. QED  BY <2>3, <2>4, <2>5
<1>3. IsFiniteSet(P \cup {p}) /\ Cardinality(P \cup {p}) = Cardinality(P) + 1
  BY <1>1, <1>2, FS_AddElement
<1>4. P \cup {p} \subseteq R
  BY <1>2
<1>5. Cardinality(P \cup {p}) <= Cardinality(R)
  BY <1>1, <1>4, FS_Subset
<1>6. Cardinality(P) \in Nat /\ Cardinality(R) \in Nat
  BY <1>1, FS_CardinalityType
<1>7. Cardinality(P) < Cardinality(R)
  BY <1>3, <1>5, <1>6
<1>. QED  BY <1>7

LEMMA RanksBounded ==
    ASSUME NEW S \in SUBSET Rules, NEW r \in S
    PROVE  /\ Cardinality({q \in S : q < r}) \in Nat
           /\ Cardinality(S) \in Nat
           /\ Cardinality({q \in S : q < r}) < Cardinality(S)
<1> DEFINE R == {q \in S : q < r}
<1>1. S \subseteq Nat /\ IsFiniteSet(S) /\ IsFiniteSet(R)
  BY HudAssumption, RulesAssumption, FS_Subset
<1>2. r \notin R /\ R \cup {r} \subseteq S
  BY <1>1
<1>3. Cardinality(R \cup {r}) = Cardinality(R) + 1
  BY <1>1, <1>2, FS_AddElement
<1>4. Cardinality(R \cup {r}) <= Cardinality(S)
  BY <1>1, <1>2, FS_Subset
<1>5. Cardinality(R) \in Nat /\ Cardinality(S) \in Nat
  BY <1>1, FS_CardinalityType
<1>6. Cardinality(R) < Cardinality(S)
  BY <1>3, <1>4, <1>5
<1>. QED  BY <1>5, <1>6

-----------------------------------------------------------------------------
(* The three loops of IncidentTracker::update.                             *)

\* The record an incident becomes in the first loop.
LEMMA SeenRecord ==
    ASSUME NEW I \in SUBSET Incidents, NEW A \in SUBSET Rules, NEW t \in Clock,
           NEW j \in Seen(I, A, t)
    PROVE  \E i \in I : /\ j = IF i.key \in A /\ IsMatch(I, i)
                               THEN [i EXCEPT !.lastSeen = t] ELSE i
                        /\ j \in Incidents
                        /\ j.id = i.id /\ j.key = i.key /\ j.open = i.open
<1>1. PICK i \in I : j = IF i.key \in A /\ IsMatch(I, i)
                         THEN [i EXCEPT !.lastSeen = t] ELSE i
  BY DEF Seen
<1>2. i \in Incidents
  OBVIOUS
<1>. QED  BY <1>1, <1>2 DEF Incidents

\* How many incidents the same update opened before the one of rule r.
Rank(I, A, r) == Cardinality({q \in Unmatched(I, A) : q < r})

\* The record an alert without an open incident becomes.
LEMMA OpenedRecord ==
    ASSUME NEW I \in SUBSET Incidents, NEW A \in SUBSET Rules, NEW t \in Clock,
           NEW n \in Nat \ {0}, NEW j \in Opened(I, n, A, t)
    PROVE  /\ j \in Incidents /\ j.open /\ j.lastSeen = t
           /\ j.key \in Unmatched(I, A)
           /\ j.id = n + Rank(I, A, j.key)
           /\ n <= j.id /\ j.id < NextIdAfter(I, n, A)
<1>1. PICK r \in Unmatched(I, A) :
          j = [id |-> n + Rank(I, A, r), key |-> r, open |-> TRUE, lastSeen |-> t]
  BY DEF Opened, Rank
<1>2. Unmatched(I, A) \in SUBSET Rules
  BY DEF Unmatched
<1>3. /\ Rank(I, A, r) \in Nat
      /\ Cardinality(Unmatched(I, A)) \in Nat
      /\ Rank(I, A, r) < Cardinality(Unmatched(I, A))
  BY <1>2, RanksBounded DEF Rank
<1>4. j.key = r /\ j.open /\ j.lastSeen = t
  BY <1>1
<1>5. /\ j.id = n + Rank(I, A, r)
      /\ j.id \in Nat \ {0}
  BY <1>1, <1>3
<1>6. n <= j.id /\ j.id < NextIdAfter(I, n, A)
  BY <1>3, <1>5 DEF NextIdAfter
<1>7. j \in Incidents
  BY <1>1, <1>2, <1>5 DEF Incidents
<1>. QED  BY <1>1, <1>4, <1>5, <1>6, <1>7

\* The first loop keeps the types, and one open incident for each rule.
LEMMA FoldOneOpen ==
    ASSUME NEW I \in SUBSET Incidents, NEW A \in SUBSET Rules, NEW t \in Clock,
           NEW n \in Nat \ {0}, OneOpen(I)
    PROVE  Fold(I, n, A, t) \in SUBSET Incidents /\ OneOpen(Fold(I, n, A, t))
<1>1. Fold(I, n, A, t) \in SUBSET Incidents
  BY SeenRecord, OpenedRecord DEF Fold
<1>2. ASSUME NEW j \in Seen(I, A, t), NEW k \in Seen(I, A, t),
             j.open, k.open, j.key = k.key
      PROVE  j = k
  <2>1. PICK a \in I : /\ j = IF a.key \in A /\ IsMatch(I, a)
                              THEN [a EXCEPT !.lastSeen = t] ELSE a
                       /\ j \in Incidents
                       /\ j.id = a.id /\ j.key = a.key /\ j.open = a.open
    BY SeenRecord
  <2>2. PICK b \in I : /\ k = IF b.key \in A /\ IsMatch(I, b)
                              THEN [b EXCEPT !.lastSeen = t] ELSE b
                       /\ k \in Incidents
                       /\ k.id = b.id /\ k.key = b.key /\ k.open = b.open
    BY SeenRecord
  <2>3. a = b
    BY <1>2, <2>1, <2>2 DEF OneOpen
  <2>. QED  BY <2>1, <2>2, <2>3
<1>3. ASSUME NEW j \in Seen(I, A, t), NEW k \in Opened(I, n, A, t),
             j.open, j.key = k.key
      PROVE  FALSE
  <2>1. PICK a \in I : /\ j = IF a.key \in A /\ IsMatch(I, a)
                              THEN [a EXCEPT !.lastSeen = t] ELSE a
                       /\ j \in Incidents
                       /\ j.id = a.id /\ j.key = a.key /\ j.open = a.open
    BY SeenRecord
  <2>2. OpenOf(I, k.key) = {}
    BY OpenedRecord DEF Unmatched
  <2>. QED  BY <1>3, <2>1, <2>2 DEF OpenOf
<1>4. ASSUME NEW j \in Opened(I, n, A, t), NEW k \in Opened(I, n, A, t), j.key = k.key
      PROVE  j = k
  <2>1. j.id = k.id /\ j.open = k.open /\ j.lastSeen = k.lastSeen
    <3>1. j.id = n + Rank(I, A, j.key) /\ j.open /\ j.lastSeen = t /\ j \in Incidents
      BY OpenedRecord
    <3>2. k.id = n + Rank(I, A, k.key) /\ k.open /\ k.lastSeen = t /\ k \in Incidents
      BY OpenedRecord
    <3>. QED  BY <1>4, <3>1, <3>2 DEF Incidents
  <2>2. j \in Incidents /\ k \in Incidents
    BY OpenedRecord
  <2>. QED  BY <1>4, <2>1, <2>2 DEF Incidents
<1>. QED  BY <1>1, <1>2, <1>3, <1>4 DEF OneOpen, Fold

\* The first loop gives every active rule an open incident dated now.
LEMMA FoldCovers ==
    ASSUME NEW I \in SUBSET Incidents, NEW A \in SUBSET Rules, NEW t \in Clock,
           NEW n \in Nat \ {0}, OneOpen(I), NEW r \in A
    PROVE  \E j \in Fold(I, n, A, t) : j.open /\ j.key = r /\ j.lastSeen = t
<1>1. CASE OpenOf(I, r) = {}
  <2>1. r \in Unmatched(I, A)
    BY <1>1 DEF Unmatched
  <2> DEFINE j == [id |-> n + Cardinality({q \in Unmatched(I, A) : q < r}),
                   key |-> r, open |-> TRUE, lastSeen |-> t]
  <2>2. j \in Opened(I, n, A, t)
    BY <2>1 DEF Opened
  <2>3. j.open /\ j.key = r /\ j.lastSeen = t
    OBVIOUS
  <2>. QED  BY <2>2, <2>3 DEF Fold
<1>2. CASE OpenOf(I, r) # {}
  <2>1. PICK i \in I : i.open /\ i.key = r
    BY <1>2 DEF OpenOf
  <2>2. i.id <= i.id /\ i \in Incidents
    BY DEF Incidents
  <2>3. IsMatch(I, i)
    BY <2>1, <2>2 DEF IsMatch, OpenOf, OneOpen
  <2>4. [i EXCEPT !.lastSeen = t] \in Seen(I, A, t)
    BY <2>1, <2>3 DEF Seen
  <2>5. /\ [i EXCEPT !.lastSeen = t].open
        /\ [i EXCEPT !.lastSeen = t].key = r
        /\ [i EXCEPT !.lastSeen = t].lastSeen = t
    BY <2>1, <2>2 DEF Incidents
  <2>. QED  BY <2>4, <2>5 DEF Fold
<1>. QED  BY <1>1, <1>2

\* The first loop never gives an id twice.
LEMMA FoldFresh ==
    ASSUME NEW I \in SUBSET Incidents, NEW A \in SUBSET Rules, NEW t \in Clock,
           NEW n \in Nat \ {0}, FreshIds(I, n)
    PROVE  /\ NextIdAfter(I, n, A) \in Nat \ {0}
           /\ FreshIds(Fold(I, n, A, t), NextIdAfter(I, n, A))
<1>1. Unmatched(I, A) \in SUBSET Rules
  BY DEF Unmatched
<1>2. Cardinality(Unmatched(I, A)) \in Nat
  BY <1>1, HudAssumption, FS_Subset, FS_CardinalityType
<1>3. NextIdAfter(I, n, A) \in Nat \ {0} /\ n <= NextIdAfter(I, n, A)
  BY <1>2 DEF NextIdAfter
<1>4. ASSUME NEW j \in Seen(I, A, t)
      PROVE  j.id < n /\ j.id < NextIdAfter(I, n, A)
  <2>1. PICK a \in I : /\ j = IF a.key \in A /\ IsMatch(I, a)
                              THEN [a EXCEPT !.lastSeen = t] ELSE a
                       /\ j \in Incidents
                       /\ j.id = a.id /\ j.key = a.key /\ j.open = a.open
    BY SeenRecord
  <2>. QED  BY <1>3, <2>1 DEF FreshIds, Incidents
<1>5. ASSUME NEW j \in Seen(I, A, t), NEW k \in Seen(I, A, t), j.id = k.id
      PROVE  j = k
  <2>1. PICK a \in I : /\ j = IF a.key \in A /\ IsMatch(I, a)
                              THEN [a EXCEPT !.lastSeen = t] ELSE a
                       /\ j \in Incidents
                       /\ j.id = a.id /\ j.key = a.key /\ j.open = a.open
    BY SeenRecord
  <2>2. PICK b \in I : /\ k = IF b.key \in A /\ IsMatch(I, b)
                              THEN [b EXCEPT !.lastSeen = t] ELSE b
                       /\ k \in Incidents
                       /\ k.id = b.id /\ k.key = b.key /\ k.open = b.open
    BY SeenRecord
  <2>3. a = b
    BY <1>5, <2>1, <2>2 DEF FreshIds
  <2>. QED  BY <2>1, <2>2, <2>3
<1>6. ASSUME NEW j \in Seen(I, A, t), NEW k \in Opened(I, n, A, t)
      PROVE  j.id # k.id
  <2>1. j.id < n /\ n <= k.id /\ j \in Incidents /\ k \in Incidents
    BY <1>4, SeenRecord, OpenedRecord
  <2>. QED  BY <2>1 DEF Incidents
<1>7. ASSUME NEW j \in Opened(I, n, A, t), NEW k \in Opened(I, n, A, t), j.id = k.id
      PROVE  j = k
  <2>1. /\ j.key \in Unmatched(I, A) /\ j.id = n + Rank(I, A, j.key)
        /\ j.open /\ j.lastSeen = t /\ j \in Incidents
    BY OpenedRecord
  <2>2. /\ k.key \in Unmatched(I, A) /\ k.id = n + Rank(I, A, k.key)
        /\ k.open /\ k.lastSeen = t /\ k \in Incidents
    BY OpenedRecord
  <2>3. \A r \in Unmatched(I, A) : Rank(I, A, r) \in Nat
    BY <1>1, RanksBounded DEF Rank
  <2>4. \A p, r \in Unmatched(I, A) : p < r => Rank(I, A, p) < Rank(I, A, r)
    BY <1>1, RanksDiffer DEF Rank
  <2>5. Rank(I, A, j.key) = Rank(I, A, k.key)
    <3>1. Rank(I, A, j.key) \in Nat /\ Rank(I, A, k.key) \in Nat
      BY <2>1, <2>2, <2>3
    <3>2. n + Rank(I, A, j.key) = n + Rank(I, A, k.key)
      BY <1>7, <2>1, <2>2
    <3>. QED  BY <3>1, <3>2
  <2>6. j.key \in Nat /\ k.key \in Nat
    BY <1>1, <2>1, <2>2, RulesAssumption
  <2>7. j.key = k.key
    BY <2>1, <2>2, <2>3, <2>4, <2>5, <2>6
  <2>. QED  BY <1>7, <2>1, <2>2, <2>7 DEF Incidents
<1>8. ASSUME NEW j \in Opened(I, n, A, t)
      PROVE  j.id < NextIdAfter(I, n, A)
  BY OpenedRecord
<1>9. FreshIds(Fold(I, n, A, t), NextIdAfter(I, n, A))
  BY <1>4, <1>5, <1>6, <1>7, <1>8 DEF FreshIds, Fold
<1>. QED  BY <1>3, <1>9

\* The other two loops only close and remove.
LEMMA ClosedRecord ==
    ASSUME NEW I \in SUBSET Incidents, NEW t \in Clock, NEW j \in Trim(Resolve(I, t))
    PROVE  \E i \in I : /\ j = [i EXCEPT !.open = i.open /\ t - i.lastSeen < ResolveAfter]
                        /\ j \in Incidents
                        /\ j.id = i.id /\ j.key = i.key /\ j.lastSeen = i.lastSeen
                        /\ j.open => i.open
<1>1. PICK i \in I : j = [i EXCEPT !.open = i.open /\ t - i.lastSeen < ResolveAfter]
  BY DEF Trim, Resolve
<1>2. i \in Incidents
  OBVIOUS
<1>. QED  BY <1>1, <1>2 DEF Incidents

\* An open incident seen less than ResolveAfter ago stays as it is.
LEMMA OpenStays ==
    ASSUME NEW I \in SUBSET Incidents, NEW t \in Clock,
           NEW i \in I, i.open, t - i.lastSeen < ResolveAfter
    PROVE  i \in Trim(Resolve(I, t))
<1>1. i \in Incidents
  OBVIOUS
<1>2. [i EXCEPT !.open = i.open /\ t - i.lastSeen < ResolveAfter] = i
  BY <1>1 DEF Incidents
<1>3. i \in Resolve(I, t)
  BY <1>2 DEF Resolve
<1>. QED  BY <1>3 DEF Trim

-----------------------------------------------------------------------------
(* The window.                                                             *)

IncidentInv ==
    /\ OneOpenPerRule
    /\ ActiveHasIncident
    /\ IdsAreFresh

LEMMA TypeInit == Init => TypeOK
BY DEF Init, TypeOK, Readings

LEMMA TypeStep ==
    ASSUME TypeOK, [Next]_vars
    PROVE  TypeOK'
<1>1. CASE Next
  <2>1. PICK source \in Sources : SetSnapshot(source)
    BY <1>1 DEF Next
  <2>2. input' \in [Rules -> Readings] /\ now' \in Clock
    BY <2>1 DEF SetSnapshot, EvaluateAlerts
  <2>3. ASSUME NEW f \in [Rules -> Nat]
        PROVE  StreakAfter(f, input') \in [Rules -> Nat]
    BY RulesAssumption DEF StreakAfter
  <2>4. streak' \in [Rules -> Nat]
    BY <2>1, <2>3 DEF SetSnapshot, EvaluateAlerts, TypeOK
  <2>5. breaches' \in [Rules -> Nat]
    BY <2>1, <2>3 DEF SetSnapshot, TypeOK
  <2>6. firing' \in SUBSET Rules /\ active' \in SUBSET Rules /\ sent' \in SUBSET Rules
    BY <2>1 DEF SetSnapshot, EvaluateAlerts, Firing, Breaching, SentAfter
  <2>7. /\ incidents' = Trim(Resolve(Fold(incidents, nextId, active', now'), now'))
        /\ nextId' = NextIdAfter(incidents, nextId, active')
    BY <2>1 DEF SetSnapshot, EvaluateAlerts, IncidentsAfter
  <2>8. Fold(incidents, nextId, active', now') \in SUBSET Incidents
    BY <2>2, <2>6, SeenRecord, OpenedRecord DEF Fold, TypeOK
  <2>9. incidents' \in SUBSET Incidents
    BY <2>2, <2>7, <2>8, ClosedRecord
  <2>10. nextId' \in Nat \ {0}
    <3>1. Unmatched(incidents, active') \in SUBSET Rules
      BY <2>6 DEF Unmatched
    <3>2. Cardinality(Unmatched(incidents, active')) \in Nat
      BY <3>1, HudAssumption, FS_Subset, FS_CardinalityType
    <3>. QED  BY <2>7, <3>2 DEF NextIdAfter, TypeOK
  <2>. QED  BY <2>2, <2>4, <2>5, <2>6, <2>9, <2>10 DEF TypeOK
<1>2. CASE UNCHANGED vars
  BY <1>2 DEF vars, TypeOK
<1>. QED  BY <1>1, <1>2

\* Every variable keeps its type.
THEOREM TypeCorrect == Spec => []TypeOK
<1>1. TypeOK /\ [Next]_vars => TypeOK'
  BY TypeStep
<1>. QED  BY <1>1, TypeInit, PTL DEF Spec

LEMMA IncidentStep ==
    ASSUME TypeOK, IncidentInv, [Next]_vars
    PROVE  IncidentInv'
<1>1. CASE Next
  <2> DEFINE F == Fold(incidents, nextId, active', now')
  <2>1. PICK source \in Sources : SetSnapshot(source)
    BY <1>1 DEF Next
  <2>2. /\ incidents' = Trim(Resolve(F, now'))
        /\ nextId' = NextIdAfter(incidents, nextId, active')
    BY <2>1 DEF SetSnapshot, EvaluateAlerts, IncidentsAfter
  <2>3. TypeOK'
    BY TypeStep
  <2>4. /\ incidents \in SUBSET Incidents /\ nextId \in Nat \ {0}
        /\ active' \in SUBSET Rules /\ now' \in Clock
    BY <2>3 DEF TypeOK
  <2>5. OneOpen(incidents) /\ FreshIds(incidents, nextId)
    BY DEF IncidentInv, OneOpenPerRule, OneOpen, IdsAreFresh, FreshIds
  <2>6. F \in SUBSET Incidents /\ OneOpen(F)
    BY <2>4, <2>5, FoldOneOpen
  <2>7. FreshIds(F, nextId')
    BY <2>2, <2>4, <2>5, FoldFresh
  <2>8. \A r \in active' : \E j \in F : j.open /\ j.key = r /\ j.lastSeen = now'
    BY <2>4, <2>5, FoldCovers
  <2> HIDE DEF F
  <2>9. OneOpenPerRule'
    <3> SUFFICES ASSUME NEW j \in incidents', NEW k \in incidents',
                        j.open, k.open, j.key = k.key
                 PROVE  j = k
      BY DEF OneOpenPerRule
    <3>1. PICK a \in F :
              /\ j = [a EXCEPT !.open = a.open /\ now' - a.lastSeen < ResolveAfter]
              /\ j \in Incidents
              /\ j.id = a.id /\ j.key = a.key /\ j.lastSeen = a.lastSeen
              /\ j.open => a.open
      BY <2>2, <2>4, <2>6, ClosedRecord
    <3>2. PICK b \in F :
              /\ k = [b EXCEPT !.open = b.open /\ now' - b.lastSeen < ResolveAfter]
              /\ k \in Incidents
              /\ k.id = b.id /\ k.key = b.key /\ k.lastSeen = b.lastSeen
              /\ k.open => b.open
      BY <2>2, <2>4, <2>6, ClosedRecord
    <3>3. a = b
      BY <2>6, <3>1, <3>2 DEF OneOpen
    <3>. QED  BY <3>1, <3>2, <3>3
  <2>10. IdsAreFresh'
    <3>1. ASSUME NEW j \in incidents', NEW k \in incidents', j.id = k.id
          PROVE  j = k
      <4>1. PICK a \in F :
                /\ j = [a EXCEPT !.open = a.open /\ now' - a.lastSeen < ResolveAfter]
                /\ j \in Incidents
                /\ j.id = a.id /\ j.key = a.key /\ j.lastSeen = a.lastSeen
                /\ j.open => a.open
        BY <2>2, <2>4, <2>6, ClosedRecord
      <4>2. PICK b \in F :
                /\ k = [b EXCEPT !.open = b.open /\ now' - b.lastSeen < ResolveAfter]
                /\ k \in Incidents
                /\ k.id = b.id /\ k.key = b.key /\ k.lastSeen = b.lastSeen
                /\ k.open => b.open
        BY <2>2, <2>4, <2>6, ClosedRecord
      <4>3. a = b
        BY <2>7, <3>1, <4>1, <4>2 DEF FreshIds
      <4>. QED  BY <4>1, <4>2, <4>3
    <3>2. ASSUME NEW j \in incidents'
          PROVE  j.id < nextId'
      <4>1. PICK a \in F :
                /\ j = [a EXCEPT !.open = a.open /\ now' - a.lastSeen < ResolveAfter]
                /\ j \in Incidents
                /\ j.id = a.id /\ j.key = a.key /\ j.lastSeen = a.lastSeen
                /\ j.open => a.open
        BY <2>2, <2>4, <2>6, ClosedRecord
      <4>. QED  BY <2>7, <4>1 DEF FreshIds
    <3>. QED  BY <3>1, <3>2 DEF IdsAreFresh
  <2>11. ActiveHasIncident'
    <3> SUFFICES ASSUME NEW r \in active'
                 PROVE  \E i \in incidents' : i.open /\ i.key = r /\ i.lastSeen = now'
      BY DEF ActiveHasIncident
    <3>1. PICK j \in F : j.open /\ j.key = r /\ j.lastSeen = now'
      BY <2>8
    <3>2. now' - j.lastSeen < ResolveAfter
      <4>1. now' \in Int /\ ResolveAfter \in Nat \ {0}
        BY <2>4, HudAssumption, IncidentAssumption
      <4>2. \A t \in Int, d \in Nat \ {0} : t - t < d
        OBVIOUS
      <4>3. now' - now' < ResolveAfter
        BY <4>1, <4>2, Zenon
      <4>. QED  BY <3>1, <4>3
    <3>3. j \in incidents'
      BY <2>2, <2>4, <2>6, <3>1, <3>2, OpenStays
    <3>. QED  BY <3>1, <3>3
  <2>. QED  BY <2>9, <2>10, <2>11 DEF IncidentInv
<1>2. CASE UNCHANGED vars
  BY <1>2 DEF vars, IncidentInv, OneOpenPerRule, ActiveHasIncident, IdsAreFresh
<1>. QED  BY <1>1, <1>2

LEMMA IncidentAlways == Spec => []IncidentInv
<1>1. Init => IncidentInv
  BY DEF Init, IncidentInv, OneOpenPerRule, ActiveHasIncident, IdsAreFresh
<1>2. TypeOK /\ IncidentInv /\ [Next]_vars => IncidentInv'
  BY IncidentStep
<1>. QED  BY <1>1, <1>2, TypeCorrect, PTL DEF Spec

\* A rule never has two open incidents (IncidentTracker::update, first loop).
THEOREM OneOpenAlways == Spec => []OneOpenPerRule
<1>1. IncidentInv => OneOpenPerRule
  BY DEF IncidentInv
<1>. QED  BY <1>1, IncidentAlways, PTL

\* Every active alert has an open incident dated now, whatever the resolution
\* time, the length of the history and the clock.
THEOREM ActiveAlwaysHasIncident == Spec => []ActiveHasIncident
<1>1. IncidentInv => ActiveHasIncident
  BY DEF IncidentInv
<1>. QED  BY <1>1, IncidentAlways, PTL

\* No id is ever given to two incidents of the list, even when one update opens
\* several and others have been trimmed away.
THEOREM IdsAlwaysFresh == Spec => []IdsAreFresh
<1>1. IncidentInv => IdsAreFresh
  BY DEF IncidentInv
<1>. QED  BY <1>1, IncidentAlways, PTL

\* An alert is notified exactly when it becomes active: the engine's firing flag
\* and its list of active alerts never differ (AlertEngine::update).
THEOREM NotifiedOnceAlways == Spec => NotifiedOnce
<1> DEFINE Same == firing = active
<1>1. Init => Same
  BY DEF Init
<1>2. Same /\ [Next]_vars => Same'
  BY DEF Next, SetSnapshot, EvaluateAlerts, vars
<1>3. Same /\ [Next]_vars => [sent' = active' \ active]_vars
  BY DEF Next, SetSnapshot, EvaluateAlerts, SentAfter
<1>4. QED
  BY <1>1, <1>2, <1>3, PTL DEF Spec, NotifiedOnce

\* An active alert breaches in the input that is kept, and its own source said so
\* last: a snapshot that stops vouching for a value ends the alert at once.
THEOREM InvalidAlwaysSilent == Spec => []InvalidIsSilent
<1> DEFINE Vouched == /\ active \subseteq Breaching(input)
                      /\ \A r \in Rules : input[r] = "breach" => breaches[r] > 0
<1>1. Init => Vouched
  BY DEF Init
<1>2. TypeOK /\ Vouched /\ [Next]_vars => Vouched'
  <2> SUFFICES ASSUME TypeOK, Vouched, [Next]_vars  PROVE Vouched'
    OBVIOUS
  <2>1. CASE Next
    <3>1. PICK source \in Sources : SetSnapshot(source)
      BY <2>1 DEF Next
    <3>2. active' \subseteq Breaching(input)'
      BY <3>1 DEF SetSnapshot, EvaluateAlerts, Firing, Breaching
    <3> SUFFICES ASSUME NEW r \in Rules, input'[r] = "breach"  PROVE breaches'[r] > 0
      BY <3>2
    <3>3. breaches[r] \in Nat /\ Sustained[r] \in Nat \ {0}
      BY RulesAssumption DEF TypeOK
    <3>4. CASE SourceOf[r] = source
      <4>1. breaches'[r] = StreakAfter(breaches, input')[r]
        BY <3>1, <3>4 DEF SetSnapshot
      <4>2. r \in Breaching(input')
        BY DEF Breaching
      <4>3. StreakAfter(breaches, input')[r] =
                IF breaches[r] < Sustained[r] THEN breaches[r] + 1 ELSE Sustained[r]
        BY <4>2 DEF StreakAfter
      <4>. QED  BY <3>3, <4>1, <4>3
    <3>5. CASE SourceOf[r] # source
      <4>1. breaches'[r] = breaches[r] /\ input'[r] = input[r]
        BY <3>1, <3>5 DEF SetSnapshot
      <4>. QED  BY <4>1
    <3>. QED  BY <3>4, <3>5
  <2>2. CASE UNCHANGED vars
    BY <2>2 DEF vars, Breaching
  <2>. QED  BY <2>1, <2>2
<1>3. Vouched => InvalidIsSilent
  BY DEF InvalidIsSilent, Breaching
<1>. QED  BY <1>1, <1>2, <1>3, TypeCorrect, PTL DEF Spec

\* An open incident is only ever closed by silence: the cap on the history never
\* removes one, and no other alert or jump of the clock closes one that is seen.
THEOREM OpenIsAlwaysKept == Spec => OpenIsKept
<1> DEFINE Kept(i) ==
        \/ \E j \in incidents' : j.id = i.id /\ j.key = i.key /\ j.open
        \/ i.key \notin active' /\ now' - i.lastSeen >= ResolveAfter
<1>1. ASSUME TypeOK, IncidentInv, Next, NEW i \in incidents, i.open
      PROVE  Kept(i)
  <2> DEFINE F == Fold(incidents, nextId, active', now')
  <2>1. incidents' = Trim(Resolve(F, now'))
    BY <1>1 DEF Next, SetSnapshot, EvaluateAlerts, IncidentsAfter
  <2>2. TypeOK'
    BY <1>1, TypeStep
  <2>3. /\ incidents \in SUBSET Incidents /\ nextId \in Nat \ {0}
        /\ active' \in SUBSET Rules /\ now' \in Clock
        /\ i \in Incidents
    BY <1>1, <2>2 DEF TypeOK
  <2>4. F \in SUBSET Incidents
    BY <2>3, SeenRecord, OpenedRecord DEF Fold
  <2>5. OneOpen(incidents) /\ i.id <= i.id
    BY <1>1, <2>3 DEF IncidentInv, OneOpenPerRule, OneOpen, Incidents
  <2>6. CASE i.key \in active'
    <3>1. IsMatch(incidents, i)
      BY <1>1, <2>5 DEF IsMatch, OpenOf, OneOpen
    <3>2. [i EXCEPT !.lastSeen = now'] \in F
      BY <1>1, <2>6, <3>1 DEF Fold, Seen
    <3>3. /\ [i EXCEPT !.lastSeen = now'].open
          /\ [i EXCEPT !.lastSeen = now'].lastSeen = now'
          /\ [i EXCEPT !.lastSeen = now'].id = i.id
          /\ [i EXCEPT !.lastSeen = now'].key = i.key
      BY <1>1, <2>3 DEF Incidents
    <3>4. now' \in Int /\ ResolveAfter \in Nat \ {0}
      BY <2>3, HudAssumption, IncidentAssumption
    <3>5. \A t \in Int, d \in Nat \ {0} : t - t < d
      OBVIOUS
    <3>6. now' - now' < ResolveAfter
      BY <3>4, <3>5, Zenon
    <3> HIDE DEF F
    <3>7. [i EXCEPT !.lastSeen = now'] \in incidents'
      BY <2>1, <2>3, <2>4, <3>2, <3>3, <3>6, OpenStays
    <3>. QED  BY <3>3, <3>7
  <2>7. CASE i.key \notin active'
    <3>1. i \in F
      BY <1>1, <2>7 DEF Fold, Seen
    <3>2. i.lastSeen \in Int /\ now' \in Int /\ ResolveAfter \in Nat
      BY <2>3, HudAssumption, IncidentAssumption DEF Incidents
    <3>3. CASE now' - i.lastSeen < ResolveAfter
      <4> HIDE DEF F
      <4>1. i \in incidents'
        BY <1>1, <2>1, <2>3, <2>4, <3>1, <3>3, OpenStays
      <4>. QED  BY <1>1, <4>1
    <3>4. CASE ~ (now' - i.lastSeen < ResolveAfter)
      <4>1. now' - i.lastSeen >= ResolveAfter
        BY <3>2, <3>4
      <4>. QED  BY <2>7, <4>1
    <3>. QED  BY <3>3, <3>4
  <2>. QED  BY <2>6, <2>7
<1>2. TypeOK /\ IncidentInv /\ [Next]_vars => [\A i \in incidents : i.open => Kept(i)]_vars
  BY <1>1
<1>3. QED
  BY <1>2, TypeCorrect, IncidentAlways, PTL DEF Spec, OpenIsKept
=============================================================================
