--------------------------- MODULE CollectorsProofs ---------------------------
(***************************************************************************)
(* Theorems about Collectors.  The part a behaviour follows takes the steps *)
(* of its own module and the variables of that part change in no other way, *)
(* so the invariants of StreamProofs and TableProofs are those of           *)
(* Collectors.  The totals of TraceSource, StatsdSource and JournalAnalysis *)
(* are proved here: they need lemmas of both.                               *)
(***************************************************************************)
EXTENDS Collectors, StreamProofs, TableProofs

-----------------------------------------------------------------------------
RoundsInv ==
    /\ which = "synthetic" => SyntheticInv
    /\ which = "path" => PathInv
    /\ which = "tls" => Tls!EndpointsAreComplete

LEMMA RoundsInit == Init => RoundsInv
<1> SUFFICES ASSUME Init  PROVE RoundsInv
  OBVIOUS
<1>1. which = "synthetic" => Synthetic!Init
  BY Zenon DEF Init
<1>2. which = "path" => Path!Init
  BY Zenon DEF Init
<1>3. which = "tls" => Tls!Init
  BY Zenon DEF Init
<1>. QED  BY <1>1, <1>2, <1>3, SyntheticInvInit, PathInvInit, TlsInit, Zenon DEF RoundsInv

LEMMA RoundsStep == RoundsInv /\ [Next]_vars => RoundsInv'
<1> SUFFICES ASSUME RoundsInv, [Next]_vars  PROVE RoundsInv'
  OBVIOUS
<1>1. which' = which
  BY Zenon DEF Next, vars
<1>2. which = "synthetic" => [Synthetic!Next]_(Synthetic!vars)
  BY Zenon DEF Next, Step, vars, Synthetic!vars
<1>3. which = "path" => [Path!Next]_(Path!vars)
  BY Zenon DEF Next, Step, vars, Path!vars
<1>4. which = "tls" => [Tls!Next]_(Tls!vars)
  BY Zenon DEF Next, Step, vars, Tls!vars
<1>. QED  BY <1>1, <1>2, <1>3, <1>4, SyntheticInvStep, PathInvStep, TlsStep, Zenon DEF RoundsInv

(***************************************************************************)
(* For any lists of targets and whatever becomes of each: a round of probes *)
(* or endpoints that is shown has an answer for every one of them in order, *)
(* and one of paths repeats no target and leaves out no more than the        *)
(* crashes it met.                                                           *)
(***************************************************************************)
THEOREM RoundsAlwaysComplete == Spec => []RoundsAreComplete
<1>1. RoundsInv => RoundsAreComplete
  BY Zenon DEF RoundsInv, SyntheticInv, PathInv, RoundsAreComplete
<1>. QED  BY <1>1, RoundsInit, RoundsStep, PTL DEF Spec

-----------------------------------------------------------------------------
(* TraceSource: the tables of a summary agree with each other.              *)

\* Lists of spans whose times are numbers.
Timed(list) ==
    /\ Len(list) \in Nat /\ DOMAIN list = 1 .. Len(list)
    /\ \A i \in DOMAIN list : list[i].start \in Int /\ list[i].end \in Int

LEMMA TraceSums ==
    /\ \A S : Traces!Cardinality(S) = Cardinality(S)
    /\ \A f : Traces!SumFunction(f) = SumFunctionOnSet(f, DOMAIN f)
    /\ \A f : Traces!Range(f) = ValuesOf(f)
    /\ \A S : Traces!Max(S) = CHOOSE x \in S : \A y \in S : x >= y
    /\ \A S : Traces!Min(S) = CHOOSE x \in S : \A y \in S : x <= y
  BY Zenon DEF Traces!SumFunction, Traces!SumFunctionOnSet, Traces!FoldFunctionOnSet,
     Traces!MapThenFoldSet, SumFunctionOnSet, FoldFunctionOnSet, MapThenFoldSet,
     Traces!Cardinality, Cardinality, Traces!Range, Traces!Max, Traces!Min, ValuesOf

LEMMA TraceExtremes ==
    ASSUME NEW S \in SUBSET Int, IsFiniteSet(S), S # {}
    PROVE  /\ Traces!Max(S) \in S /\ \A y \in S : y <= Traces!Max(S)
           /\ Traces!Min(S) \in S /\ \A y \in S : Traces!Min(S) <= y
<1>1. PICK a \in S : \A y \in S : y <= a
  BY LargestOf
<1>2. \A y \in S : a >= y
  BY <1>1
<1>3. PICK b \in S : \A y \in S : b <= y
  BY LeastWhole
<1>4. Traces!Max(S) \in S /\ \A y \in S : Traces!Max(S) >= y
  BY <1>2, TraceSums, Zenon
<1>5. Traces!Min(S) \in S /\ \A y \in S : Traces!Min(S) <= y
  BY <1>3, TraceSums, Zenon
<1>6. \A y \in S : y <= Traces!Max(S)
  BY <1>4
<1>. QED  BY <1>4, <1>5, <1>6

LEMMA TraceOfTwo ==
    ASSUME NEW a \in Int, NEW b \in Int
    PROVE  /\ Traces!Max({a, b}) = IF a >= b THEN a ELSE b
           /\ Traces!Min({a, b}) = IF a <= b THEN a ELSE b
<1>. DEFINE S == {a, b}
<1>1. IsFiniteSet(S) /\ S \in SUBSET Int /\ S # {}
  <2>1. IsFiniteSet({a}) /\ IsFiniteSet({b}) /\ S = {a} \cup {b}
    BY FS_Singleton
  <2>. QED  BY <2>1, FS_Union
<1>2. /\ Traces!Max(S) \in S /\ \A y \in S : y <= Traces!Max(S)
      /\ Traces!Min(S) \in S /\ \A y \in S : Traces!Min(S) <= y
  <2>. HIDE DEF S
  <2>. QED  BY <1>1, TraceExtremes
<1>. QED  BY <1>2

PlacesOf(list, service) == {i \in DOMAIN list : list[i].service = service}
FailsAt(list, places) == {i \in places : list[i].error}

LEMMA ServiceRow ==
    ASSUME NEW list, Timed(list), NEW name, PlacesOf(list, name) # {}
    PROVE  LET row == Traces!ServiceLatency(name, list)
               own == PlacesOf(list, name)
           IN  /\ row.service = name
               /\ row.spans = Cardinality(own) /\ row.errors = Cardinality(FailsAt(list, own))
               /\ row.p95 <= row.max /\ row.total <= row.max * row.spans
<1>. DEFINE own == PlacesOf(list, name)
            times == [i \in own |-> Traces!Duration(list[i])]
            m == Cardinality(own)
            at == Traces!Max({1, (95 * m + 99) \div 100})
            top == Traces!Max(ValuesOf(times))
            p95 == Traces!Percentile(times, 95)
<1>1. IsFiniteSet(own) /\ m \in Nat /\ m >= 1
  <2>1. IsFiniteSet(1 .. Len(list)) /\ own \in SUBSET (1 .. Len(list))
    BY FS_Interval DEF Timed, PlacesOf
  <2>2. IsFiniteSet(own) /\ m \in Nat
    BY <2>1, FS_Subset, FS_CardinalityType
  <2>3. m # 0
    BY <2>2, FS_EmptySet
  <2>. QED  BY <2>2, <2>3
<1>2. times \in [own -> Int]
  BY DEF Timed, PlacesOf, Traces!Duration
<1>3. Traces!ServiceLatency(name, list)
          = [service |-> name, spans |-> m, errors |-> Cardinality(FailsAt(list, own)),
             total |-> SumFunctionOnSet(times, own), max |-> top, p95 |-> p95]
  <2>1. DOMAIN times = own
    OBVIOUS
  <2>2. /\ Traces!SumFunction(times) = SumFunctionOnSet(times, own)
        /\ Traces!Range(times) = ValuesOf(times) /\ Traces!Cardinality(own) = m
        /\ Traces!Cardinality(FailsAt(list, own)) = Cardinality(FailsAt(list, own))
    BY <2>1, TraceSums, Zenon
  <2>. QED  BY <2>2, Zenon DEF Traces!ServiceLatency, Traces!Failed, PlacesOf, FailsAt
<1>. HIDE DEF own, times, m
<1>4. DOMAIN times = own
  BY <1>2
<1>5. IsFiniteSet(ValuesOf(times)) /\ ValuesOf(times) \in SUBSET Int
  BY <1>1, <1>2, SidesAreFinite
<1>6. p95 \in ValuesOf(times)
  <2>1. (95 * m + 99) \div 100 \in Int /\ (95 * m + 99) \div 100 >= 1 /\ (95 * m + 99) \div 100 <= m
    BY <1>1
  <2>2. at \in Int /\ 1 <= at /\ at <= m
    BY <2>1, TraceOfTwo
  <2>3. \E v \in ValuesOf(times) : IsRanked(times, at, v)
    BY <1>1, <1>2, <2>2, RankedExists DEF m
  <2>4. \A v : (v \in Traces!Range(times)
                   /\ Traces!Cardinality({i \in DOMAIN times : times[i] < v})
                          < Traces!Max({1, (95 * Traces!Cardinality(DOMAIN times) + 99) \div 100})
                   /\ Traces!Max({1, (95 * Traces!Cardinality(DOMAIN times) + 99) \div 100})
                          <= Traces!Cardinality({i \in DOMAIN times : times[i] <= v}))
               <=> IsRanked(times, at, v)
    <3>1. /\ Traces!Range(times) = ValuesOf(times) /\ Traces!Cardinality(DOMAIN times) = m
          /\ \A v : Traces!Cardinality({i \in DOMAIN times : times[i] < v}) = Cardinality(Under(times, v))
          /\ \A v : Traces!Cardinality({i \in DOMAIN times : times[i] <= v}) = Cardinality(AtMost(times, v))
      BY <1>4, TraceSums, Zenon DEF m, Under, AtMost
    <3>. QED  BY <3>1, Zenon DEF IsRanked, at
  <2>5. p95 = CHOOSE v : IsRanked(times, at, v)
    BY <2>4, Zenon DEF Traces!Percentile
  <2>6. IsRanked(times, at, p95)
    <3>. HIDE DEF at, p95
    <3>. QED  BY <2>3, <2>5, Zenon
  <2>. QED  BY <2>6, Zenon DEF IsRanked
<1>7. top \in Int /\ \A y \in ValuesOf(times) : y <= top
  <2>1. ValuesOf(times) # {}
    BY <1>6
  <2>. QED  BY <1>5, <2>1, TraceExtremes
<1>8. \A i \in own : times[i] \in Int /\ times[i] <= top
  <2>1. \A i \in own : times[i] \in Int /\ times[i] \in ValuesOf(times)
    BY <1>2 DEF ValuesOf
  <2>. HIDE DEF top
  <2>. QED  BY <1>7, <2>1
<1>. HIDE DEF top, p95
<1>9. SumFunctionOnSet(times, own) <= top * m
  BY <1>1, <1>7, <1>8, SumAtMost DEF m
<1>10. p95 <= top
  BY <1>6, <1>7
<1>. QED  BY <1>3, <1>9, <1>10 DEF own, m

LEMMA ServiceTotals ==
    ASSUME NEW list, Timed(list), NEW services,
           services = {Traces!ServiceLatency(list[i].service, list) : i \in DOMAIN list}
    PROVE  /\ SumFunctionOnSet([s \in services |-> s.spans], services) = Len(list)
           /\ SumFunctionOnSet([s \in services |-> s.errors], services)
                  = Cardinality(FailsAt(list, DOMAIN list))
           /\ \A s \in services : s.p95 <= s.max /\ s.total <= s.max * s.spans
<1>. DEFINE A == DOMAIN list
            Row(name) == Traces!ServiceLatency(name, list)
<1>1. IsFiniteSet(A) /\ Cardinality(A) = Len(list)
  BY FS_Interval DEF Timed
<1>2. ASSUME NEW s \in services
      PROVE  /\ s = Row(s.service) /\ s.spans = Cardinality(PlacesOf(list, s.service))
             /\ s.errors = Cardinality(FailsAt(list, PlacesOf(list, s.service)))
             /\ s.p95 <= s.max /\ s.total <= s.max * s.spans
  <2>1. PICK i \in A : s = Row(list[i].service)
    OBVIOUS
  <2>. DEFINE name == list[i].service
  <2>2. i \in PlacesOf(list, name)
    BY DEF PlacesOf
  <2>. HIDE DEF name, Row
  <2>3. PlacesOf(list, name) # {}
    BY <2>2
  <2>4. /\ Row(name).service = name /\ Row(name).spans = Cardinality(PlacesOf(list, name))
        /\ Row(name).errors = Cardinality(FailsAt(list, PlacesOf(list, name)))
        /\ Row(name).p95 <= Row(name).max /\ Row(name).total <= Row(name).max * Row(name).spans
    BY <2>3, ServiceRow DEF Row
  <2>5. s = Row(name)
    BY <2>1 DEF name
  <2>. QED  BY <2>4, <2>5
<1>3. IsFiniteSet(services)
  <2>. DEFINE g == [i \in A |-> Row(list[i].service)]
  <2>1. g \in Surjection(A, services)
    BY DEF Surjection
  <2>. HIDE DEF g, A
  <2>. QED  BY <1>1, <2>1, FS_Surjection
<1>4. \A i \in A : \E s \in services : i \in PlacesOf(list, s.service)
  <2>1. ASSUME NEW i \in A  PROVE \E s \in services : i \in PlacesOf(list, s.service)
    <3>1. Row(list[i].service) \in services
      OBVIOUS
    <3>2. i \in PlacesOf(list, list[i].service)
      BY DEF PlacesOf
    <3>3. Row(list[i].service).service = list[i].service
      BY <3>2, ServiceRow
    <3>. HIDE DEF Row
    <3>. QED  BY <3>1, <3>2, <3>3
  <2>. QED  BY <2>1
<1>5. \A name : PlacesOf(list, name) \in SUBSET A
  BY DEF PlacesOf
<1>. DEFINE own == [s \in services |-> PlacesOf(list, s.service)]
            bad == [s \in services |-> FailsAt(list, PlacesOf(list, s.service))]
            f == [s \in services |-> s.spans]
            g == [s \in services |-> s.errors]
<1>6. own \in [services -> SUBSET A] /\ bad \in [services -> SUBSET A]
  BY <1>5 DEF FailsAt
<1>7. \A T \in SUBSET A : Cardinality(T) \in Nat
  <2>1. \A T \in SUBSET A : IsFiniteSet(T)
    BY <1>1, FS_Subset
  <2>. QED  BY <2>1, FS_CardinalityType
<1>8. /\ f \in [services -> Int] /\ \A s \in services : f[s] = Cardinality(own[s])
      /\ g \in [services -> Int] /\ \A s \in services : g[s] = Cardinality(bad[s])
  BY <1>2, <1>6, <1>7
<1>9. \A s, h \in services : s # h => own[s] \cap own[h] = {} /\ bad[s] \cap bad[h] = {}
  <2>1. ASSUME NEW s \in services, NEW h \in services, s # h
        PROVE  own[s] \cap own[h] = {} /\ bad[s] \cap bad[h] = {}
    <3>1. s.service # h.service
      BY <1>2, <2>1
    <3>. QED  BY <3>1 DEF PlacesOf, FailsAt
  <2>. QED  BY <2>1
<1>10. UNION {own[s] : s \in services} = A
  BY <1>4, <1>6
<1>11. UNION {bad[s] : s \in services} = FailsAt(list, A)
  <2>1. \A s \in services : bad[s] \subseteq FailsAt(list, A)
    BY <1>5 DEF FailsAt
  <2>2. ASSUME NEW i \in FailsAt(list, A)  PROVE \E s \in services : i \in bad[s]
    <3>1. i \in A /\ list[i].error
      BY DEF FailsAt
    <3>2. PICK s \in services : i \in PlacesOf(list, s.service)
      BY <1>4, <3>1
    <3>3. i \in bad[s]
      BY <3>1, <3>2 DEF FailsAt
    <3>. QED  BY <3>3
  <2>. HIDE DEF bad
  <2>. QED  BY <2>1, <2>2
<1>. HIDE DEF A, own, bad, f, g
<1>12. SumFunctionOnSet(f, services) = Cardinality(UNION {own[s] : s \in services})
  <2>1. \A s, h \in services : s # h => own[s] \cap own[h] = {}
    BY <1>9
  <2>2. own \in [services -> SUBSET A]
    BY <1>6
  <2>3. f \in [services -> Int]
    BY <1>8
  <2>4. \A s \in services : f[s] = Cardinality(own[s])
    BY <1>8
  <2>5. IsFiniteSet(A)
    BY <1>1
  <2>. QED  BY <1>3, <2>1, <2>2, <2>3, <2>4, <2>5, SumOfClasses
<1>13. SumFunctionOnSet(g, services) = Cardinality(UNION {bad[s] : s \in services})
  <2>1. \A s, h \in services : s # h => bad[s] \cap bad[h] = {}
    BY <1>9
  <2>2. bad \in [services -> SUBSET A]
    BY <1>6
  <2>3. g \in [services -> Int]
    BY <1>8
  <2>4. \A s \in services : g[s] = Cardinality(bad[s])
    BY <1>8
  <2>5. IsFiniteSet(A)
    BY <1>1
  <2>. QED  BY <1>3, <2>1, <2>2, <2>3, <2>4, <2>5, SumOfClasses
<1>. QED  BY <1>1, <1>2, <1>10, <1>11, <1>12, <1>13 DEF f, g, A

OwnOf(list, trace) == {i \in DOMAIN list : list[i].trace = trace}

LEMMA TraceRow ==
    ASSUME NEW list, Timed(list), NEW name, OwnOf(list, name) # {}
    PROVE  LET row == Traces!TraceSummary(name, list)
           IN  row.trace = name /\ row.spanCount = Cardinality(OwnOf(list, name)) /\ row.start \in Int
<1>. DEFINE own == OwnOf(list, name)
            starts == {list[i].start : i \in own}
            row == Traces!TraceSummary(name, list)
<1>1. row.trace = name /\ row.spanCount = Cardinality(own) /\ row.start = Traces!Min(starts)
  BY TraceSums DEF Traces!TraceSummary, OwnOf
<1>2. IsFiniteSet(own)
  <2>1. IsFiniteSet(1 .. Len(list)) /\ own \in SUBSET (1 .. Len(list))
    BY FS_Interval DEF Timed, OwnOf
  <2>. QED  BY <2>1, FS_Subset
<1>3. IsFiniteSet(starts)
  <2>. DEFINE g == [i \in own |-> list[i].start]
  <2>1. g \in Surjection(own, starts)
    BY DEF Surjection
  <2>. HIDE DEF g, own, starts
  <2>. QED  BY <1>2, <2>1, FS_Surjection
<1>4. starts \in SUBSET Int /\ starts # {}
  <2>1. \A i \in own : list[i].start \in Int
    BY DEF Timed, OwnOf
  <2>2. PICK i \in own : TRUE
    OBVIOUS
  <2>3. list[i].start \in starts
    OBVIOUS
  <2>. QED  BY <2>1, <2>3
<1>5. Traces!Min(starts) \in starts
  <2>. HIDE DEF starts
  <2>. QED  BY <1>3, <1>4, TraceExtremes
<1>. HIDE DEF starts, row
<1>6. row.start \in Int
  BY <1>1, <1>4, <1>5
<1>. QED  BY <1>1, <1>6 DEF row

\* The first n of a set by their weights, the greatest first.
InTurn(s, n, all, w) ==
    /\ \A i, j \in 1 .. n : i < j => s[i] # s[j] /\ w[s[i]] >= w[s[j]]
    /\ \A left \in all \ ValuesOf(s) : \A i \in 1 .. n : w[s[i]] >= w[left]

LEMMA TurnsExist ==
    ASSUME NEW all, IsFiniteSet(all), NEW w, \A a \in all : w[a] \in Int, NEW n \in Nat, n <= Cardinality(all)
    PROVE  \E s \in [1 .. n -> all] : InTurn(s, n, all, w)
<1>. DEFINE K == {k \in 0 .. n : \E s \in [1 .. k -> all] : InTurn(s, k, all, w)}
<1>1. 0 \in K
  <2>. DEFINE s == [i \in 1 .. 0 |-> i]
  <2>1. s \in [1 .. 0 -> all]
    OBVIOUS
  <2>2. InTurn(s, 0, all, w)
    BY DEF InTurn
  <2>. HIDE DEF s
  <2>3. \E r \in [1 .. 0 -> all] : InTurn(r, 0, all, w)
    BY <2>1, <2>2, Zenon
  <2>4. 0 \in 0 .. n
    OBVIOUS
  <2>. QED  BY <2>3, <2>4, Zenon
<1>2. ASSUME NEW k \in 0 .. n - 1, k \in K  PROVE k + 1 \in K
  <2>1. PICK s \in [1 .. k -> all] : InTurn(s, k, all, w)
    BY <1>2
  <2>2. k \in Nat /\ k < Cardinality(all) /\ k + 1 \in 0 .. n /\ Cardinality(all) \in Nat
    BY FS_CardinalityType
  <2>3. IsFiniteSet(ValuesOf(s)) /\ Cardinality(ValuesOf(s)) <= k
    <3>0. k \in Nat
      OBVIOUS
    <3>1. IsFiniteSet(1 .. k) /\ Cardinality(1 .. k) = k
      BY <3>0, FS_Interval
    <3>2. s \in Surjection(1 .. k, ValuesOf(s))
      BY DEF Surjection, ValuesOf
    <3>. QED  BY <3>1, <3>2, FS_Surjection
  <2>. DEFINE left == all \ ValuesOf(s)
              weights == {w[a] : a \in left}
  <2>4. left # {} /\ IsFiniteSet(left)
    <3>1. ValuesOf(s) \subseteq all
      BY DEF ValuesOf
    <3>2. ASSUME left = {}  PROVE FALSE
      <4>1. ValuesOf(s) = all
        BY <3>1, <3>2
      <4>. QED  BY <2>2, <2>3, <4>1
    <3>3. left \in SUBSET all
      OBVIOUS
    <3>. HIDE DEF left
    <3>. QED  BY <3>2, <3>3, FS_Subset
  <2>5. IsFiniteSet(weights) /\ weights \in SUBSET Int /\ weights # {}
    <3>. DEFINE g == [a \in left |-> w[a]]
    <3>1. g \in Surjection(left, weights)
      BY DEF Surjection
    <3>2. IsFiniteSet(weights)
      <4>. HIDE DEF g, left, weights
      <4>. QED  BY <2>4, <3>1, FS_Surjection
    <3>3. weights \in SUBSET Int
      OBVIOUS
    <3>4. PICK a \in left : TRUE
      BY <2>4
    <3>5. w[a] \in weights
      OBVIOUS
    <3>. QED  BY <3>2, <3>3, <3>5
  <2>6. PICK top \in weights : \A x \in weights : x <= top
    <3>. HIDE DEF weights
    <3>. QED  BY <2>5, LargestOf
  <2>7. PICK a \in left : w[a] = top
    OBVIOUS
  <2>8. a \in all /\ a \notin ValuesOf(s) /\ \A b \in left : w[a] >= w[b]
    <3>1. \A b \in left : w[b] \in Int /\ w[b] <= top
      BY <2>6
    <3>. QED  BY <2>7, <3>1
  <2>. DEFINE t == [i \in 1 .. k + 1 |-> IF i = k + 1 THEN a ELSE s[i]]
  <2>9. t \in [1 .. k + 1 -> all] /\ t[k + 1] = a /\ \A i \in 1 .. k : t[i] = s[i]
    BY <2>2, <2>8
  <2>10. ValuesOf(t) = ValuesOf(s) \cup {a}
    <3>. HIDE DEF t
    <3>1. DOMAIN t = 1 .. k + 1 /\ DOMAIN s = 1 .. k /\ 1 .. k + 1 = (1 .. k) \cup {k + 1}
      BY <2>2, <2>9
    <3>. QED  BY <2>9, <3>1 DEF ValuesOf
  <2>11. \A i \in 1 .. k : s[i] \in ValuesOf(s) /\ w[s[i]] >= w[a]
    BY <2>1, <2>8 DEF InTurn, ValuesOf
  <2>. HIDE DEF t
  <2>12. ASSUME NEW i \in 1 .. k + 1, NEW j \in 1 .. k + 1, i < j
         PROVE  t[i] # t[j] /\ w[t[i]] >= w[t[j]]
    <3>1. i \in 1 .. k
      BY <2>2, <2>12
    <3>2. CASE j = k + 1
      <4>1. t[i] = s[i] /\ t[j] = a
        <5>1. t[i] = s[i]
          BY <2>9, <3>1
        <5>. QED  BY <2>9, <3>2, <5>1
      <4>2. s[i] # a /\ w[s[i]] >= w[a]
        BY <2>8, <2>11, <3>1
      <4>. QED  BY <4>1, <4>2
    <3>3. CASE j # k + 1
      <4>1. j \in 1 .. k
        BY <2>2, <3>3
      <4>. QED  BY <2>1, <2>9, <2>12, <3>1, <4>1 DEF InTurn
    <3>. QED  BY <3>2, <3>3
  <2>13. ASSUME NEW b \in all \ ValuesOf(t), NEW i \in 1 .. k + 1  PROVE w[t[i]] >= w[b]
    <3>1. b \in left
      BY <2>10
    <3>2. CASE i = k + 1
      BY <2>8, <2>9, <3>1, <3>2
    <3>3. CASE i # k + 1
      <4>1. i \in 1 .. k
        BY <2>2, <3>3
      <4>. QED  BY <2>1, <2>9, <3>1, <4>1 DEF InTurn
    <3>. QED  BY <3>2, <3>3
  <2>14. InTurn(t, k + 1, all, w)
    BY <2>12, <2>13 DEF InTurn
  <2>. QED  BY <2>2, <2>9, <2>14
<1>3. n \in K
  <2>. HIDE DEF K
  <2>. QED  BY <1>1, <1>2, CountUp
<1>. QED  BY <1>3

LEMMA LatestIs ==
    ASSUME NEW all, IsFiniteSet(all), \A a \in all : a.start \in Int, NEW n \in Nat, n <= Cardinality(all)
    PROVE  /\ Traces!Latest(all, n) \in [1 .. n -> all]
           /\ InTurn(Traces!Latest(all, n), n, all, [a \in all |-> a.start])
<1>. DEFINE w == [a \in all |-> a.start]
            Order(s) == /\ \A i, j \in 1 .. n : i < j => s[i] # s[j] /\ s[i].start >= s[j].start
                        /\ \A left \in all \ ValuesOf(s) : \A i \in 1 .. n : s[i].start >= left.start
<1>1. \A a \in all : w[a] = a.start /\ w[a] \in Int
  OBVIOUS
<1>. HIDE DEF w
<1>2. ASSUME NEW s \in [1 .. n -> all]  PROVE InTurn(s, n, all, w) <=> Order(s)
  <2>1. \A i \in 1 .. n : w[s[i]] = s[i].start
    BY <1>1
  <2>2. \A left \in all \ ValuesOf(s) : w[left] = left.start
    BY <1>1
  <2>. QED  BY <2>1, <2>2, Zenon DEF InTurn
<1>3. \A s : (s \in [1 .. n -> all] /\ InTurn(s, n, all, w))
             <=> (/\ s \in [1 .. n -> all]
                  /\ \A i, j \in 1 .. n : i < j => s[i] # s[j] /\ s[i].start >= s[j].start
                  /\ \A left \in all \ Traces!Range(s) : \A i \in 1 .. n : s[i].start >= left.start)
  BY <1>2, TraceSums, Zenon
<1>4. Traces!Latest(all, n) = CHOOSE s : s \in [1 .. n -> all] /\ InTurn(s, n, all, w)
  BY <1>3, Zenon DEF Traces!Latest
<1>5. \E s : s \in [1 .. n -> all] /\ InTurn(s, n, all, w)
  BY <1>1, TurnsExist
<1>6. /\ Traces!Latest(all, n) \in [1 .. n -> all]
      /\ InTurn(Traces!Latest(all, n), n, all, w)
  BY <1>4, <1>5, Zenon
<1>. QED  BY <1>6 DEF w

\* Every trace is summed up once, and none is cut off while there is room.
LEMMA RecentTotals ==
    ASSUME NEW list, Timed(list), MaxRecent \in Nat, NEW recent, recent = Traces!Recent(list),
           NEW count, count = Cardinality({list[i].trace : i \in DOMAIN list})
    PROVE  /\ Len(recent) = Traces!Min({count, MaxRecent})
           /\ count <= MaxRecent =>
                  SumFunctionOnSet([i \in DOMAIN recent |-> recent[i].spanCount], DOMAIN recent) = Len(list)
<1>. DEFINE A == DOMAIN list
            names == {list[i].trace : i \in A}
            Row(name) == Traces!TraceSummary(name, list)
            all == {Row(list[i].trace) : i \in A}
            n == Traces!Min({Cardinality(all), MaxRecent})
<1>1. IsFiniteSet(A) /\ Cardinality(A) = Len(list)
  BY FS_Interval DEF Timed
<1>2. \A name \in names : /\ Row(name).trace = name /\ Row(name).start \in Int
                          /\ Row(name).spanCount = Cardinality(OwnOf(list, name))
  <2>1. ASSUME NEW name \in names
        PROVE  /\ Row(name).trace = name /\ Row(name).start \in Int
               /\ Row(name).spanCount = Cardinality(OwnOf(list, name))
    <3>1. OwnOf(list, name) # {}
      BY DEF OwnOf
    <3>. QED  BY <3>1, TraceRow
  <2>. HIDE DEF Row, names
  <2>. QED  BY <2>1
<1>3. all = {Row(name) : name \in names}
  <2>. HIDE DEF Row
  <2>. QED  OBVIOUS
<1>4. IsFiniteSet(names)
  <2>. DEFINE g == [i \in A |-> list[i].trace]
  <2>1. g \in Surjection(A, names)
    BY DEF Surjection
  <2>. HIDE DEF g, A, names
  <2>. QED  BY <1>1, <2>1, FS_Surjection
<1>5. recent = Traces!Latest(all, n)
  <2>1. Traces!Cardinality(all) = Cardinality(all)
    BY TraceSums
  <2>. HIDE DEF Row
  <2>. QED  BY <2>1, Zenon DEF Traces!Recent, Row
<1>. HIDE DEF A, names, Row, all, n
<1>6. IsFiniteSet(all) /\ Cardinality(all) = Cardinality(names)
  <2>. DEFINE g == [name \in names |-> Row(name)]
  <2>1. g \in Surjection(names, all)
    BY <1>3 DEF Surjection
  <2>2. g \in Injection(names, all)
    BY <1>2, <1>3 DEF Injection, IsInjective
  <2>. HIDE DEF g
  <2>. QED  BY <1>4, <2>1, <2>2, FS_Surjection
<1>7. count = Cardinality(all) /\ count \in Nat
  BY <1>4, <1>6, FS_CardinalityType DEF names, A
<1>8. \A a \in all : /\ a.trace \in names /\ a = Row(a.trace) /\ a.start \in Int
                     /\ a.spanCount = Cardinality(OwnOf(list, a.trace))
  BY <1>2, <1>3
<1>9. n = (IF count <= MaxRecent THEN count ELSE MaxRecent) /\ n = Traces!Min({count, MaxRecent})
  <2>1. count \in Int /\ MaxRecent \in Int
    BY <1>7
  <2>2. Traces!Min({count, MaxRecent}) = IF count <= MaxRecent THEN count ELSE MaxRecent
    BY <2>1, TraceOfTwo, Zenon
  <2>3. n = Traces!Min({count, MaxRecent})
    BY <1>7, Zenon DEF n
  <2>. QED  BY <2>2, <2>3
<1>10. n \in Nat /\ n <= Cardinality(all)
  BY <1>7, <1>9
<1>11. recent \in [1 .. n -> all] /\ InTurn(recent, n, all, [a \in all |-> a.start])
  BY <1>5, <1>6, <1>8, <1>10, LatestIs
<1>12. Len(recent) = n /\ DOMAIN recent = 1 .. n
  BY <1>10, <1>11
<1>13. ASSUME count <= MaxRecent
       PROVE  SumFunctionOnSet([i \in DOMAIN recent |-> recent[i].spanCount], DOMAIN recent) = Len(list)
  <2>. DEFINE G == 1 .. n
              cls == [i \in G |-> OwnOf(list, recent[i].trace)]
              f == [i \in G |-> recent[i].spanCount]
  <2>1. IsFiniteSet(G) /\ Cardinality(G) = n
    BY <1>10, FS_Interval
  <2>2. \A i, j \in G : i # j => recent[i] # recent[j]
    <3>1. \A i, j \in 1 .. n : i < j => recent[i] # recent[j]
      BY <1>11, Zenon DEF InTurn
    <3>. HIDE DEF n
    <3>. QED  BY <1>10, <3>1
  <2>3. recent \in Surjection(G, all)
    <3>1. recent \in Injection(G, all)
      BY <1>11, <2>2 DEF Injection, IsInjective
    <3>2. Cardinality(G) = Cardinality(all)
      BY <1>7, <1>9, <1>13, <2>1
    <3>. HIDE DEF G
    <3>. QED  BY <1>6, <3>1, <3>2, FS_Injection
  <2>4. \A name : OwnOf(list, name) \in SUBSET A
    BY DEF OwnOf, A
  <2>5. \A T \in SUBSET A : Cardinality(T) \in Nat
    <3>1. \A T \in SUBSET A : IsFiniteSet(T)
      BY <1>1, FS_Subset
    <3>. QED  BY <3>1, FS_CardinalityType
  <2>6. cls \in [G -> SUBSET A]
    BY <2>4
  <2>7. \A i \in G : f[i] = Cardinality(cls[i])
    BY <1>8, <1>11
  <2>8. f \in [G -> Int]
    <3>1. \A i \in G : f[i] \in Nat
      <4>. HIDE DEF f, cls, G
      <4>. QED  BY <2>5, <2>6, <2>7
    <3>. HIDE DEF G
    <3>. QED  BY <3>1
  <2>9. \A i, j \in G : i # j => cls[i] \cap cls[j] = {}
    <3>1. ASSUME NEW i \in G, NEW j \in G, i # j  PROVE cls[i] \cap cls[j] = {}
      <4>1. recent[i] \in all /\ recent[j] \in all
        BY <1>11
      <4>2. recent[i].trace # recent[j].trace
        BY <1>8, <2>2, <3>1, <4>1
      <4>. QED  BY <4>2 DEF OwnOf
    <3>. QED  BY <3>1
  <2>10. UNION {cls[i] : i \in G} = A
    <3>1. ASSUME NEW p \in A  PROVE \E i \in G : p \in cls[i]
      <4>1. Row(list[p].trace) \in all /\ list[p].trace \in names
        BY DEF all, names
      <4>2. PICK i \in G : recent[i] = Row(list[p].trace)
        <5>. HIDE DEF G
        <5>. QED  BY <2>3, <4>1 DEF Surjection
      <4>3. recent[i].trace = list[p].trace
        BY <1>2, <4>1, <4>2
      <4>. QED  BY <4>3 DEF OwnOf, A
    <3>2. \A i \in G : cls[i] \subseteq A
      <4>. HIDE DEF cls, G
      <4>. QED  BY <2>6
    <3>. HIDE DEF cls, G
    <3>. QED  BY <3>1, <3>2
  <2>11. SumFunctionOnSet(f, G) = Cardinality(UNION {cls[i] : i \in G})
    <3>. HIDE DEF cls, f, G
    <3>1. IsFiniteSet(G)
      BY <2>1
    <3>2. IsFiniteSet(A)
      BY <1>1
    <3>. QED  BY <2>6, <2>7, <2>8, <2>9, <3>1, <3>2, SumOfClasses
  <2>12. [i \in DOMAIN recent |-> recent[i].spanCount] = f /\ DOMAIN recent = G
    BY <1>12
  <2>. HIDE DEF cls, f, G
  <2>. QED  BY <1>1, <2>10, <2>11, <2>12
<1>. QED  BY <1>9, <1>12, <1>13

LEMMA EdgesCross ==
    \A list : \A e \in Traces!Edges(list) : e.edge.from # e.edge.to
<1>. SUFFICES ASSUME NEW list, NEW e \in Traces!Edges(list)  PROVE e.edge.from # e.edge.to
  OBVIOUS
<1>1. PICK i \in DOMAIN list :
          /\ Traces!ServiceOf(list[i].parent, list) # list[i].service
          /\ e.edge = [from |-> Traces!ServiceOf(list[i].parent, list), to |-> list[i].service]
  <2>. DEFINE calls == {i \in DOMAIN list :
                           /\ list[i].parent \in Traces!IdsOf(list)
                           /\ Traces!ServiceOf(list[i].parent, list) # list[i].service}
              Edge(i) == [from |-> Traces!ServiceOf(list[i].parent, list), to |-> list[i].service]
              Count(i) == Traces!Cardinality({j \in calls : Edge(j) = Edge(i)})
  <2>1. e \in {[edge |-> Edge(i), count |-> Count(i)] : i \in calls}
    BY Zenon DEF Traces!Edges
  <2>. HIDE DEF Count
  <2>2. PICK i \in calls : e = [edge |-> Edge(i), count |-> Count(i)]
    BY <2>1, Zenon
  <2>3. e.edge = Edge(i)
    <3>. HIDE DEF Edge, calls
    <3>. QED  BY <2>2
  <2>. QED  BY <2>3
<1>. QED  BY <1>1

LEMMA TraceSummaryAgrees ==
    ASSUME MaxRecent \in Nat, NEW list, Timed(list), NEW t, t = Traces!Summary(list)
    PROVE  /\ Traces!SumFunction([s \in t.services |-> s.spans]) = t.spanCount
           /\ Traces!SumFunction([s \in t.services |-> s.errors]) = t.errorCount
           /\ Len(t.recent) = Traces!Min({t.traceCount, MaxRecent})
           /\ t.traceCount <= MaxRecent =>
                  Traces!SumFunction([i \in DOMAIN t.recent |-> t.recent[i].spanCount]) = t.spanCount
           /\ \A e \in t.edges : e.edge.from # e.edge.to
           /\ \A s \in t.services : s.p95 <= s.max /\ s.total <= s.max * s.spans
<1>. DEFINE services == {Traces!ServiceLatency(list[i].service, list) : i \in DOMAIN list}
            recent == Traces!Recent(list)
            count == Cardinality({list[i].trace : i \in DOMAIN list})
<1>1. /\ t.spanCount = Len(list) /\ t.errorCount = Cardinality(FailsAt(list, DOMAIN list))
      /\ t.traceCount = count /\ t.services = services /\ t.recent = recent
      /\ t.edges = Traces!Edges(list)
  BY TraceSums DEF Traces!Summary, Traces!Failed, FailsAt
<1>2. /\ SumFunctionOnSet([s \in services |-> s.spans], services) = Len(list)
      /\ SumFunctionOnSet([s \in services |-> s.errors], services)
             = Cardinality(FailsAt(list, DOMAIN list))
      /\ \A s \in services : s.p95 <= s.max /\ s.total <= s.max * s.spans
  BY ServiceTotals
<1>3. /\ Len(recent) = Traces!Min({count, MaxRecent})
      /\ count <= MaxRecent =>
             SumFunctionOnSet([i \in DOMAIN recent |-> recent[i].spanCount], DOMAIN recent) = Len(list)
  BY RecentTotals
<1>. HIDE DEF services, recent, count
<1>4. \A f, S : Traces!SumFunction([s \in S |-> f[s]]) = SumFunctionOnSet([s \in S |-> f[s]], S)
  BY TraceSums
<1>5. /\ Traces!SumFunction([s \in services |-> s.spans]) = SumFunctionOnSet([s \in services |-> s.spans], services)
      /\ Traces!SumFunction([s \in services |-> s.errors]) = SumFunctionOnSet([s \in services |-> s.errors], services)
      /\ Traces!SumFunction([i \in DOMAIN recent |-> recent[i].spanCount])
           = SumFunctionOnSet([i \in DOMAIN recent |-> recent[i].spanCount], DOMAIN recent)
  BY TraceSums
<1>6. \A e \in t.edges : e.edge.from # e.edge.to
  BY <1>1, EdgesCross
<1>. QED  BY <1>1, <1>2, <1>3, <1>5, <1>6, Zenon

ShownSums == \A t \in shown : \E list : Timed(list) /\ t = Traces!Summary(list)

LEMMA ShownSumsAgree == ShownSums => Traces!TraceTotalsAgree
<1> SUFFICES ASSUME ShownSums, NEW t \in shown
             PROVE  /\ Traces!SumFunction([s \in t.services |-> s.spans]) = t.spanCount
                    /\ Traces!SumFunction([s \in t.services |-> s.errors]) = t.errorCount
                    /\ Len(t.recent) = Traces!Min({t.traceCount, MaxRecent})
                    /\ t.traceCount <= MaxRecent =>
                           Traces!SumFunction([i \in DOMAIN t.recent |-> t.recent[i].spanCount]) = t.spanCount
                    /\ \A e \in t.edges : e.edge.from # e.edge.to
                    /\ \A s \in t.services : s.p95 <= s.max /\ s.total <= s.max * s.spans
  BY Zenon DEF Traces!TraceTotalsAgree
<1>1. PICK list : Timed(list) /\ t = Traces!Summary(list)
  BY DEF ShownSums
<1>2. MaxRecent \in Nat
  BY StreamsAssumption
<1>. QED  BY <1>1, <1>2, TraceSummaryAgrees, Zenon

LEMMA SpansAreTimed ==
    ASSUME NEW list \in Seq(AllSpans)  PROVE Timed(list)
<1>1. \A i \in 1 .. Len(list) : \E r \in Requests : list[i] \in ToSet(r.spans)
  BY DEF AllSpans
<1>2. \A i \in 1 .. Len(list) : list[i].start \in Int /\ list[i].end \in Int
  BY <1>1, StreamsAssumption
<1>. QED  BY <1>2 DEF Timed

LEMMA ShownSumsInit == Traces!Init => ShownSums
  BY Zenon DEF Traces!Init, ShownSums

LEMMA ShownSumsStep ==
    ASSUME TracesInv, ShownSums, [Traces!Next]_(Traces!vars)  PROVE ShownSums'
<1>1. CASE Traces!OnEmitTick
  <2>1. shown' = {Traces!Summary(spans)}
    BY <1>1, Zenon DEF Traces!OnEmitTick
  <2>2. Timed(spans)
    BY SpansAreTimed DEF TracesInv, TracesTyped
  <2>. QED  BY <2>1, <2>2, Zenon DEF ShownSums
<1>2. CASE UNCHANGED shown
  BY <1>2, Zenon DEF ShownSums
<1>3. Traces!OnEmitTick \/ UNCHANGED shown
  BY Zenon DEF Traces!Next, Traces!vars, Traces!Start, Traces!Stop, Traces!OnNewConnection,
     Traces!OnDisconnected, Traces!OnReadyRead
<1>. QED  BY <1>1, <1>2, <1>3

-----------------------------------------------------------------------------
StreamsInv ==
    /\ which = "postgres" => PostgresInv /\ WholeInv
    /\ which = "traces" => TracesInv /\ ShownSums

LEMMA StreamsInit == Init => StreamsInv
<1> SUFFICES ASSUME Init  PROVE StreamsInv
  OBVIOUS
<1>1. which = "postgres" => Postgres!Init
  BY Zenon DEF Init
<1>2. which = "traces" => Traces!Init
  BY Zenon DEF Init
<1>. QED  BY <1>1, <1>2, PostgresInvInit, WholeInvInit, TracesInvInit, ShownSumsInit, Zenon
     DEF StreamsInv

LEMMA StreamsStep == StreamsInv /\ [Next]_vars => StreamsInv'
<1> SUFFICES ASSUME StreamsInv, [Next]_vars  PROVE StreamsInv'
  OBVIOUS
<1>1. which' = which
  BY Zenon DEF Next, vars
<1>2. which = "postgres" => [Postgres!Next]_(Postgres!vars)
  BY Zenon DEF Next, Step, vars, Postgres!vars
<1>3. which = "traces" => [Traces!Next]_(Traces!vars)
  BY Zenon DEF Next, Step, vars, Traces!vars
<1>. QED  BY <1>1, <1>2, <1>3, PostgresInvStep, WholeInvStep, TracesInvStep, ShownSumsStep, Zenon
     DEF StreamsInv

(***************************************************************************)
(* For any replies, any timeouts, any chunks and any peers: no row is shown *)
(* under another question while no call has failed on the connection; after *)
(* a failure the rows under a question still answer one and the same, and    *)
(* those the rate is read from are of pg_stat_database.  The spans kept are  *)
(* the newest of the bodies that arrived whole, each counted once.          *)
(***************************************************************************)
THEOREM StreamsAlwaysInStep == Spec => []StreamsStayInStep
<1>1. PostgresInv /\ WholeInv => Postgres!AnswersAreOwn
  <2>1. SUFFICES ASSUME PostgresInv, WholeInv, NEW s \in shown
                 PROVE  /\ s.clean => \A q \in DOMAIN s.data : \A r \in s.data[q] : r.of = q
                        /\ \A q \in DOMAIN s.data : \A r, t \in s.data[q] : r.of = t.of
                        /\ \A r \in s.data["stat"] : r.of = "stat"
    BY Zenon DEF Postgres!AnswersAreOwn
  <2>2. DOMAIN s.data = Questions /\ (s.clean => Own(s.data)) /\ OfOne(s.data)
    BY <2>1, Zenon DEF PostgresInv, WholeInv
  <2>. QED  BY <2>2, Zenon DEF Own, OfOne
<1>2. StreamsInv => StreamsStayInStep
  BY <1>1, Zenon DEF StreamsInv, TracesInv, StreamsStayInStep
<1>. QED  BY <1>2, StreamsInit, StreamsStep, PTL DEF Spec

(***************************************************************************)
(* For any spans of any services and traces, with any times: the spans and  *)
(* errors of the services add up to the totals, so do those of the traces   *)
(* while none is cut off, no service calls itself, and no p95 and no total   *)
(* exceeds what the maximum allows.                                          *)
(***************************************************************************)
THEOREM TraceTotalsAlwaysAgree == Spec => [](which = "traces" => Traces!TraceTotalsAgree)
<1>1. StreamsInv => (which = "traces" => Traces!TraceTotalsAgree)
  BY ShownSumsAgree, Zenon DEF StreamsInv
<1>. QED  BY <1>1, StreamsInit, StreamsStep, PTL DEF Spec

-----------------------------------------------------------------------------
TreesInv == which = "tree" => TreeInv

(***************************************************************************)
(* For any processes that fork, exit, leave children to init and get pids   *)
(* that were used before, between any two reads of the group: as long as no *)
(* pid that a link names was given out again, orderedTree ends, every       *)
(* process has one row, and on the tab a row hangs from one of the level    *)
(* above if every level above it has a row.                                 *)
(***************************************************************************)
THEOREM TreeAlwaysShown == Spec => []TreeIsShown
<1>1. Init => TreesInv
  BY TreeInit, Zenon DEF Init, TreesInv
<1>2. TreesInv /\ [Next]_vars => TreesInv'
  <2>. SUFFICES ASSUME TreesInv, [Next]_vars  PROVE TreesInv'
    OBVIOUS
  <2>1. which' = which
    BY Zenon DEF Next, vars
  <2>2. which = "tree" => [Tree!Next]_(Tree!vars)
    BY Zenon DEF Next, Step, vars, Tree!vars
  <2>. QED  BY <2>1, <2>2, TreeStep, Zenon DEF TreesInv
<1>3. TreesInv => TreeIsShown
  BY Zenon DEF TreesInv, TreeInv, TreeIsShown
<1>. QED  BY <1>1, <1>2, <1>3, PTL DEF Spec

-----------------------------------------------------------------------------
(* StatsdSource: the aggregator agrees with the lines so far.               *)

SeriesKinds == {line.kind : line \in Lines} \cup {""}

SeriesRecord ==
    [type : SeriesKinds, last : Int, sum : Int, min : Int, max : Int,
     count : Nat, unique : Nat]

\* Lines, places and values as in the reference, of any history.
NamedIn(h, key) == {i \in DOMAIN h : Statsd!IsMetric(h[i]) /\ h[i].key = key}
PlacesIn(h, key) == UNION {{i} \X DOMAIN h[i].values : i \in NamedIn(h, key)}
ValueAt(h, p) == h[p[1]].values[p[2]]
WorthAt(h, p) ==
    IF h[p[1]].kind = "counter" THEN ValueAt(h, p) * h[p[1]].scale ELSE ValueAt(h, p)

\* A series that has seen the values at P.
Sampled(s, h, P, kind) ==
    /\ IsFiniteSet(P)
    /\ s.count = Cardinality(P)
    /\ s.sum = SumFunctionOnSet([p \in P |-> WorthAt(h, p)], P)
    /\ kind # "counter" =>
           /\ \A p \in P : s.min <= ValueAt(h, p) /\ ValueAt(h, p) <= s.max
           /\ 0 <= s.max /\ (s.max = 0 \/ \E p \in P : s.max = ValueAt(h, p))
           /\ P # {} => \E p \in P : s.min = ValueAt(h, p)

Taken(s, kind, v, scale) ==
    IF kind = "counter" THEN Statsd!WithIncrement(s, v, scale) ELSE Statsd!WithSample(s, v)

LEMMA TakenType ==
    ASSUME NEW s \in SeriesRecord, NEW kind, NEW v \in Int, NEW scale \in Int
    PROVE  /\ Taken(s, kind, v, scale) \in SeriesRecord
           /\ Taken(s, kind, v, scale).type = s.type /\ Taken(s, kind, v, scale).last = v
<1>. DEFINE After(sum, count, lo, hi) ==
                [s EXCEPT !.last = v, !.sum = sum, !.count = count, !.min = lo, !.max = hi]
            Good(t) == t \in SeriesRecord /\ t.type = s.type /\ t.last = v
<1>1. ASSUME NEW sum \in Int, NEW count \in Nat, NEW lo \in Int, NEW hi \in Int
      PROVE  Good(After(sum, count, lo, hi))
  BY DEF SeriesRecord
<1>2. s.min \in Int /\ s.max \in Int /\ s.sum \in Int /\ s.count + 1 \in Nat
  BY DEF SeriesRecord
<1>3. CASE kind = "counter"
  <2>. DEFINE w == v * scale
  <2>1. w \in Int
    OBVIOUS
  <2>. HIDE DEF w
  <2>2. [s EXCEPT !.last = v, !.sum = s.sum + w, !.count = s.count + 1]
            = After(s.sum + w, s.count + 1, s.min, s.max)
    BY DEF SeriesRecord
  <2>3. Taken(s, kind, v, scale) = After(s.sum + w, s.count + 1, s.min, s.max)
    BY <1>3, <2>2 DEF w, Taken, Statsd!WithIncrement
  <2>4. s.sum + w \in Int
    BY <1>2, <2>1
  <2>. HIDE DEF After, Good
  <2>5. Good(Taken(s, kind, v, scale))
    BY <1>1, <1>2, <2>3, <2>4
  <2>. QED  BY <2>5 DEF Good
<1>4. CASE kind # "counter"
  <2>. DEFINE lo == IF s.count = 0 THEN v ELSE Statsd!Least(s.min, v)
              hi == Statsd!Most(s.max, v)
  <2>1. lo \in Int /\ hi \in Int
    BY <1>2 DEF Statsd!Least, Statsd!Most
  <2>2. Taken(s, kind, v, scale) = After(s.sum + v, s.count + 1, lo, hi)
    BY <1>4 DEF Taken, Statsd!WithSample
  <2>3. s.sum + v \in Int
    BY <1>2
  <2>. HIDE DEF lo, hi, After, Good
  <2>4. Good(Taken(s, kind, v, scale))
    BY <1>1, <1>2, <2>1, <2>2, <2>3
  <2>. QED  BY <2>4 DEF Good
<1>. QED  BY <1>3, <1>4

LEMMA SampledStep ==
    ASSUME NEW s \in SeriesRecord, NEW h, NEW P, NEW q, q \notin P, NEW kind, h[q[1]].kind = kind,
           \A p \in P \cup {q} : WorthAt(h, p) \in Int /\ ValueAt(h, p) \in Int,
           h[q[1]].scale \in Int, Sampled(s, h, P, kind)
    PROVE  Sampled(Taken(s, kind, ValueAt(h, q), h[q[1]].scale), h, P \cup {q}, kind)
<1>. DEFINE v == ValueAt(h, q)
            scale == h[q[1]].scale
            t == Taken(s, kind, v, scale)
            Q == P \cup {q}
            f == [p \in Q |-> WorthAt(h, p)]
            g == [p \in P |-> WorthAt(h, p)]
<1>1. v \in Int /\ scale \in Int /\ WorthAt(h, q) \in Int /\ IsFiniteSet(P)
  BY DEF Sampled
<1>2. /\ IsFiniteSet(Q) /\ Cardinality(Q) = Cardinality(P) + 1
      /\ SumFunctionOnSet(f, Q) = WorthAt(h, q) + SumFunctionOnSet(g, P)
  <2>1. f[q] = WorthAt(h, q) /\ f[q] \in Int /\ \A y \in P : f[y] \in Int /\ f[y] = g[y]
    OBVIOUS
  <2>. HIDE DEF f, g
  <2>. QED  BY <1>1, <2>1, SumAdded
<1>3. s.count = Cardinality(P) /\ s.sum = SumFunctionOnSet(g, P) /\ Cardinality(P) \in Nat
      /\ (Cardinality(P) = 0 <=> P = {})
  BY <1>1, FS_CardinalityType, FS_EmptySet DEF Sampled
<1>4. s.sum \in Int /\ s.count \in Nat /\ s.min \in Int /\ s.max \in Int
  BY DEF SeriesRecord
<1>5. WorthAt(h, q) = IF kind = "counter" THEN v * scale ELSE v
  BY DEF WorthAt
<1>6. t.count = s.count + 1 /\ t.sum = s.sum + WorthAt(h, q)
  <2>. HIDE DEF v, scale
  <2>. QED  BY <1>5 DEF Taken, SeriesRecord, Statsd!WithIncrement, Statsd!WithSample
<1>7. t.count = Cardinality(Q) /\ t.sum = SumFunctionOnSet(f, Q)
  <2>. HIDE DEF v, scale, t, f, g, Q
  <2>. QED  BY <1>1, <1>2, <1>3, <1>4, <1>6
<1>8. ASSUME kind # "counter"
      PROVE  /\ \A p \in Q : t.min <= ValueAt(h, p) /\ ValueAt(h, p) <= t.max
             /\ 0 <= t.max /\ (t.max = 0 \/ \E p \in Q : t.max = ValueAt(h, p))
             /\ \E p \in Q : t.min = ValueAt(h, p)
  <2>1. /\ t.min = IF s.count = 0 THEN v ELSE IF s.min < v THEN s.min ELSE v
        /\ t.max = IF s.max > v THEN s.max ELSE v
    <3>. HIDE DEF v, scale
    <3>. QED  BY <1>8 DEF Taken, SeriesRecord, Statsd!WithSample, Statsd!Least, Statsd!Most
  <2>2. /\ \A p \in P : s.min <= ValueAt(h, p) /\ ValueAt(h, p) <= s.max /\ ValueAt(h, p) \in Int
        /\ 0 <= s.max /\ (s.max = 0 \/ \E p \in P : s.max = ValueAt(h, p))
        /\ P # {} => \E p \in P : s.min = ValueAt(h, p)
    BY <1>8 DEF Sampled
  <2>3. s.count = 0 <=> P = {}
    BY <1>3
  <2>. HIDE DEF t
  <2>4. ASSUME NEW p \in Q  PROVE t.min <= ValueAt(h, p) /\ ValueAt(h, p) <= t.max
    <3>1. CASE p = q
      <4>1. ValueAt(h, p) = v
        BY <3>1
      <4>. HIDE DEF v
      <4>. QED  BY <1>1, <1>4, <2>1, <4>1
    <3>2. CASE p \in P
      <4>1. s.min <= ValueAt(h, p) /\ ValueAt(h, p) <= s.max /\ ValueAt(h, p) \in Int /\ s.count # 0
        BY <2>2, <2>3, <3>2
      <4>. HIDE DEF v
      <4>. QED  BY <1>1, <1>4, <2>1, <4>1
    <3>. QED  BY <3>1, <3>2
  <2>5. 0 <= t.max /\ (t.max = 0 \/ \E p \in Q : t.max = ValueAt(h, p))
    <3>1. t.max = s.max \/ t.max = ValueAt(h, q)
      BY <2>1
    <3>2. 0 <= t.max
      <4>. HIDE DEF v
      <4>. QED  BY <1>1, <1>4, <2>1, <2>2
    <3>. QED  BY <2>2, <3>1, <3>2
  <2>6. \E p \in Q : t.min = ValueAt(h, p)
    <3>1. t.min = ValueAt(h, q) \/ (t.min = s.min /\ P # {})
      BY <2>1, <2>3
    <3>. QED  BY <2>2, <3>1
  <2>. QED  BY <2>4, <2>5, <2>6
<1>. QED
  <2>. HIDE DEF t, f
  <2>1. Sampled(t, h, Q, kind)
    <3>1. t.sum = SumFunctionOnSet([p \in Q |-> WorthAt(h, p)], Q)
      BY <1>7 DEF f
    <3>. HIDE DEF Q
    <3>. QED  BY <1>2, <1>7, <1>8, <3>1 DEF Sampled
  <2>. QED  BY <2>1 DEF t

LEMMA SampledSame ==
    ASSUME NEW s, NEW h, NEW g, NEW P, NEW kind, Sampled(s, h, P, kind),
           \A p \in P : ValueAt(g, p) = ValueAt(h, p) /\ WorthAt(g, p) = WorthAt(h, p)
    PROVE  Sampled(s, g, P, kind)
<1>1. [p \in P |-> WorthAt(h, p)] = [p \in P |-> WorthAt(g, p)]
  OBVIOUS
<1>. QED  BY <1>1 DEF Sampled

LEMMA PlaceValues ==
    ASSUME NEW h \in Seq(Lines), NEW key, NEW p \in PlacesIn(h, key)
    PROVE  /\ p[1] \in NamedIn(h, key) /\ p[1] \in 1 .. Len(h)
           /\ p[2] \in DOMAIN h[p[1]].values /\ p = <<p[1], p[2]>>
           /\ h[p[1]].values \in Seq(Int) /\ h[p[1]].scale \in Int
           /\ ValueAt(h, p) \in Int /\ WorthAt(h, p) \in Int
<1>1. PICK i \in NamedIn(h, key) : p \in {i} \X DOMAIN h[i].values
  BY DEF PlacesIn
<1>2. p[1] = i /\ p[2] \in DOMAIN h[i].values /\ p = <<p[1], p[2]>>
  BY <1>1
<1>3. i \in 1 .. Len(h) /\ h[i] \in Lines
  BY <1>1 DEF NamedIn
<1>4. h[i].values \in Seq(Int) /\ h[i].scale \in Int
  BY <1>3, StatsdAssumption
<1>5. ValueAt(h, p) \in Int
  <2>1. h[i].values[p[2]] \in Int
    BY <1>2, <1>4
  <2>. QED  BY <1>2, <2>1 DEF ValueAt
<1>6. WorthAt(h, p) \in Int
  BY <1>2, <1>4, <1>5 DEF WorthAt
<1>. QED  BY <1>1, <1>2, <1>3, <1>4, <1>5, <1>6

LEMMA LineAdded ==
    ASSUME NEW h \in Seq(Lines), NEW line \in Lines
    PROVE  /\ Append(h, line) \in Seq(Lines) /\ Len(Append(h, line)) = Len(h) + 1 /\ Len(h) \in Nat
           /\ \A i \in 1 .. Len(h) : Append(h, line)[i] = h[i]
           /\ Append(h, line)[Len(h) + 1] = line
  OBVIOUS

LEMMA LineNames ==
    ASSUME NEW h \in Seq(Lines), NEW line \in Lines, NEW key
    PROVE  /\ NamedIn(Append(h, line), key)
                  = NamedIn(h, key) \cup {i \in {Len(h) + 1} : Statsd!IsMetric(line) /\ line.key = key}
           /\ \A i \in NamedIn(h, key) : i \in 1 .. Len(h) /\ Append(h, line)[i] = h[i]
<1>. DEFINE g == Append(h, line)
<1>1. /\ g \in Seq(Lines) /\ Len(g) = Len(h) + 1 /\ Len(h) \in Nat
      /\ \A i \in 1 .. Len(h) : g[i] = h[i]
      /\ g[Len(h) + 1] = line
  BY LineAdded
<1>2. DOMAIN g = 1 .. Len(h) + 1 /\ DOMAIN h = 1 .. Len(h)
  BY <1>1
<1>. HIDE DEF g
<1>3. NamedIn(g, key)
          = NamedIn(h, key) \cup {i \in {Len(h) + 1} : Statsd!IsMetric(line) /\ line.key = key}
  BY <1>1, <1>2 DEF NamedIn
<1>. QED  BY <1>1, <1>2, <1>3 DEF NamedIn, g

LEMMA LinePlaces ==
    ASSUME NEW h \in Seq(Lines), NEW line \in Lines, NEW key
    PROVE  /\ PlacesIn(Append(h, line), key)
                  = PlacesIn(h, key) \cup {q \in {Len(h) + 1} \X DOMAIN line.values :
                                               Statsd!IsMetric(line) /\ line.key = key}
           /\ \A p \in PlacesIn(h, key) :
                  /\ p[1] \in 1 .. Len(h) /\ Append(h, line)[p[1]] = h[p[1]]
                  /\ ValueAt(Append(h, line), p) = ValueAt(h, p)
                  /\ WorthAt(Append(h, line), p) = WorthAt(h, p)
<1>. DEFINE g == Append(h, line)
            N == Len(h)
            Is == Statsd!IsMetric(line) /\ line.key = key
<1>1. /\ NamedIn(g, key) = NamedIn(h, key) \cup {i \in {N + 1} : Is}
      /\ g[N + 1] = line /\ \A i \in NamedIn(h, key) : i \in 1 .. N /\ g[i] = h[i]
  BY LineNames, LineAdded
<1>. HIDE DEF g, N, Is
<1>2. PlacesIn(g, key) = PlacesIn(h, key) \cup {q \in {N + 1} \X DOMAIN line.values : Is}
  BY <1>1 DEF PlacesIn
<1>3. ASSUME NEW p \in PlacesIn(h, key)
      PROVE  /\ p[1] \in 1 .. N /\ g[p[1]] = h[p[1]]
             /\ ValueAt(g, p) = ValueAt(h, p) /\ WorthAt(g, p) = WorthAt(h, p)
  <2>1. p[1] \in NamedIn(h, key)
    BY PlaceValues
  <2>. QED  BY <1>1, <2>1 DEF ValueAt, WorthAt
<1>. QED  BY <1>2, <1>3 DEF g, N, Is

\* The loop over the values of a line that belongs to the series.
LEMMA ValuesAreSampled ==
    ASSUME NEW s0 \in SeriesRecord, NEW h \in Seq(Lines), NEW line \in Lines, Statsd!IsMetric(line)
    PROVE  LET t == Statsd!WithValues(s0, line)
           IN  /\ t \in SeriesRecord /\ t.type = s0.type
               /\ t.last = line.values[Len(line.values)]
               /\ Sampled(s0, h, PlacesIn(h, line.key), line.kind)
                      => Sampled(t, Append(h, line), PlacesIn(Append(h, line), line.key), line.kind)
<1>. DEFINE n == Len(line.values)
            g == Append(h, line)
            N == Len(h)
            P == PlacesIn(h, line.key)
            Turn(s, m) == Taken(s, line.kind, line.values[m], line.scale)
            Acts == [m \in 1 .. n |-> [s \in SeriesRecord |-> Turn(s, m)]]
            Turns(f) == [m \in 0 .. n |-> IF m = 0 THEN s0 ELSE Turn(f[m - 1], m)]
            after == CHOOSE f : f = Turns(f)
<1>1. /\ n \in Nat /\ n # 0 /\ line.scale \in Int /\ DOMAIN line.values = 1 .. n
      /\ \A m \in 1 .. n : line.values[m] \in Int
  <2>1. line.values \in Seq(Int) /\ line.scale \in Int /\ line.values # <<>>
    BY StatsdAssumption DEF Statsd!IsMetric
  <2>. QED  BY <2>1
<1>2. \A m \in 1 .. n, s \in SeriesRecord :
          Turn(s, m) \in SeriesRecord /\ Turn(s, m).type = s.type /\ Turn(s, m).last = line.values[m]
  <2>. HIDE DEF n
  <2>. QED  BY <1>1, TakenType
<1>3. after = Turns(after)
  <2>1. Acts \in [1 .. n -> [SeriesRecord -> SeriesRecord]]
    <3>. HIDE DEF n
    <3>. QED  BY <1>2
  <2>2. PICK r : IsLoop(r, n, SeriesRecord, s0, Acts)
    <3>. HIDE DEF Acts, n
    <3>. QED  BY <1>1, <2>1, LoopValues
  <2>3. r \in [0 .. n -> SeriesRecord] /\ r[0] = s0 /\ \A m \in 1 .. n : r[m] = Acts[m][r[m - 1]]
    BY <2>2, Zenon DEF IsLoop
  <2>4. ASSUME NEW m \in 1 .. n  PROVE r[m] = Turn(r[m - 1], m)
    <3>1. m - 1 \in 0 .. n
      BY <1>1
    <3>2. r[m - 1] \in SeriesRecord
      BY <2>3, <3>1
    <3>3. r[m] = Acts[m][r[m - 1]]
      <4>. HIDE DEF Acts, n
      <4>. QED  BY <2>3
    <3>4. Acts[m][r[m - 1]] = Turn(r[m - 1], m)
      <4>. HIDE DEF Turn, n
      <4>. QED  BY <3>2
    <3>. HIDE DEF Acts, Turn
    <3>. QED  BY <3>3, <3>4
  <2>5. r = Turns(r)
    <3>1. \A m \in 0 .. n : r[m] = IF m = 0 THEN s0 ELSE Turn(r[m - 1], m)
      <4>. HIDE DEF Acts, Turn, n
      <4>. QED  BY <1>1, <2>3, <2>4
    <3>2. r = [m \in 0 .. n |-> r[m]]
      BY <2>3
    <3>. HIDE DEF Acts, Turn, n
    <3>. QED  BY <3>1, <3>2
  <2>. HIDE DEF Turns
  <2>. QED  BY <2>5
<1>4. Statsd!WithValues(s0, line) = after[n]
  BY Zenon DEF Statsd!WithValues, Taken
<1>5. after[0] = s0 /\ \A m \in 1 .. n : after[m] = Turn(after[m - 1], m)
  <2>. HIDE DEF after, Turn, n
  <2>. QED  BY <1>1, <1>3
<1>. DEFINE Places(m) == P \cup ({N + 1} \X (1 .. m))
            Good(s, m) ==
                /\ s \in SeriesRecord /\ s.type = s0.type /\ (m > 0 => s.last = line.values[m])
                /\ Sampled(s0, h, P, line.kind) => Sampled(s, g, Places(m), line.kind)
            K == {m \in 0 .. n : Good(after[m], m)}
<1>6. /\ g[N + 1] = line /\ N \in Nat /\ g \in Seq(Lines)
      /\ PlacesIn(g, line.key) = Places(n)
      /\ \A p \in P : /\ p[1] \in 1 .. N /\ ValueAt(g, p) = ValueAt(h, p)
                      /\ WorthAt(g, p) = WorthAt(h, p)
  <2>1. PlacesIn(g, line.key) = P \cup {q \in {N + 1} \X DOMAIN line.values : TRUE}
    BY LinePlaces
  <2>2. PlacesIn(g, line.key) = Places(n)
    <3>. HIDE DEF g, P, N, n
    <3>. QED  BY <1>1, <2>1
  <2>. QED  BY <2>2, LinePlaces, LineAdded
<1>7. \A p \in Places(n) : ValueAt(g, p) \in Int /\ WorthAt(g, p) \in Int
  <2>. HIDE DEF g, P, N, n, Places
  <2>. QED  BY <1>6, PlaceValues
<1>8. 0 \in K
  <2>1. Places(0) = P
    OBVIOUS
  <2>2. Sampled(s0, h, P, line.kind) => Sampled(s0, g, P, line.kind)
    <3>. HIDE DEF g, P
    <3>. QED  BY <1>6, SampledSame
  <2>3. Good(s0, 0)
    <3>. HIDE DEF Places, P, g
    <3>. QED  BY <2>1, <2>2
  <2>. HIDE DEF Good, after, n
  <2>. QED  BY <1>1, <1>5, <2>3
<1>9. ASSUME NEW m \in 0 .. n - 1, m \in K  PROVE m + 1 \in K
  <2>1. m \in Nat /\ m + 1 \in 1 .. n /\ (m + 1) - 1 = m /\ m + 1 > 0 /\ m + 1 \in 0 .. n
    <3>. HIDE DEF n
    <3>. QED  BY <1>1
  <2>. DEFINE s == after[m]
              t == Turn(s, m + 1)
              q == <<N + 1, m + 1>>
  <2>2. after[m + 1] = t
    <3>. HIDE DEF Turn, after, n
    <3>. QED  BY <1>5, <2>1
  <2>3. Good(s, m)
    <3>. HIDE DEF Good, after, n
    <3>. QED  BY <1>9
  <2>4. t \in SeriesRecord /\ t.type = s0.type /\ t.last = line.values[m + 1]
    <3>1. s \in SeriesRecord /\ s.type = s0.type
      BY <2>3
    <3>. HIDE DEF Turn, s, n
    <3>. QED  BY <1>2, <2>1, <3>1
  <2>5. ASSUME Sampled(s0, h, P, line.kind)  PROVE Sampled(t, g, Places(m + 1), line.kind)
    <3>1. Sampled(s, g, Places(m), line.kind) /\ s \in SeriesRecord
      <4>. HIDE DEF after, P, Places, g
      <4>. QED  BY <2>3, <2>5
    <3>2. Places(m + 1) = Places(m) \cup {q} /\ q \notin Places(m)
      <4>1. 1 .. m + 1 = (1 .. m) \cup {m + 1} /\ m + 1 \notin 1 .. m
        BY <2>1
      <4>2. q \notin P
        <5>. HIDE DEF P
        <5>. QED  BY <1>6
      <4>. HIDE DEF P, N
      <4>. QED  BY <4>1, <4>2
    <3>3. Places(m + 1) \in SUBSET Places(n)
      <4>1. 1 .. m + 1 \in SUBSET (1 .. n)
        <5>. HIDE DEF n
        <5>. QED  BY <1>1, <2>1
      <4>. HIDE DEF P, N, n
      <4>. QED  BY <4>1
    <3>4. g[q[1]] = line /\ ValueAt(g, q) = line.values[m + 1]
      <4>1. q[1] = N + 1 /\ q[2] = m + 1
        OBVIOUS
      <4>. HIDE DEF q, g, N
      <4>. QED  BY <1>6, <4>1 DEF ValueAt
    <3>5. \A p \in Places(m) \cup {q} : WorthAt(g, p) \in Int /\ ValueAt(g, p) \in Int
      <4>. HIDE DEF Places, g, q, n
      <4>. QED  BY <1>7, <3>2, <3>3
    <3>6. Sampled(Taken(s, line.kind, ValueAt(g, q), g[q[1]].scale), g, Places(m) \cup {q}, line.kind)
      <4>. HIDE DEF s, g, q, Places, n
      <4>. QED  BY <1>1, <3>1, <3>2, <3>4, <3>5, SampledStep
    <3>. HIDE DEF Places, g, q, s
    <3>. QED  BY <3>2, <3>4, <3>6
  <2>6. Good(t, m + 1)
    <3>. HIDE DEF t, P, Places, g
    <3>. QED  BY <2>4, <2>5
  <2>. HIDE DEF Good, after, t, n
  <2>. QED  BY <2>1, <2>2, <2>6
<1>10. n \in K
  <2>. HIDE DEF K, n
  <2>. QED  BY <1>1, <1>8, <1>9, UpTo
<1>11. Good(after[n], n)
  <2>. HIDE DEF Good, after, n
  <2>. QED  BY <1>10
<1>. QED
  <2>. HIDE DEF after, P, Places, g, n
  <2>1. LET t == after[n]
        IN  /\ t \in SeriesRecord /\ t.type = s0.type /\ t.last = line.values[n]
            /\ Sampled(s0, h, P, line.kind) => Sampled(t, g, PlacesIn(g, line.key), line.kind)
    BY <1>1, <1>6, <1>11
  <2>. QED  BY <1>4, <2>1 DEF P, g, n

SeriesKeys == {line.key : line \in Lines}
SeenSets == {V \in SUBSET Int : IsFiniteSet(V)}
LineCounts == [datagrams : Nat, metrics : Nat, events : Nat, checks : Nat, errors : Nat]

\* The tables with values in V.
KeyTables(V) == UNION {[D -> V] : D \in SUBSET SeriesKeys}

StatsdStates ==
    [series : KeyTables(SeriesRecord), sets : KeyTables(SeenSets), counts : LineCounts]

\* What the record of a series says, when its lines are of one kind.
Told(s, h, key) ==
    /\ s \in SeriesRecord
    /\ \E i \in NamedIn(h, key) : h[i].kind = s.type
    /\ (\A i \in NamedIn(h, key) : h[i].kind = s.type) =>
           IF s.type = "set" THEN s.unique = Cardinality({ValueAt(h, p) : p \in PlacesIn(h, key)})
           ELSE /\ Sampled(s, h, PlacesIn(h, key), s.type)
                /\ \A i \in NamedIn(h, key) :
                       (\A k \in NamedIn(h, key) : k <= i) => s.last = h[i].values[Len(h[i].values)]

SetSeen(h, key) == {ValueAt(h, p) : p \in {q \in PlacesIn(h, key) : h[q[1]].kind = "set"}}

TableTells(st, h) ==
    /\ st \in StatsdStates /\ h \in Seq(Lines)
    /\ \A key \in SeriesKeys : key \in DOMAIN st.series <=> NamedIn(h, key) # {}
    /\ \A key \in DOMAIN st.series : Told(st.series[key], h, key)
    /\ \A key \in SeriesKeys : Statsd!SeriesOf(st.sets, key, {}) = SetSeen(h, key)
    /\ st.counts.metrics + st.counts.events + st.counts.checks + st.counts.errors = Len(h)

StatsdInv == TableTells(Statsd!State, history)

LEMMA ToldSame ==
    ASSUME NEW h \in Seq(Lines), NEW g, NEW key, NEW s, Told(s, h, key),
           NamedIn(g, key) = NamedIn(h, key), \A i \in NamedIn(h, key) : g[i] = h[i]
    PROVE  Told(s, g, key)
<1>1. PlacesIn(g, key) = PlacesIn(h, key)
  BY DEF PlacesIn
<1>2. \A p \in PlacesIn(h, key) : ValueAt(g, p) = ValueAt(h, p) /\ WorthAt(g, p) = WorthAt(h, p)
  <2>1. \A p \in PlacesIn(h, key) : g[p[1]] = h[p[1]]
    BY PlaceValues
  <2>. QED  BY <2>1 DEF ValueAt, WorthAt
<1>3. {ValueAt(g, p) : p \in PlacesIn(g, key)} = {ValueAt(h, p) : p \in PlacesIn(h, key)}
  BY <1>1, <1>2
<1>4. Sampled(s, h, PlacesIn(h, key), s.type) => Sampled(s, g, PlacesIn(g, key), s.type)
  BY <1>1, <1>2, SampledSame
<1>5. s \in SeriesRecord /\ \E i \in NamedIn(g, key) : g[i].kind = s.type
  BY DEF Told
<1>6. ASSUME \A i \in NamedIn(g, key) : g[i].kind = s.type
      PROVE  IF s.type = "set" THEN s.unique = Cardinality({ValueAt(g, p) : p \in PlacesIn(g, key)})
             ELSE /\ Sampled(s, g, PlacesIn(g, key), s.type)
                  /\ \A i \in NamedIn(g, key) :
                         (\A k \in NamedIn(g, key) : k <= i) => s.last = g[i].values[Len(g[i].values)]
  <2>1. \A i \in NamedIn(h, key) : h[i].kind = s.type
    BY <1>6
  <2>2. CASE s.type = "set"
    BY <1>3, <2>1, <2>2 DEF Told
  <2>3. CASE s.type # "set"
    <3>1. Sampled(s, h, PlacesIn(h, key), s.type)
      BY <2>1, <2>3 DEF Told
    <3>2. \A i \in NamedIn(h, key) :
              (\A k \in NamedIn(h, key) : k <= i) => s.last = h[i].values[Len(h[i].values)]
      BY <2>1, <2>3 DEF Told
    <3>3. \A i \in NamedIn(g, key) :
              (\A k \in NamedIn(g, key) : k <= i) => s.last = g[i].values[Len(g[i].values)]
      BY <3>2
    <3>. QED  BY <1>4, <2>3, <3>1, <3>3
  <2>. QED  BY <2>2, <2>3
<1>. QED  BY <1>5, <1>6 DEF Told

LEMMA SeenSame ==
    ASSUME NEW h \in Seq(Lines), NEW line \in Lines, NEW key
    PROVE  SetSeen(Append(h, line), key)
               = SetSeen(h, key) \cup {v \in ToSet(line.values) :
                                          line.kind = "set" /\ line.key = key}
<1>. DEFINE g == Append(h, line)
            N == Len(h)
<1>1. /\ PlacesIn(g, key) = PlacesIn(h, key) \cup {q \in {N + 1} \X DOMAIN line.values :
                                                      Statsd!IsMetric(line) /\ line.key = key}
      /\ \A p \in PlacesIn(h, key) : g[p[1]] = h[p[1]] /\ ValueAt(g, p) = ValueAt(h, p)
      /\ g[N + 1] = line
  BY LinePlaces, LineAdded
<1>2. \A j \in DOMAIN line.values : ValueAt(g, <<N + 1, j>>) = line.values[j]
  <2>. HIDE DEF g, N
  <2>. QED  BY <1>1 DEF ValueAt
<1>3. ToSet(line.values) = {line.values[j] : j \in DOMAIN line.values}
  BY DEF ToSet
<1>. HIDE DEF g, N
<1>4. ASSUME NEW v \in SetSeen(g, key)
      PROVE  v \in SetSeen(h, key) \/ (v \in ToSet(line.values) /\ line.kind = "set" /\ line.key = key)
  <2>1. PICK p \in PlacesIn(g, key) : g[p[1]].kind = "set" /\ v = ValueAt(g, p)
    BY DEF SetSeen
  <2>2. CASE p \in PlacesIn(h, key)
    BY <1>1, <2>1, <2>2 DEF SetSeen
  <2>3. CASE p \notin PlacesIn(h, key)
    <3>1. line.key = key /\ \E j \in DOMAIN line.values : p = <<N + 1, j>>
      BY <1>1, <2>1, <2>3
    <3>2. PICK j \in DOMAIN line.values : p = <<N + 1, j>>
      BY <3>1
    <3>3. v = line.values[j] /\ line.kind = "set"
      BY <1>1, <1>2, <2>1, <3>2
    <3>. QED  BY <1>3, <3>1, <3>3
  <2>. QED  BY <2>2, <2>3
<1>5. ASSUME NEW v \in SetSeen(h, key)  PROVE v \in SetSeen(g, key)
  BY <1>1 DEF SetSeen
<1>6. ASSUME line.kind = "set", line.key = key, NEW v \in ToSet(line.values)
      PROVE  v \in SetSeen(g, key)
  <2>1. PICK j \in DOMAIN line.values : v = line.values[j]
    BY <1>3
  <2>. DEFINE p == <<N + 1, j>>
  <2>2. p \in PlacesIn(g, key)
    BY <1>1, <1>6 DEF Statsd!IsMetric
  <2>3. g[p[1]].kind = "set" /\ ValueAt(g, p) = v
    BY <1>1, <1>2, <1>6, <2>1
  <2>. HIDE DEF p
  <2>. QED  BY <2>2, <2>3 DEF SetSeen
<1>. QED  BY <1>4, <1>5, <1>6 DEF g

\* The record of a key before its line is taken in.
Fresh(st, line) == [Statsd!SeriesOf(st.series, line.key, Statsd!NewSeries) EXCEPT !.type = line.kind]

LEMMA FreshTells ==
    ASSUME NEW st, NEW h, TableTells(st, h), NEW line \in Lines, Statsd!IsMetric(line)
    PROVE  /\ Fresh(st, line) \in SeriesRecord /\ Fresh(st, line).type = line.kind
           /\ (/\ line.kind # "set"
               /\ \A i \in NamedIn(h, line.key) : h[i].kind = line.kind)
                  => Sampled(Fresh(st, line), h, PlacesIn(h, line.key), line.kind)
<1>. DEFINE key == line.key
            old == Statsd!SeriesOf(st.series, key, Statsd!NewSeries)
            t == [old EXCEPT !.type = line.kind]
<1>1. key \in SeriesKeys /\ line.kind \in SeriesKinds
  BY DEF SeriesKeys, SeriesKinds
<1>2. CASE key \in DOMAIN st.series
  <2>1. old = st.series[key] /\ Told(old, h, key)
    BY <1>2 DEF TableTells, Statsd!SeriesOf
  <2>. HIDE DEF old, key
  <2>2. old \in SeriesRecord
    BY <2>1 DEF Told
  <2>3. t \in SeriesRecord /\ t.type = line.kind
    BY <1>1, <2>2 DEF SeriesRecord
  <2>4. t.count = old.count /\ t.sum = old.sum /\ t.min = old.min /\ t.max = old.max
    BY <2>2 DEF SeriesRecord
  <2>5. ASSUME line.kind # "set", \A i \in NamedIn(h, key) : h[i].kind = line.kind
        PROVE  Sampled(t, h, PlacesIn(h, key), line.kind)
    <3>1. old.type = line.kind
      BY <2>1, <2>5 DEF Told
    <3>2. Sampled(old, h, PlacesIn(h, key), line.kind)
      BY <2>1, <2>5, <3>1 DEF Told
    <3>. HIDE DEF t
    <3>. QED  BY <2>4, <3>2 DEF Sampled
  <2>. HIDE DEF t
  <2>6. /\ t \in SeriesRecord /\ t.type = line.kind
        /\ (line.kind # "set" /\ \A i \in NamedIn(h, key) : h[i].kind = line.kind)
               => Sampled(t, h, PlacesIn(h, key), line.kind)
    BY <2>3, <2>5
  <2>. QED  BY <2>6 DEF Fresh, t, old, key
<1>3. CASE key \notin DOMAIN st.series
  <2>1. old = Statsd!NewSeries /\ NamedIn(h, key) = {}
    BY <1>1, <1>3 DEF TableTells, Statsd!SeriesOf
  <2>. HIDE DEF old, key
  <2>2. t \in SeriesRecord /\ t.type = line.kind /\ t.count = 0 /\ t.sum = 0 /\ t.max = 0
    <3>1. "" \in SeriesKinds
      BY DEF SeriesKinds
    <3>2. /\ Statsd!NewSeries \in SeriesRecord
          /\ Statsd!NewSeries.count = 0 /\ Statsd!NewSeries.sum = 0 /\ Statsd!NewSeries.max = 0
      <4>1. \A e \in SeriesKinds :
                [type |-> e, last |-> 0, sum |-> 0, min |-> 0, max |-> 0, count |-> 0, unique |-> 0]
                    \in SeriesRecord
        BY DEF SeriesRecord
      <4>2. Statsd!NewSeries \in SeriesRecord
        BY <3>1, <4>1, Zenon DEF Statsd!NewSeries
      <4>. QED  BY <4>2 DEF Statsd!NewSeries
    <3>3. old \in SeriesRecord /\ old.count = 0 /\ old.sum = 0 /\ old.max = 0
      BY <2>1, <3>2
    <3>. QED  BY <1>1, <3>3 DEF SeriesRecord
  <2>3. PlacesIn(h, key) = {}
    BY <2>1 DEF PlacesIn
  <2>. HIDE DEF t
  <2>4. Sampled(t, h, {}, line.kind)
    <3>1. IsFiniteSet({}) /\ Cardinality({}) = 0
      BY FS_EmptySet
    <3>2. SumFunctionOnSet([p \in {} |-> WorthAt(h, p)], {}) = 0
      BY SumOfNone
    <3>. QED  BY <2>2, <3>1, <3>2 DEF Sampled
  <2>5. /\ t \in SeriesRecord /\ t.type = line.kind
        /\ (line.kind # "set" /\ \A i \in NamedIn(h, key) : h[i].kind = line.kind)
               => Sampled(t, h, PlacesIn(h, key), line.kind)
    BY <2>2, <2>3, <2>4
  <2>. QED  BY <2>5 DEF Fresh, t, old, key
<1>. QED  BY <1>2, <1>3

LEMMA FiniteValues ==
    ASSUME NEW t \in Seq(Int)
    PROVE  Statsd!Range(t) = ToSet(t) /\ ToSet(t) \in SeenSets
<1>1. ToSet(t) = {t[j] : j \in 1 .. Len(t)} /\ ToSet(t) \in SUBSET Int
  BY DEF ToSet
<1>2. t \in Surjection(1 .. Len(t), ToSet(t))
  BY <1>1 DEF Surjection
<1>3. IsFiniteSet(1 .. Len(t))
  BY FS_Interval
<1>4. IsFiniteSet(ToSet(t))
  BY <1>2, <1>3, FS_Surjection
<1>. QED  BY <1>1, <1>4 DEF SeenSets, Statsd!Range, ToSet

LEMMA StatsdCardinality ==
    /\ \A S : Statsd!Cardinality(S) = Cardinality(S)
    /\ \A f : Statsd!SumFunction(f) = SumFunctionOnSet(f, DOMAIN f)
  BY Zenon DEF Statsd!SumFunction, Statsd!SumFunctionOnSet, Statsd!FoldFunctionOnSet,
     Statsd!MapThenFoldSet, SumFunctionOnSet, FoldFunctionOnSet, MapThenFoldSet,
     Statsd!Cardinality, Cardinality

\* A table with another entry is one of the tables.
Entered(w, table, key, v, V) ==
    /\ w \in KeyTables(V)
    /\ DOMAIN w = DOMAIN table \cup {key} /\ w[key] = v
    /\ \A k \in DOMAIN table : k # key => w[k] = table[k]

LEMMA WithIsTable ==
    ASSUME NEW V, NEW table \in KeyTables(V), NEW key \in SeriesKeys, NEW v \in V
    PROVE  Entered(Statsd!With(table, key, v), table, key, v, V)
<1>1. PICK D \in SUBSET SeriesKeys : table \in [D -> V]
  BY DEF KeyTables
<1>2. D \cup {key} \in SUBSET SeriesKeys
  OBVIOUS
<1>3. Statsd!With(table, key, v) \in [D \cup {key} -> V]
  BY <1>1 DEF Statsd!With
<1>4. Statsd!With(table, key, v) \in KeyTables(V)
  <2>. DEFINE w == Statsd!With(table, key, v)
  <2>. HIDE DEF w
  <2>1. w \in [D \cup {key} -> V]
    BY <1>3 DEF w
  <2>2. w \in KeyTables(V)
    BY <1>2, <2>1 DEF KeyTables
  <2>. QED  BY <2>2 DEF w
<1>. QED  BY <1>1, <1>4 DEF Entered, Statsd!With

\* What the table tells of the keys a line does not name.
LEMMA OthersStayTold ==
    ASSUME NEW st, NEW h, TableTells(st, h), NEW line \in Lines, NEW key \in SeriesKeys,
           ~ (Statsd!IsMetric(line) /\ line.key = key)
    PROVE  /\ NamedIn(Append(h, line), key) = NamedIn(h, key)
           /\ key \in DOMAIN st.series => Told(st.series[key], Append(h, line), key)
           /\ SetSeen(Append(h, line), key) = SetSeen(h, key)
<1>0. h \in Seq(Lines)
  BY DEF TableTells
<1>1. /\ NamedIn(Append(h, line), key)
             = NamedIn(h, key) \cup {i \in {Len(h) + 1} : Statsd!IsMetric(line) /\ line.key = key}
      /\ \A i \in NamedIn(h, key) : i \in 1 .. Len(h) /\ Append(h, line)[i] = h[i]
  BY <1>0, LineNames
<1>2. NamedIn(Append(h, line), key) = NamedIn(h, key)
  BY <1>1
<1>3. ASSUME key \in DOMAIN st.series  PROVE Told(st.series[key], Append(h, line), key)
  <2>1. Told(st.series[key], h, key)
    BY <1>3 DEF TableTells
  <2>. QED  BY <1>0, <1>1, <1>2, <2>1, ToldSame
<1>4. SetSeen(Append(h, line), key) = SetSeen(h, key)
  <2>1. SetSeen(Append(h, line), key)
            = SetSeen(h, key) \cup {v \in ToSet(line.values) : line.kind = "set" /\ line.key = key}
    BY <1>0, SeenSame
  <2>2. ~ (line.kind = "set" /\ line.key = key)
    BY DEF Statsd!IsMetric
  <2>. QED  BY <2>1, <2>2
<1>. QED  BY <1>2, <1>3, <1>4

LEMMA MetricKeeps ==
    ASSUME NEW st, NEW h, TableTells(st, h), NEW line \in Lines, Statsd!IsMetric(line)
    PROVE  TableTells(Statsd!IngestMetric(st, line), Append(h, line))
<1>. DEFINE key == line.key
            g == Append(h, line)
            N == Len(h)
            s0 == Fresh(st, line)
            seen == Statsd!SeriesOf(st.sets, key, {}) \cup Statsd!Range(line.values)
            s1 == IF line.kind = "set"
                  THEN [s0 EXCEPT !.unique = Statsd!Cardinality(seen), !.last = Statsd!Cardinality(seen)]
                  ELSE Statsd!WithValues(s0, line)
            sets1 == IF line.kind = "set" THEN Statsd!With(st.sets, key, seen) ELSE st.sets
            new == [series |-> Statsd!With(st.series, key, s1), sets |-> sets1,
                    counts |-> [st.counts EXCEPT !.metrics = @ + 1]]
<1>1. Statsd!IngestMetric(st, line) = new
  BY DEF Statsd!IngestMetric, Fresh
<1>2. /\ st \in StatsdStates /\ h \in Seq(Lines) /\ key \in SeriesKeys
      /\ line.values \in Seq(Int) /\ line.values # <<>>
  BY StatsdAssumption DEF TableTells, SeriesKeys, Statsd!IsMetric
<1>3. /\ s0 \in SeriesRecord /\ s0.type = line.kind
      /\ (line.kind # "set" /\ \A i \in NamedIn(h, key) : h[i].kind = line.kind)
             => Sampled(s0, h, PlacesIn(h, key), line.kind)
  BY FreshTells
<1>4. /\ g \in Seq(Lines) /\ Len(g) = N + 1 /\ N \in Nat /\ g[N + 1] = line
      /\ NamedIn(g, key) = NamedIn(h, key) \cup {N + 1}
      /\ \A i \in NamedIn(h, key) : i \in 1 .. N /\ g[i] = h[i]
  BY <1>2, LineAdded, LineNames
<1>5. /\ SetSeen(g, key) = SetSeen(h, key) \cup {v \in ToSet(line.values) : line.kind = "set"}
      /\ Statsd!SeriesOf(st.sets, key, {}) = SetSeen(h, key)
      /\ Statsd!Range(line.values) = ToSet(line.values) /\ ToSet(line.values) \in SeenSets
  <2>1. SetSeen(g, key) = SetSeen(h, key) \cup {v \in ToSet(line.values) : line.kind = "set" /\ line.key = key}
    BY <1>2, SeenSame
  <2>2. SetSeen(g, key) = SetSeen(h, key) \cup {v \in ToSet(line.values) : line.kind = "set"}
    BY <2>1
  <2>. QED  BY <1>2, <2>2, FiniteValues DEF TableTells
<1>6. seen \in SeenSets /\ Cardinality(seen) \in Nat /\ (line.kind = "set" => seen = SetSeen(g, key))
  <2>1. Statsd!SeriesOf(st.sets, key, {}) \in SeenSets
    <3>1. {} \in SeenSets
      BY FS_EmptySet DEF SeenSets
    <3>2. PICK D \in SUBSET SeriesKeys : st.sets \in [D -> SeenSets]
      BY <1>2 DEF StatsdStates, KeyTables
    <3>. QED  BY <3>1, <3>2 DEF Statsd!SeriesOf
  <2>2. seen \in SeenSets
    <3>. HIDE DEF key
    <3>1. \A A, B \in SeenSets : A \cup B \in SeenSets
      BY FS_Union DEF SeenSets
    <3>. QED  BY <1>5, <2>1, <3>1
  <2>3. Cardinality(seen) \in Nat
    <3>. HIDE DEF seen
    <3>. QED  BY <2>2, FS_CardinalityType DEF SeenSets
  <2>4. line.kind = "set" => seen = SetSeen(g, key)
    BY <1>5
  <2>. QED  BY <2>2, <2>3, <2>4
<1>7. s1 \in SeriesRecord /\ s1.type = line.kind
  <2>1. CASE line.kind = "set"
    <3>. DEFINE c == Statsd!Cardinality(seen)
    <3>1. c \in Nat /\ c \in Int
      BY <1>6, StatsdCardinality
    <3>. HIDE DEF c, s0
    <3>2. [s0 EXCEPT !.unique = c, !.last = c] \in SeriesRecord
      BY <1>3, <3>1 DEF SeriesRecord
    <3>3. [s0 EXCEPT !.unique = c, !.last = c].type = s0.type
      BY <1>3 DEF SeriesRecord
    <3>. QED  BY <1>3, <2>1, <3>2, <3>3 DEF c
  <2>2. CASE line.kind # "set"
    <3>. HIDE DEF s0
    <3>. QED  BY <1>2, <1>3, <2>2, ValuesAreSampled
  <2>. QED  BY <2>1, <2>2
<1>8. Told(s1, g, key)
  <2>1. \E i \in NamedIn(g, key) : g[i].kind = s1.type
    <3>. HIDE DEF g, s1, N, key
    <3>. QED  BY <1>4, <1>7
  <2>2. ASSUME \A i \in NamedIn(g, key) : g[i].kind = line.kind, line.kind = "set"
        PROVE  s1.unique = Cardinality({ValueAt(g, p) : p \in PlacesIn(g, key)})
    <3>1. SetSeen(g, key) = {ValueAt(g, p) : p \in PlacesIn(g, key)}
      <4>1. \A p \in PlacesIn(g, key) : g[p[1]].kind = "set"
        <5>. HIDE DEF g, key
        <5>. QED  BY <1>4, <2>2, PlaceValues
      <4>. HIDE DEF g, key
      <4>. QED  BY <4>1 DEF SetSeen
    <3>2. s1.unique = Cardinality(seen)
      <4>. DEFINE c == Statsd!Cardinality(seen)
      <4>1. c = Cardinality(seen)
        BY StatsdCardinality
      <4>. HIDE DEF c, s0, seen
      <4>2. [s0 EXCEPT !.unique = c, !.last = c].unique = c
        BY <1>3 DEF SeriesRecord
      <4>. QED  BY <2>2, <4>1, <4>2 DEF c
    <3>. HIDE DEF s1, seen, g, key
    <3>. QED  BY <1>6, <2>2, <3>1, <3>2
  <2>3. ASSUME \A i \in NamedIn(g, key) : g[i].kind = line.kind, line.kind # "set"
        PROVE  /\ Sampled(s1, g, PlacesIn(g, key), line.kind)
               /\ \A i \in NamedIn(g, key) :
                      (\A k \in NamedIn(g, key) : k <= i) => s1.last = g[i].values[Len(g[i].values)]
    <3>1. \A i \in NamedIn(h, key) : h[i].kind = line.kind
      <4>. HIDE DEF g, key
      <4>. QED  BY <1>4, <2>3
    <3>2. Sampled(s0, h, PlacesIn(h, key), line.kind)
      <4>. HIDE DEF s0, key
      <4>. QED  BY <1>3, <2>3, <3>1
    <3>3. s1 = Statsd!WithValues(s0, line)
      BY <2>3
    <3>4. /\ Sampled(s1, g, PlacesIn(g, key), line.kind)
          /\ s1.last = line.values[Len(line.values)]
      <4>. HIDE DEF s0, s1
      <4>. QED  BY <1>2, <1>3, <3>2, <3>3, ValuesAreSampled
    <3>5. ASSUME NEW i \in NamedIn(g, key), \A k \in NamedIn(g, key) : k <= i
          PROVE  g[i] = line
      <4>. HIDE DEF g, key, N
      <4>1. N + 1 <= i /\ (i \in 1 .. N \/ i = N + 1)
        BY <1>4, <3>5
      <4>. QED  BY <1>4, <4>1
    <3>. HIDE DEF s1, g, key
    <3>. QED  BY <3>4, <3>5
  <2>. HIDE DEF s1, g, key
  <2>. QED  BY <1>7, <2>1, <2>2, <2>3 DEF Told
<1>9. /\ new.series \in KeyTables(SeriesRecord)
      /\ DOMAIN new.series = DOMAIN st.series \cup {key} /\ new.series[key] = s1
      /\ \A k \in DOMAIN st.series \ {key} : new.series[k] = st.series[k]
  <2>. DEFINE w == Statsd!With(st.series, key, s1)
  <2>1. st.series \in KeyTables(SeriesRecord)
    BY <1>2 DEF StatsdStates
  <2>2. Entered(w, st.series, key, s1, SeriesRecord)
    <3>. HIDE DEF s1, key
    <3>. QED  BY <1>2, <1>7, <2>1, WithIsTable
  <2>3. new.series = w
    OBVIOUS
  <2>. HIDE DEF w, new, s1, key
  <2>. QED  BY <2>2, <2>3 DEF Entered
<1>10. /\ new.sets \in KeyTables(SeenSets)
       /\ \A k \in SeriesKeys : Statsd!SeriesOf(new.sets, k, {}) = SetSeen(g, k)
  <2>1. st.sets \in KeyTables(SeenSets)
    BY <1>2 DEF StatsdStates
  <2>2. \A k \in SeriesKeys \ {key} : Statsd!SeriesOf(st.sets, k, {}) = SetSeen(g, k)
    <3>1. \A k \in SeriesKeys \ {key} : SetSeen(g, k) = SetSeen(h, k)
      BY OthersStayTold
    <3>. QED  BY <3>1 DEF TableTells
  <2>3. CASE line.kind = "set"
    <3>. DEFINE w == Statsd!With(st.sets, key, seen)
    <3>1. new.sets = w
      BY <2>3
    <3>2. Entered(w, st.sets, key, seen, SeenSets)
      <4>. HIDE DEF key, seen
      <4>. QED  BY <1>2, <1>6, <2>1, WithIsTable
    <3>. HIDE DEF new, key, seen, g, w
    <3>. QED  BY <1>6, <2>2, <2>3, <3>1, <3>2 DEF Statsd!SeriesOf, Entered
  <2>4. CASE line.kind # "set"
    <3>1. new.sets = st.sets /\ SetSeen(g, key) = Statsd!SeriesOf(st.sets, key, {})
      BY <1>5, <2>4
    <3>. HIDE DEF new, key, g
    <3>. QED  BY <2>1, <2>2, <3>1
  <2>. QED  BY <2>3, <2>4
<1>11. /\ new.counts \in LineCounts
       /\ new.counts.metrics + new.counts.events + new.counts.checks + new.counts.errors = Len(g)
  <2>1. st.counts \in LineCounts
        /\ st.counts.metrics + st.counts.events + st.counts.checks + st.counts.errors = N
    BY DEF TableTells, StatsdStates
  <2>2. new.counts = [st.counts EXCEPT !.metrics = st.counts.metrics + 1]
    OBVIOUS
  <2>. HIDE DEF new, g, N
  <2>3. st.counts.metrics \in Nat /\ st.counts.events \in Nat /\ st.counts.checks \in Nat
        /\ st.counts.errors \in Nat
    BY <2>1 DEF LineCounts
  <2>4. new.counts \in LineCounts /\ new.counts.metrics = st.counts.metrics + 1
        /\ new.counts.events = st.counts.events /\ new.counts.checks = st.counts.checks
        /\ new.counts.errors = st.counts.errors
    BY <2>1, <2>2 DEF LineCounts
  <2>5. Len(g) = N + 1
    BY <1>4
  <2>. QED  BY <2>1, <2>3, <2>4, <2>5
<1>12. new \in StatsdStates
  <2>. DEFINE a == new.series
              b == new.sets
              c == new.counts
  <2>1. new = [series |-> a, sets |-> b, counts |-> c]
    OBVIOUS
  <2>. HIDE DEF a, b, c, new
  <2>. QED  BY <1>9, <1>10, <1>11, <2>1 DEF StatsdStates, a, b, c
<1>13. \A k \in SeriesKeys : k \in DOMAIN new.series <=> NamedIn(g, k) # {}
  <2>1. \A k \in SeriesKeys \ {key} : NamedIn(g, k) = NamedIn(h, k)
    BY OthersStayTold
  <2>2. \A k \in SeriesKeys : k \in DOMAIN st.series <=> NamedIn(h, k) # {}
    BY DEF TableTells
  <2>. HIDE DEF new, g, key, N
  <2>. QED  BY <1>4, <1>9, <2>1, <2>2
<1>14. \A k \in DOMAIN new.series : Told(new.series[k], g, k)
  <2>1. \A k \in DOMAIN st.series : k \in SeriesKeys
    BY <1>2 DEF StatsdStates, KeyTables
  <2>2. \A k \in DOMAIN st.series \ {key} : Told(st.series[k], g, k)
    BY <2>1, OthersStayTold
  <2>. HIDE DEF new, g, key, s1
  <2>. QED  BY <1>8, <1>9, <2>2
<1>. QED
  <2>. HIDE DEF new, g
  <2>1. TableTells(new, g)
    BY <1>4, <1>10, <1>11, <1>12, <1>13, <1>14 DEF TableTells
  <2>. QED  BY <1>1, <2>1 DEF g

LEMMA LineKeeps ==
    ASSUME NEW st, NEW h, TableTells(st, h), NEW line \in Lines
    PROVE  TableTells(Statsd!IngestLine(st, line), Append(h, line))
<1>1. CASE Statsd!IsMetric(line)
  <2>1. Statsd!IngestLine(st, line) = Statsd!IngestMetric(st, line)
    BY <1>1 DEF Statsd!IngestLine, Statsd!IsMetric
  <2>. QED  BY <1>1, <2>1, MetricKeeps
<1>2. CASE ~ Statsd!IsMetric(line)
  <2>. DEFINE new == Statsd!IngestLine(st, line)
              g == Append(h, line)
  <2>1. st \in StatsdStates /\ h \in Seq(Lines) /\ st.counts \in LineCounts
    BY DEF TableTells, StatsdStates
  <2>2. \E c \in LineCounts :
            /\ new = [st EXCEPT !.counts = c]
            /\ c.metrics + c.events + c.checks + c.errors
                   = st.counts.metrics + st.counts.events + st.counts.checks + st.counts.errors + 1
    <3>. DEFINE a == [st.counts EXCEPT !.events = @ + 1]
                b == [st.counts EXCEPT !.checks = @ + 1]
                d == [st.counts EXCEPT !.errors = @ + 1]
    <3>1. /\ a \in LineCounts /\ b \in LineCounts /\ d \in LineCounts
      <4>1. \A n \in Nat : /\ [st.counts EXCEPT !.events = n] \in LineCounts
                           /\ [st.counts EXCEPT !.checks = n] \in LineCounts
                           /\ [st.counts EXCEPT !.errors = n] \in LineCounts
        BY <2>1 DEF LineCounts
      <4>2. st.counts.events + 1 \in Nat /\ st.counts.checks + 1 \in Nat /\ st.counts.errors + 1 \in Nat
        BY <2>1 DEF LineCounts
      <4>. QED  BY <4>1, <4>2
    <3>2. /\ st.counts.metrics \in Nat /\ st.counts.events \in Nat
          /\ st.counts.checks \in Nat /\ st.counts.errors \in Nat
      BY <2>1 DEF LineCounts
    <3>3. /\ a.events = st.counts.events + 1 /\ a.metrics = st.counts.metrics
          /\ a.checks = st.counts.checks /\ a.errors = st.counts.errors
          /\ b.checks = st.counts.checks + 1 /\ b.metrics = st.counts.metrics
          /\ b.events = st.counts.events /\ b.errors = st.counts.errors
          /\ d.errors = st.counts.errors + 1 /\ d.metrics = st.counts.metrics
          /\ d.events = st.counts.events /\ d.checks = st.counts.checks
      BY <2>1 DEF LineCounts
    <3>. DEFINE Adds(c) ==
                    /\ new = [st EXCEPT !.counts = c]
                    /\ c.metrics + c.events + c.checks + c.errors
                           = st.counts.metrics + st.counts.events + st.counts.checks + st.counts.errors + 1
    <3>4. ASSUME line.kind = "event"  PROVE \E c \in LineCounts : Adds(c)
      <4>1. new = [st EXCEPT !.counts = a]
        BY <2>1, <3>4 DEF Statsd!IngestLine, StatsdStates
      <4>2. a.metrics + a.events + a.checks + a.errors
                = st.counts.metrics + st.counts.events + st.counts.checks + st.counts.errors + 1
        <5>. HIDE DEF a, b, d
        <5>. QED  BY <3>2, <3>3
      <4>3. Adds(a)
        BY <4>1, <4>2
      <4>. HIDE DEF Adds, a, b, d
      <4>. QED  BY <3>1, <4>3
    <3>5. ASSUME line.kind = "check"  PROVE \E c \in LineCounts : Adds(c)
      <4>1. new = [st EXCEPT !.counts = b]
        BY <2>1, <3>5 DEF Statsd!IngestLine, StatsdStates
      <4>2. b.metrics + b.events + b.checks + b.errors
                = st.counts.metrics + st.counts.events + st.counts.checks + st.counts.errors + 1
        <5>. HIDE DEF a, b, d
        <5>. QED  BY <3>2, <3>3
      <4>3. Adds(b)
        BY <4>1, <4>2
      <4>. HIDE DEF Adds, a, b, d
      <4>. QED  BY <3>1, <4>3
    <3>6. ASSUME line.kind = "bad"  PROVE \E c \in LineCounts : Adds(c)
      <4>1. new = [st EXCEPT !.counts = d]
        BY <2>1, <3>6 DEF Statsd!IngestLine, StatsdStates
      <4>2. d.metrics + d.events + d.checks + d.errors
                = st.counts.metrics + st.counts.events + st.counts.checks + st.counts.errors + 1
        <5>. HIDE DEF a, b, d
        <5>. QED  BY <3>2, <3>3
      <4>3. Adds(d)
        BY <4>1, <4>2
      <4>. HIDE DEF Adds, a, b, d
      <4>. QED  BY <3>1, <4>3
    <3>7. \E c \in LineCounts : Adds(c)
      <4>. HIDE DEF Adds
      <4>. QED  BY <1>2, <3>4, <3>5, <3>6 DEF Statsd!IsMetric
    <3>. QED  BY <3>7
  <2>3. PICK c \in LineCounts :
            /\ new = [st EXCEPT !.counts = c]
            /\ c.metrics + c.events + c.checks + c.errors
                   = st.counts.metrics + st.counts.events + st.counts.checks + st.counts.errors + 1
    BY <2>2
  <2>. HIDE DEF new
  <2>4. new.series = st.series /\ new.sets = st.sets /\ new.counts = c /\ new \in StatsdStates
    BY <2>1, <2>3 DEF StatsdStates
  <2>5. g \in Seq(Lines) /\ Len(g) = Len(h) + 1
    BY <2>1, LineAdded
  <2>6. \A key \in SeriesKeys :
            /\ NamedIn(g, key) = NamedIn(h, key)
            /\ key \in DOMAIN st.series => Told(st.series[key], g, key)
            /\ SetSeen(g, key) = SetSeen(h, key)
    BY <1>2, OthersStayTold
  <2>7. DOMAIN st.series \subseteq SeriesKeys
    BY <2>1 DEF StatsdStates, KeyTables
  <2>. HIDE DEF g
  <2>8. TableTells(new, g)
    <3>1. \A key \in SeriesKeys : key \in DOMAIN new.series <=> NamedIn(g, key) # {}
      BY <2>4, <2>6 DEF TableTells
    <3>2. \A key \in DOMAIN new.series : Told(new.series[key], g, key)
      BY <2>4, <2>6, <2>7
    <3>3. \A key \in SeriesKeys : Statsd!SeriesOf(new.sets, key, {}) = SetSeen(g, key)
      BY <2>4, <2>6 DEF TableTells
    <3>4. new.counts.metrics + new.counts.events + new.counts.checks + new.counts.errors = Len(g)
      BY <2>3, <2>4, <2>5 DEF TableTells
    <3>. QED  BY <2>4, <2>5, <3>1, <3>2, <3>3, <3>4 DEF TableTells
  <2>. QED  BY <2>8 DEF new, g
<1>. QED  BY <1>1, <1>2

\* A history, and the lines of a datagram up to n.
LEMMA PartAppended ==
    ASSUME NEW h \in Seq(Lines), NEW d \in Seq(Lines), NEW n \in 0 .. Len(d) - 1
    PROVE  /\ h \o SubSeq(d, 1, n + 1) = Append(h \o SubSeq(d, 1, n), d[n + 1])
           /\ h \o SubSeq(d, 1, 0) = h /\ h \o SubSeq(d, 1, Len(d)) = h \o d
<1>1. n \in Nat /\ n + 1 \in 1 .. Len(d) /\ Len(d) \in Nat /\ Len(d) > 0
  OBVIOUS
<1>2. SubSeq(d, 1, n + 1) = Append(SubSeq(d, 1, n), d[n + 1])
  BY <1>1
<1>3. SubSeq(d, 1, 0) = <<>> /\ SubSeq(d, 1, Len(d)) = d
  BY <1>1
<1>4. SubSeq(d, 1, n) \in Seq(Lines) /\ d[n + 1] \in Lines
  BY <1>1
<1>. DEFINE p == SubSeq(d, 1, n)
            x == d[n + 1]
<1>. HIDE DEF p, x
<1>5. h \o Append(p, x) = Append(h \o p, x)
  BY <1>4 DEF p, x
<1>6. h \o <<>> = h
  OBVIOUS
<1>. QED  BY <1>2, <1>3, <1>5, <1>6 DEF p, x

\* The states of a loop over the lines of a datagram.
LEMMA LinesKeep ==
    ASSUME NEW h \in Seq(Lines), NEW d \in Seq(Lines), NEW f, TableTells(f[0], h),
           \A m \in 1 .. Len(d) :
               TableTells(f[m - 1], h \o SubSeq(d, 1, m - 1))
                   => f[m] = Statsd!IngestLine(f[m - 1], d[m])
    PROVE  \A m \in 0 .. Len(d) : TableTells(f[m], h \o SubSeq(d, 1, m))
<1>. DEFINE N == Len(d)
            Good(m) == TableTells(f[m], h \o SubSeq(d, 1, m))
<1>1. N \in Nat /\ h \o SubSeq(d, 1, 0) = h
  OBVIOUS
<1>2. Good(0)
  BY <1>1
<1>3. ASSUME NEW m \in 0 .. N - 1, Good(m)  PROVE Good(m + 1)
  <2>1. m + 1 \in 1 .. N /\ (m + 1) - 1 = m /\ d[m + 1] \in Lines
    BY <1>1
  <2>2. f[m + 1] = Statsd!IngestLine(f[m], d[m + 1])
    <3>1. TableTells(f[(m + 1) - 1], h \o SubSeq(d, 1, (m + 1) - 1))
      BY <1>3, <2>1
    <3>2. f[m + 1] = Statsd!IngestLine(f[(m + 1) - 1], d[m + 1])
      BY <2>1, <3>1
    <3>. QED  BY <2>1, <3>2
  <2>3. TableTells(f[m + 1], Append(h \o SubSeq(d, 1, m), d[m + 1]))
    <3>1. TableTells(f[m], h \o SubSeq(d, 1, m))
      BY <1>3
    <3>. QED  BY <2>1, <2>2, <3>1, LineKeeps
  <2>4. h \o SubSeq(d, 1, m + 1) = Append(h \o SubSeq(d, 1, m), d[m + 1])
    BY PartAppended
  <2>. QED  BY <2>3, <2>4
<1>. SUFFICES ASSUME NEW x \in 0 .. N  PROVE Good(x)
  OBVIOUS
<1>. DEFINE K == {m \in 0 .. x : Good(m)}
<1>4. x \in K
  <2>. HIDE DEF Good, N
  <2>1. 0 \in K
    BY <1>1, <1>2
  <2>2. \A m \in 0 .. x - 1 : m \in K => m + 1 \in K
    BY <1>1, <1>3
  <2>3. x \in Nat
    BY <1>1
  <2>. HIDE DEF K
  <2>. QED  BY <2>1, <2>2, <2>3, UpTo
<1>. HIDE DEF Good, N
<1>. QED  BY <1>4

LEMMA DatagramKeeps ==
    ASSUME TableTells(Statsd!State, history), NEW d \in Seq(Lines)
    PROVE  TableTells(Statsd!Ingest(d), history \o d)
<1>. DEFINE n == Len(d)
            h == history
            s0 == [Statsd!State EXCEPT !.counts.datagrams = @ + 1]
            Turn(s, m) == Statsd!IngestLine(s, d[m])
            Kept(s, m) == IF Turn(s, m) \in StatsdStates THEN Turn(s, m) ELSE s
            Acts == [m \in 1 .. n |-> [s \in StatsdStates |-> Kept(s, m)]]
            Turns(f) == [m \in 0 .. n |-> IF m = 0 THEN s0 ELSE Turn(f[m - 1], m)]
            after == CHOOSE f : f = Turns(f)
<1>1. n \in Nat /\ h \in Seq(Lines) /\ Statsd!State \in StatsdStates
  BY DEF TableTells
<1>2. TableTells(s0, h)
  <2>. DEFINE st == Statsd!State
              c == [st.counts EXCEPT !.datagrams = @ + 1]
  <2>1. st \in StatsdStates /\ st.counts \in LineCounts /\ s0 = [st EXCEPT !.counts = c]
    BY <1>1 DEF StatsdStates
  <2>. HIDE DEF st, s0
  <2>2. /\ c \in LineCounts /\ c.metrics = st.counts.metrics /\ c.events = st.counts.events
        /\ c.checks = st.counts.checks /\ c.errors = st.counts.errors
    <3>1. st.counts.datagrams + 1 \in Nat
      BY <2>1 DEF LineCounts
    <3>2. \A k \in Nat : [st.counts EXCEPT !.datagrams = k] \in LineCounts
      BY <2>1 DEF LineCounts
    <3>. QED  BY <2>1, <3>1, <3>2 DEF LineCounts
  <2>. HIDE DEF c
  <2>3. s0.series = st.series /\ s0.sets = st.sets /\ s0.counts = c /\ s0 \in StatsdStates
    BY <2>1, <2>2 DEF StatsdStates
  <2>4. TableTells(st, h)
    BY DEF st
  <2>. HIDE DEF h
  <2>. QED  BY <2>2, <2>3, <2>4 DEF TableTells
<1>3. after = Turns(after)
  <2>1. Acts \in [1 .. n -> [StatsdStates -> StatsdStates]]
    <3>. HIDE DEF n, Turn
    <3>. QED  OBVIOUS
  <2>2. PICK r : IsLoop(r, n, StatsdStates, s0, Acts)
    <3>1. s0 \in StatsdStates
      BY <1>2 DEF TableTells
    <3>. HIDE DEF Acts, n, s0
    <3>. QED  BY <1>1, <2>1, <3>1, LoopValues
  <2>3. r \in [0 .. n -> StatsdStates] /\ r[0] = s0 /\ \A m \in 1 .. n : r[m] = Acts[m][r[m - 1]]
    BY <2>2, Zenon DEF IsLoop
  <2>4. ASSUME NEW m \in 1 .. n  PROVE r[m] = Kept(r[m - 1], m)
    <3>1. m - 1 \in 0 .. n
      BY <1>1
    <3>2. r[m - 1] \in StatsdStates
      BY <2>3, <3>1
    <3>3. r[m] = Acts[m][r[m - 1]]
      <4>. HIDE DEF Acts, n
      <4>. QED  BY <2>3
    <3>4. Acts[m][r[m - 1]] = Kept(r[m - 1], m)
      <4>. HIDE DEF Kept, n
      <4>. QED  BY <3>2
    <3>. HIDE DEF Acts, Kept
    <3>. QED  BY <3>3, <3>4
  <2>5. ASSUME NEW m \in 1 .. n, TableTells(r[m - 1], h \o SubSeq(d, 1, m - 1))
        PROVE  r[m] = Turn(r[m - 1], m)
    <3>1. d[m] \in Lines
      OBVIOUS
    <3>2. TableTells(Turn(r[m - 1], m), Append(h \o SubSeq(d, 1, m - 1), d[m]))
      <4>. HIDE DEF h, n
      <4>. QED  BY <2>5, <3>1, LineKeeps
    <3>3. Turn(r[m - 1], m) \in StatsdStates
      <4>. HIDE DEF Turn, h
      <4>. QED  BY <3>2 DEF TableTells
    <3>. HIDE DEF Turn
    <3>. QED  BY <2>4, <3>3
  <2>6. \A m \in 0 .. n : TableTells(r[m], h \o SubSeq(d, 1, m))
    <3>1. TableTells(r[0], h)
      <4>. HIDE DEF s0, h
      <4>. QED  BY <1>2, <2>3
    <3>2. \A m \in 1 .. Len(d) :
              TableTells(r[m - 1], h \o SubSeq(d, 1, m - 1)) => r[m] = Statsd!IngestLine(r[m - 1], d[m])
      BY <2>5
    <3>. HIDE DEF h
    <3>. QED  BY <1>1, <3>1, <3>2, LinesKeep
  <2>7. \A m \in 1 .. n : r[m] = Turn(r[m - 1], m)
    <3>1. \A m \in 1 .. n : m - 1 \in 0 .. n
      BY <1>1
    <3>. HIDE DEF Turn, n, h
    <3>. QED  BY <2>5, <2>6, <3>1
  <2>8. r = Turns(r)
    <3>1. \A m \in 0 .. n : r[m] = IF m = 0 THEN s0 ELSE Turn(r[m - 1], m)
      <4>. HIDE DEF Acts, Turn, n, s0
      <4>. QED  BY <1>1, <2>3, <2>7
    <3>2. r = [m \in 0 .. n |-> r[m]]
      BY <2>3
    <3>. HIDE DEF Acts, Turn, n, s0
    <3>. QED  BY <3>1, <3>2
  <2>. HIDE DEF Turns
  <2>. QED  BY <2>8
<1>4. Statsd!Ingest(d) = after[n]
  BY Zenon DEF Statsd!Ingest
<1>5. after[0] = s0 /\ \A m \in 1 .. n : after[m] = Turn(after[m - 1], m)
  <2>. HIDE DEF after, Turn, n, s0
  <2>. QED  BY <1>1, <1>3
<1>6. \A m \in 0 .. Len(d) : TableTells(after[m], h \o SubSeq(d, 1, m))
  <2>1. TableTells(after[0], h)
    <3>. HIDE DEF s0, h, after
    <3>. QED  BY <1>2, <1>5
  <2>2. \A m \in 1 .. Len(d) :
            TableTells(after[m - 1], h \o SubSeq(d, 1, m - 1))
                => after[m] = Statsd!IngestLine(after[m - 1], d[m])
    <3>. HIDE DEF s0, h, after
    <3>. QED  BY <1>5
  <2>. HIDE DEF h, after
  <2>. QED  BY <1>1, <2>1, <2>2, LinesKeep
<1>7. TableTells(after[n], h \o SubSeq(d, 1, n))
  <2>. HIDE DEF after, h
  <2>. QED  BY <1>1, <1>6
<1>8. SubSeq(d, 1, n) = d
  OBVIOUS
<1>. HIDE DEF after, n
<1>. QED  BY <1>4, <1>7, <1>8

LEMMA StatsdInvInit == Statsd!Init => StatsdInv
<1>. SUFFICES ASSUME Statsd!Init  PROVE StatsdInv
  OBVIOUS
<1>1. series = <<>> /\ sets = <<>> /\ counts = Statsd!Zero /\ history = <<>>
  BY DEF Statsd!Init
<1>2. \A V : <<>> \in KeyTables(V) /\ DOMAIN <<>> = {}
  <2>1. ASSUME NEW V  PROVE <<>> \in [{} -> V]
    OBVIOUS
  <2>2. {} \in SUBSET SeriesKeys
    OBVIOUS
  <2>. QED  BY <2>1, <2>2 DEF KeyTables
<1>3. Statsd!Zero \in LineCounts
      /\ Statsd!Zero.metrics + Statsd!Zero.events + Statsd!Zero.checks + Statsd!Zero.errors = 0
  BY DEF Statsd!Zero, LineCounts
<1>4. Statsd!State \in StatsdStates
  BY <1>1, <1>2, <1>3 DEF Statsd!State, StatsdStates
<1>5. \A key : NamedIn(<<>>, key) = {} /\ SetSeen(<<>>, key) = {}
  <2>1. \A key : NamedIn(<<>>, key) = {}
    BY DEF NamedIn
  <2>. QED  BY <2>1 DEF SetSeen, PlacesIn
<1>6. /\ Statsd!State.series = <<>> /\ Statsd!State.sets = <<>>
      /\ Statsd!State.counts = Statsd!Zero
  BY <1>1 DEF Statsd!State
<1>. QED
  <2>1. <<>> \in Seq(Lines) /\ Len(<<>>) = 0
    OBVIOUS
  <2>2. \A key \in SeriesKeys : Statsd!SeriesOf(<<>>, key, {}) = SetSeen(<<>>, key)
    BY <1>2, <1>5 DEF Statsd!SeriesOf
  <2>. HIDE DEF Statsd!State
  <2>3. TableTells(Statsd!State, <<>>)
    BY <1>2, <1>3, <1>4, <1>5, <1>6, <2>1, <2>2 DEF TableTells
  <2>. QED  BY <1>1, <2>3 DEF StatsdInv

LEMMA StatsdInvStep == StatsdInv /\ [Statsd!Next]_(Statsd!vars) => StatsdInv'
<1>. SUFFICES ASSUME StatsdInv, [Statsd!Next]_(Statsd!vars)  PROVE StatsdInv'
  OBVIOUS
<1>1. CASE UNCHANGED <<series, sets, counts, history>>
  BY <1>1 DEF StatsdInv, TableTells, Statsd!State
<1>2. CASE Statsd!OnReadyRead
  <2>0. PICK n \in 0 .. MaxLines : \E d \in [1 .. n -> Lines] :
            /\ series' = Statsd!Ingest(d).series /\ sets' = Statsd!Ingest(d).sets
            /\ counts' = Statsd!Ingest(d).counts /\ history' = history \o d
    BY <1>2, Zenon DEF Statsd!OnReadyRead
  <2>1. PICK d \in [1 .. n -> Lines] :
            /\ series' = Statsd!Ingest(d).series /\ sets' = Statsd!Ingest(d).sets
            /\ counts' = Statsd!Ingest(d).counts /\ history' = history \o d
    BY <2>0
  <2>2. d \in Seq(Lines)
    BY <2>1, StatsdAssumption
  <2>3. TableTells(Statsd!Ingest(d), history \o d)
    BY <2>2, DatagramKeeps DEF StatsdInv
  <2>4. Statsd!Ingest(d) = Statsd!State'
    <3>. DEFINE t == Statsd!Ingest(d)
    <3>1. t \in StatsdStates
      BY <2>3 DEF TableTells
    <3>. HIDE DEF t
    <3>2. t = [series |-> t.series, sets |-> t.sets, counts |-> t.counts]
      BY <3>1 DEF StatsdStates
    <3>3. series' = t.series /\ sets' = t.sets /\ counts' = t.counts
      BY <2>1 DEF t
    <3>4. t = Statsd!State'
      BY <3>2, <3>3 DEF Statsd!State
    <3>. QED  BY <3>4 DEF t
  <2>5. TableTells(Statsd!State', history')
    BY <2>1, <2>3, <2>4
  <2>6. StatsdInv' <=> TableTells(Statsd!State', history')
    BY DEF StatsdInv, TableTells
  <2>. QED  BY <2>5, <2>6
<1>. QED
  <2>1. Statsd!OnReadyRead \/ UNCHANGED <<series, sets, counts, history>>
    BY Zenon DEF Statsd!Next, Statsd!vars, Statsd!Start, Statsd!OnEmitTick, Statsd!Stop
  <2>. QED  BY <1>1, <1>2, <2>1

\* Extremes named by CHOOSE.
LEMMA LeastIs ==
    ASSUME NEW S \in SUBSET Int, NEW m \in S, \A x \in S : m <= x
    PROVE  Statsd!Min(S) = m
<1>. DEFINE k == CHOOSE x \in S : \A y \in S : x <= y
<1>1. k \in S /\ \A y \in S : k <= y
  OBVIOUS
<1>2. Statsd!Min(S) = k
  BY Zenon DEF Statsd!Min
<1>. HIDE DEF k
<1>. QED  BY <1>1, <1>2

LEMMA LargestIs ==
    ASSUME NEW S \in SUBSET Int, NEW m \in S, \A x \in S : m >= x
    PROVE  Statsd!Max(S) = m
<1>. DEFINE k == CHOOSE x \in S : \A y \in S : x >= y
<1>1. k \in S /\ \A y \in S : k >= y
  OBVIOUS
<1>2. Statsd!Max(S) = k
  BY Zenon DEF Statsd!Max
<1>. HIDE DEF k
<1>. QED  BY <1>1, <1>2

LEMMA StatsdInvTells == StatsdInv => Statsd!SeriesTellHistory
<1>. SUFFICES ASSUME StatsdInv  PROVE Statsd!SeriesTellHistory
  OBVIOUS
<1>1. /\ Statsd!State.series = series /\ Statsd!State.counts = counts
      /\ Statsd!State \in StatsdStates
  BY DEF StatsdInv, TableTells, Statsd!State
<1>2. /\ history \in Seq(Lines)
      /\ \A key \in SeriesKeys : key \in DOMAIN series <=> NamedIn(history, key) # {}
      /\ \A key \in DOMAIN series : Told(series[key], history, key)
      /\ counts.metrics + counts.events + counts.checks + counts.errors = Len(history)
  BY <1>1 DEF StatsdInv, TableTells
<1>3. /\ \A key : Statsd!LinesOf(key) = NamedIn(history, key)
      /\ \A key : Statsd!PlacesOf(key) = PlacesIn(history, key)
      /\ \A p : Statsd!Value(p) = ValueAt(history, p)
  BY DEF Statsd!LinesOf, Statsd!PlacesOf, Statsd!Value, NamedIn, PlacesIn, ValueAt
<1>4. ASSUME NEW key \in DOMAIN series,
             \A i \in Statsd!LinesOf(key) : history[i].kind = series[key].type
      PROVE  LET s == series[key]
                 places == Statsd!PlacesOf(key)
                 values == {Statsd!Value(p) : p \in places}
             IN  CASE s.type = "set" -> s.unique = Statsd!Cardinality(values)
                   [] s.type = "counter" ->
                          /\ s.count = Statsd!Cardinality(places)
                          /\ s.sum = Statsd!SumFunction([p \in places |-> Statsd!Value(p) * history[p[1]].scale])
                   [] OTHER ->
                          /\ s.count = Statsd!Cardinality(places)
                          /\ s.sum = Statsd!SumFunction([p \in places |-> Statsd!Value(p)])
                          /\ LET newest == history[Statsd!Max(Statsd!LinesOf(key))].values
                             IN  s.last = newest[Len(newest)]
                          /\ s.min = Statsd!Min(values) /\ s.max = Statsd!Max(values \cup {0})
  <2>. DEFINE s == series[key]
              P == PlacesIn(history, key)
              values == {ValueAt(history, p) : p \in P}
              lines == NamedIn(history, key)
  <2>1. Told(s, history, key) /\ \A i \in lines : history[i].kind = s.type
    BY <1>2, <1>3, <1>4
  <2>2. Statsd!PlacesOf(key) = P /\ Statsd!LinesOf(key) = lines
        /\ {Statsd!Value(p) : p \in Statsd!PlacesOf(key)} = values
    BY <1>3
  <2>3. /\ \A p \in P : /\ p[1] \in lines /\ ValueAt(history, p) \in Int
                        /\ history[p[1]].kind = s.type
        /\ values \in SUBSET Int
    BY <1>2, <2>1, PlaceValues
  <2>4. CASE s.type = "set"
    <3>1. s.unique = Cardinality(values)
      <4>. HIDE DEF s
      <4>. QED  BY <2>1, <2>4 DEF Told
    <3>2. s.unique = Statsd!Cardinality({Statsd!Value(p) : p \in Statsd!PlacesOf(key)})
      <4>. HIDE DEF values, s
      <4>. QED  BY <2>2, <3>1, StatsdCardinality
    <3>. QED  BY <2>4, <3>2
  <2>5. ASSUME s.type # "set"
        PROVE  /\ Sampled(s, history, P, s.type)
               /\ \A i \in lines :
                      (\A k \in lines : k <= i) => s.last = history[i].values[Len(history[i].values)]
    <3>. HIDE DEF s
    <3>. QED  BY <2>1, <2>5 DEF Told
  <2>6. CASE s.type = "counter"
    <3>1. s.count = Cardinality(P) /\ s.sum = SumFunctionOnSet([p \in P |-> WorthAt(history, p)], P)
      <4>. HIDE DEF s, P, lines
      <4>. QED  BY <2>5, <2>6 DEF Sampled
    <3>2. [p \in P |-> WorthAt(history, p)] = [p \in P |-> Statsd!Value(p) * history[p[1]].scale]
      <4>1. \A p \in P : WorthAt(history, p) = Statsd!Value(p) * history[p[1]].scale
        <5>. HIDE DEF P, s
        <5>. QED  BY <1>3, <2>3, <2>6 DEF WorthAt
      <4>. HIDE DEF P
      <4>. QED  BY <4>1
    <3>3. s.sum = Statsd!SumFunction([p \in Statsd!PlacesOf(key) |-> Statsd!Value(p) * history[p[1]].scale])
      <4>. DEFINE f == [p \in P |-> Statsd!Value(p) * history[p[1]].scale]
      <4>1. s.sum = SumFunctionOnSet(f, P) /\ DOMAIN f = P
        BY <3>1, <3>2
      <4>2. s.sum = Statsd!SumFunction(f)
        <5>. HIDE DEF f, s, P
        <5>. QED  BY <4>1, StatsdCardinality
      <4>. HIDE DEF P
      <4>. QED  BY <2>2, <4>2
    <3>4. s.count = Statsd!Cardinality(Statsd!PlacesOf(key))
      BY <2>2, <3>1, StatsdCardinality
    <3>. QED  BY <2>6, <3>3, <3>4
  <2>7. CASE s.type \notin {"set", "counter"}
    <3>1. /\ s.count = Cardinality(P) /\ s.sum = SumFunctionOnSet([p \in P |-> WorthAt(history, p)], P)
          /\ \A p \in P : s.min <= ValueAt(history, p) /\ ValueAt(history, p) <= s.max
          /\ 0 <= s.max /\ (s.max = 0 \/ \E p \in P : s.max = ValueAt(history, p))
          /\ P # {} => \E p \in P : s.min = ValueAt(history, p)
      <4>. HIDE DEF s, P, lines
      <4>. QED  BY <2>5, <2>7 DEF Sampled
    <3>2. s.count = Statsd!Cardinality(Statsd!PlacesOf(key))
      BY <2>2, <3>1, StatsdCardinality
    <3>3. s.sum = Statsd!SumFunction([p \in Statsd!PlacesOf(key) |-> Statsd!Value(p)])
      <4>. DEFINE f == [p \in P |-> Statsd!Value(p)]
      <4>1. \A p \in P : WorthAt(history, p) = Statsd!Value(p)
        <5>. HIDE DEF P, s
        <5>. QED  BY <1>3, <2>3, <2>7 DEF WorthAt
      <4>2. [p \in P |-> WorthAt(history, p)] = f
        <5>. HIDE DEF P
        <5>. QED  BY <4>1
      <4>3. s.sum = Statsd!SumFunction(f)
        <5>1. DOMAIN f = P
          OBVIOUS
        <5>2. s.sum = SumFunctionOnSet(f, P)
          BY <3>1, <4>2
        <5>. HIDE DEF f, s, P
        <5>. QED  BY <5>1, <5>2, StatsdCardinality
      <4>. HIDE DEF P
      <4>. QED  BY <2>2, <4>3
    <3>4. lines # {} /\ lines \in SUBSET (1 .. Len(history))
      <4>1. \E i \in lines : history[i].kind = s.type
        BY <2>1 DEF Told
      <4>. QED  BY <1>2, <4>1 DEF NamedIn
    <3>5. P # {}
      <4>1. PICK i \in lines : TRUE
        BY <3>4
      <4>2. history[i] \in Lines /\ Statsd!IsMetric(history[i])
        BY <1>2, <4>1 DEF NamedIn
      <4>3. history[i].values \in Seq(Int) /\ history[i].values # <<>>
        BY <4>2, StatsdAssumption DEF Statsd!IsMetric
      <4>4. 1 \in DOMAIN history[i].values
        BY <4>3
      <4>5. <<i, 1>> \in P
        <5>. HIDE DEF lines
        <5>1. <<i, 1>> \in {i} \X DOMAIN history[i].values
          BY <4>4
        <5>. QED  BY <4>1, <5>1 DEF PlacesIn, lines
      <4>. QED  BY <4>5
    <3>6. LET newest == history[Statsd!Max(lines)].values
          IN  s.last = newest[Len(newest)]
      <4>1. lines \in SUBSET Int /\ IsFiniteSet(lines)
        <5>1. Len(history) \in Nat /\ IsFiniteSet(1 .. Len(history))
          BY <1>2, FS_Interval
        <5>2. lines \in SUBSET Int
          BY <3>4
        <5>. HIDE DEF lines
        <5>. QED  BY <3>4, <5>1, <5>2, FS_Subset
      <4>2. PICK m \in lines : \A k \in lines : k <= m
        <5>. HIDE DEF lines
        <5>. QED  BY <3>4, <4>1, LargestOf
      <4>3. Statsd!Max(lines) = m
        <5>. HIDE DEF lines
        <5>1. \A x \in lines : m >= x
          BY <4>1, <4>2
        <5>. QED  BY <4>1, <5>1, LargestIs
      <4>4. s.last = history[m].values[Len(history[m].values)]
        <5>. HIDE DEF s, lines
        <5>. QED  BY <2>5, <2>7, <4>2
      <4>. HIDE DEF s, lines
      <4>. QED  BY <4>3, <4>4
    <3>7. s.min \in Int /\ s.max \in Int
      <4>. HIDE DEF s
      <4>. QED  BY <2>1 DEF Told, SeriesRecord
    <3>8. s.min = Statsd!Min(values)
      <4>1. s.min \in values /\ \A x \in values : s.min <= x
        <5>. HIDE DEF s, P
        <5>. QED  BY <3>1, <3>5
      <4>. HIDE DEF s, values
      <4>. QED  BY <2>3, <4>1, LeastIs
    <3>9. s.max = Statsd!Max(values \cup {0})
      <4>1. s.max \in values \cup {0} /\ \A x \in values \cup {0} : s.max >= x
        <5>1. s.max \in values \cup {0}
          <6>. HIDE DEF s, P
          <6>. QED  BY <3>1
        <5>2. \A x \in values : s.max >= x
          <6>. HIDE DEF s, P
          <6>. QED  BY <2>3, <3>1, <3>7
        <5>3. s.max >= 0
          <6>. HIDE DEF s, P
          <6>. QED  BY <3>1, <3>7
        <5>. HIDE DEF s, values
        <5>. QED  BY <5>1, <5>2, <5>3
      <4>2. values \cup {0} \in SUBSET Int
        <5>. HIDE DEF values
        <5>. QED  BY <2>3
      <4>. HIDE DEF s, values
      <4>. QED  BY <4>1, <4>2, LargestIs
    <3>. HIDE DEF P, lines, values
    <3>. QED  BY <2>2, <2>7, <3>2, <3>3, <3>6, <3>8, <3>9
  <2>. QED  BY <2>4, <2>6, <2>7
<1>. QED  BY <1>2, <1>4, Zenon DEF Statsd!SeriesTellHistory

-----------------------------------------------------------------------------
(* JournalAnalysis: the secrets.                                            *)

\* What setJournalSnapshot is given.
Readable(list) ==
    /\ Len(list) \in Nat /\ DOMAIN list = 1 .. Len(list)
    /\ \A i \in DOMAIN list : list[i].time \in Int /\ list[i].message \in Messages

MessagesOf(list) == [i \in DOMAIN list |-> list[i].message]

LEMMA AnalysisSums ==
    /\ \A S : Analysis!Cardinality(S) = Cardinality(S)
    /\ \A f : Analysis!SumFunction(f) = SumFunctionOnSet(f, DOMAIN f)
    /\ \A f : Analysis!Range(f) = ValuesOf(f)
    /\ \A S : Analysis!Min(S) = CHOOSE x \in S : \A y \in S : x <= y
    /\ \A S : Analysis!Max(S) = CHOOSE x \in S : \A y \in S : x >= y
BY Zenon DEF Analysis!SumFunction, Analysis!SumFunctionOnSet, Analysis!FoldFunctionOnSet,
     Analysis!MapThenFoldSet, SumFunctionOnSet, FoldFunctionOnSet, MapThenFoldSet,
     Analysis!Cardinality, Cardinality, Analysis!Range, Analysis!Max, Analysis!Min, ValuesOf

LEMMA AnalysisExtremes ==
    ASSUME NEW S \in SUBSET Int, IsFiniteSet(S), S # {}
    PROVE  /\ Analysis!Max(S) \in S /\ \A y \in S : y <= Analysis!Max(S)
           /\ Analysis!Min(S) \in S /\ \A y \in S : Analysis!Min(S) <= y
<1>1. PICK a \in S : \A y \in S : y <= a
  BY LargestOf
<1>2. \A y \in S : a >= y
  BY <1>1
<1>3. PICK b \in S : \A y \in S : b <= y
  BY LeastWhole
<1>4. Analysis!Max(S) \in S /\ \A y \in S : Analysis!Max(S) >= y
  BY <1>2, AnalysisSums, Zenon
<1>5. Analysis!Min(S) \in S /\ \A y \in S : Analysis!Min(S) <= y
  BY <1>3, AnalysisSums, Zenon
<1>6. \A y \in S : y <= Analysis!Max(S)
  BY <1>4
<1>. QED  BY <1>4, <1>5, <1>6

LEMMA ForemostIs ==
    ASSUME NEW all, IsFiniteSet(all), NEW w, \A a \in all : w[a] \in Int,
           NEW n \in Nat, n <= Cardinality(all)
    PROVE  /\ Analysis!Foremost(all, n, w) \in [1 .. n -> all]
           /\ InTurn(Analysis!Foremost(all, n, w), n, all, w)
<1>1. \A f : Analysis!Range(f) = ValuesOf(f)
  BY Zenon DEF Analysis!Range, ValuesOf
<1>2. \A s : (s \in [1 .. n -> all] /\ InTurn(s, n, all, w))
             <=> (/\ s \in [1 .. n -> all]
                  /\ \A i, j \in 1 .. n : i < j => s[i] # s[j] /\ w[s[i]] >= w[s[j]]
                  /\ \A left \in all \ Analysis!Range(s) : \A i \in 1 .. n : w[s[i]] >= w[left])
  BY <1>1, Zenon DEF InTurn
<1>3. Analysis!Foremost(all, n, w) = CHOOSE s : s \in [1 .. n -> all] /\ InTurn(s, n, all, w)
  BY <1>2, Zenon DEF Analysis!Foremost
<1>4. \E s : s \in [1 .. n -> all] /\ InTurn(s, n, all, w)
  BY TurnsExist
<1>. QED  BY <1>3, <1>4, Zenon

SecretRules == Analysis!SensitiveRules \cup {"credit-card"}

LEMMA RulesAreFinite == IsFiniteSet(SecretRules)
<1>. DEFINE rules == <<"aws-access-token", "github-pat", "github-oauth", "github-refresh-token",
                       "private-key", "jwt", "stripe-access-token", "slack-webhook-url",
                       "generic-api-key", "email", "credit-card">>
<1>1. rules \in Surjection(1 .. 11, SecretRules)
  BY DEF Surjection, SecretRules, Analysis!SensitiveRules
<1>2. IsFiniteSet(1 .. 11)
  <2>1. 1 \in Int /\ 11 \in Int
    OBVIOUS
  <2>. QED  BY <2>1, FS_Interval, Zenon
<1>. HIDE DEF rules
<1>. QED  BY <1>1, <1>2, FS_Surjection

\* The findings are at finitely many places of a message.
LEMMA HitsAreFinite ==
    ASSUME NEW m \in Messages, NEW rule
    PROVE  IsFiniteSet(Analysis!ScanLine(m, rule)) /\ Analysis!ScanLine(m, rule) \in SUBSET Nat
<1>1. Len(m.secrets) \in Nat /\ DOMAIN m.secrets = 1 .. Len(m.secrets)
  BY AnalysisAssumption
<1>2. Len(m.cards) \in Nat /\ DOMAIN m.cards = 1 .. Len(m.cards)
  BY AnalysisAssumption
<1>3. \/ Analysis!ScanLine(m, rule) \in SUBSET (1 .. Len(m.secrets))
      \/ Analysis!ScanLine(m, rule) \in SUBSET (1 .. Len(m.cards))
  BY <1>1, <1>2 DEF Analysis!ScanLine
<1>4. IsFiniteSet(1 .. Len(m.secrets)) /\ IsFiniteSet(1 .. Len(m.cards))
  BY <1>1, <1>2, FS_Interval
<1>. QED  BY <1>1, <1>2, <1>3, <1>4, FS_Subset

FoundAt(m, i, rule) == {<<i, rule, n>> : n \in Analysis!ScanLine(m, rule)}
FoundOf(messages, rule) == {f \in Analysis!Found(messages) : f[2] = rule}
FirstLine(messages, rule) == Analysis!Min({f[1] : f \in FoundOf(messages, rule)})
FirstSample(messages, rule) ==
    Analysis!SampleAt(messages[FirstLine(messages, rule)], rule,
        Analysis!Min(Analysis!ScanLine(messages[FirstLine(messages, rule)], rule)))

LEMMA FindingsAre ==
    ASSUME NEW messages, NEW f
    PROVE  f \in Analysis!Found(messages)
               <=> \E i \in DOMAIN messages, rule \in SecretRules :
                       \E n \in Analysis!ScanLine(messages[i], rule) : f = <<i, rule, n>>
<1>1. Analysis!Found(messages)
          = UNION {FoundAt(messages[i], i, rule) : i \in DOMAIN messages, rule \in SecretRules}
  BY DEF Analysis!Found, FoundAt, SecretRules
<1>2. f \in Analysis!Found(messages)
          <=> \E i \in DOMAIN messages, rule \in SecretRules : f \in FoundAt(messages[i], i, rule)
  BY <1>1
<1>. QED  BY <1>2, Zenon DEF FoundAt

LEMMA FindingsAreFinite ==
    ASSUME NEW messages \in Seq(Messages)
    PROVE  IsFiniteSet(Analysis!Found(messages))
<1>. DEFINE At == (DOMAIN messages) \X SecretRules
            parts == {FoundAt(messages[i], i, rule) : i \in DOMAIN messages, rule \in SecretRules}
            g == [p \in At |-> FoundAt(messages[p[1]], p[1], p[2])]
<1>1. IsFiniteSet(At)
  <2>1. IsFiniteSet(DOMAIN messages)
    BY FS_Interval
  <2>. QED  BY <2>1, RulesAreFinite, FS_Product
<1>2. g \in Surjection(At, parts)
  <2>1. ASSUME NEW i \in DOMAIN messages, NEW rule \in SecretRules
        PROVE  \E p \in At : g[p] = FoundAt(messages[i], i, rule)
    <3>1. <<i, rule>> \in At /\ g[<<i, rule>>] = FoundAt(messages[i], i, rule)
      OBVIOUS
    <3>. QED  BY <3>1, Zenon
  <2>2. \A s \in parts : \E p \in At : g[p] = s
    <3>. HIDE DEF g, At
    <3>. QED  BY <2>1
  <2>3. g \in [At -> parts]
    OBVIOUS
  <2>. HIDE DEF g, At, parts
  <2>. QED  BY <2>2, <2>3 DEF Surjection
<1>3. IsFiniteSet(parts)
  <2>. HIDE DEF g, At, parts
  <2>. QED  BY <1>1, <1>2, FS_Surjection
<1>4. ASSUME NEW i \in DOMAIN messages, NEW rule \in SecretRules
      PROVE  IsFiniteSet(FoundAt(messages[i], i, rule))
  <2>. DEFINE hits == Analysis!ScanLine(messages[i], rule)
              h == [n \in hits |-> <<i, rule, n>>]
  <2>1. IsFiniteSet(hits)
    BY HitsAreFinite
  <2>2. h \in Surjection(hits, FoundAt(messages[i], i, rule))
    BY DEF Surjection, FoundAt
  <2>. HIDE DEF hits, h
  <2>. QED  BY <2>1, <2>2, FS_Surjection
<1>5. \A s \in parts : IsFiniteSet(s)
  BY <1>4
<1>6. Analysis!Found(messages) = UNION parts
  BY DEF Analysis!Found, FoundAt, SecretRules
<1>. HIDE DEF parts
<1>. QED  BY <1>3, <1>5, <1>6, FS_UNION

\* The first line with a finding of a rule.
LEMMA FirstLineIs ==
    ASSUME NEW messages \in Seq(Messages), NEW rule, FoundOf(messages, rule) # {}
    PROVE  /\ FirstLine(messages, rule) \in DOMAIN messages
           /\ Analysis!ScanLine(messages[FirstLine(messages, rule)], rule) # {}
           /\ \A j \in 1 .. FirstLine(messages, rule) - 1 : Analysis!ScanLine(messages[j], rule) = {}
<1>. DEFINE lines == {f[1] : f \in FoundOf(messages, rule)}
<1>1. \A f \in FoundOf(messages, rule) :
          /\ f[1] \in DOMAIN messages /\ rule \in SecretRules
          /\ Analysis!ScanLine(messages[f[1]], rule) # {}
  BY FindingsAre DEF FoundOf
<1>2. PICK e \in FoundOf(messages, rule) : TRUE
  OBVIOUS
<1>3. rule \in SecretRules
  BY <1>1, <1>2
<1>4. lines \subseteq DOMAIN messages /\ lines # {}
      /\ \A i \in lines : Analysis!ScanLine(messages[i], rule) # {}
  BY <1>1, <1>2
<1>5. DOMAIN messages = 1 .. Len(messages) /\ Len(messages) \in Nat
  OBVIOUS
<1>6. ASSUME NEW i \in DOMAIN messages, Analysis!ScanLine(messages[i], rule) # {}  PROVE i \in lines
  <2>1. PICK n \in Analysis!ScanLine(messages[i], rule) : TRUE
    BY <1>6
  <2>2. <<i, rule, n>> \in Analysis!Found(messages)
    BY <1>3, <2>1, FindingsAre, Zenon
  <2>3. <<i, rule, n>> \in FoundOf(messages, rule)
    BY <2>2 DEF FoundOf
  <2>. QED  BY <2>3
<1>. HIDE DEF lines
<1>7. lines \in SUBSET Int /\ IsFiniteSet(lines)
  <2>1. IsFiniteSet(DOMAIN messages) /\ DOMAIN messages \subseteq Int
    BY <1>5, FS_Interval
  <2>. QED  BY <1>4, <2>1, FS_Subset
<1>8. FirstLine(messages, rule) = Analysis!Min(lines)
  BY Zenon DEF FirstLine, lines
<1>9. Analysis!Min(lines) \in lines /\ \A i \in lines : Analysis!Min(lines) <= i
  BY <1>4, <1>7, AnalysisExtremes
<1>10. ASSUME NEW j \in 1 .. Analysis!Min(lines) - 1  PROVE Analysis!ScanLine(messages[j], rule) = {}
  <2>1. Analysis!Min(lines) \in 1 .. Len(messages)
    BY <1>4, <1>5, <1>9
  <2>2. j \in 1 .. Len(messages) /\ ~ (Analysis!Min(lines) <= j)
    BY <2>1
  <2>3. j \notin lines
    BY <1>9, <2>2
  <2>. QED  BY <1>5, <1>6, <2>2, <2>3
<1>11. Analysis!Min(lines) \in DOMAIN messages /\ Analysis!ScanLine(messages[Analysis!Min(lines)], rule) # {}
  BY <1>4, <1>9
<1>. QED  BY <1>8, <1>10, <1>11

LEMMA ReportIs ==
    ASSUME NEW messages
    PROVE  Analysis!ScanLines(messages) =
               [scanned |-> Len(messages), findings |-> Cardinality(Analysis!Found(messages)),
                byRule |-> [rule \in {f[2] : f \in Analysis!Found(messages)} |->
                               [count |-> Cardinality(FoundOf(messages, rule)),
                                sample |-> FirstSample(messages, rule)]]]
<1>1. \A S : Analysis!Cardinality(S) = Cardinality(S)
  BY AnalysisSums
<1>. QED  BY <1>1, Zenon DEF Analysis!ScanLines, FoundOf, FirstSample, FirstLine

\* Every finding belongs to one rule.
LEMMA FindingsOfRules ==
    ASSUME NEW messages \in Seq(Messages)
    PROVE  LET byRule == Analysis!ScanLines(messages).byRule
           IN  /\ DOMAIN byRule = {f[2] : f \in Analysis!Found(messages)}
               /\ SumFunctionOnSet([r \in DOMAIN byRule |-> byRule[r].count], DOMAIN byRule)
                      = Cardinality(Analysis!Found(messages))
<1>. DEFINE findings == Analysis!Found(messages)
            G == {f[2] : f \in findings}
            byRule == Analysis!ScanLines(messages).byRule
            cls == [r \in G |-> FoundOf(messages, r)]
            count == [r \in G |-> byRule[r].count]
<1>1. DOMAIN byRule = G /\ \A r \in G : byRule[r].count = Cardinality(FoundOf(messages, r))
  BY ReportIs
<1>2. IsFiniteSet(findings)
  BY FindingsAreFinite
<1>3. IsFiniteSet(G)
  <2>. DEFINE g == [f \in findings |-> f[2]]
  <2>1. g \in Surjection(findings, G)
    BY DEF Surjection
  <2>. HIDE DEF g, findings, G
  <2>. QED  BY <1>2, <2>1, FS_Surjection
<1>4. cls \in [G -> SUBSET findings]
  BY DEF FoundOf
<1>5. \A T \in SUBSET findings : Cardinality(T) \in Nat
  <2>. HIDE DEF findings
  <2>1. \A T \in SUBSET findings : IsFiniteSet(T)
    BY <1>2, FS_Subset
  <2>. QED  BY <2>1, FS_CardinalityType
<1>6. \A r \in G : count[r] = Cardinality(cls[r])
  BY <1>1
<1>7. count \in [G -> Int]
  <2>1. \A r \in G : count[r] \in Nat
    <3>. HIDE DEF findings, G, cls, count
    <3>. QED  BY <1>4, <1>5, <1>6
  <2>. HIDE DEF G, byRule
  <2>. QED  BY <2>1
<1>8. \A r, q \in G : r # q => cls[r] \cap cls[q] = {}
  BY DEF FoundOf
<1>9. UNION {cls[r] : r \in G} = findings
  <2>1. \A f \in findings : f[2] \in G /\ f \in cls[f[2]]
    BY DEF FoundOf
  <2>. HIDE DEF findings, G, cls
  <2>. QED  BY <1>4, <2>1
<1>10. SumFunctionOnSet(count, G) = Cardinality(UNION {cls[r] : r \in G})
  <2>. HIDE DEF findings, G, cls, count
  <2>. QED  BY <1>2, <1>3, <1>4, <1>6, <1>7, <1>8, SumOfClasses
<1>11. [r \in DOMAIN byRule |-> byRule[r].count] = count
  <2>. HIDE DEF byRule, G
  <2>. QED  BY <1>1
<1>. HIDE DEF byRule, count, cls, G, findings
<1>12. DOMAIN byRule = G
       /\ SumFunctionOnSet([r \in DOMAIN byRule |-> byRule[r].count], DOMAIN byRule) = Cardinality(findings)
  BY <1>1, <1>9, <1>10, <1>11
<1>. QED  BY <1>12 DEF byRule, G, findings

LEMMA SecretsAgree ==
    ASSUME Readable(entries), secrets = Analysis!ScanLines(MessagesOf(entries))
    PROVE  Analysis!SecretsAddUp
<1>. DEFINE messages == MessagesOf(entries)
<1>1. messages \in Seq(Messages) /\ DOMAIN messages = DOMAIN entries
      /\ \A i \in DOMAIN entries : messages[i] = entries[i].message
  BY DEF MessagesOf, Readable
<1>. HIDE DEF messages
<1>2. secrets = Analysis!ScanLines(messages)
  BY DEF messages
<1>3. /\ secrets.findings = Cardinality(Analysis!Found(messages))
      /\ \A r \in {f[2] : f \in Analysis!Found(messages)} :
             secrets.byRule[r].sample = FirstSample(messages, r)
  <2>. DEFINE byRule == [r \in {f[2] : f \in Analysis!Found(messages)} |->
                            [count |-> Cardinality(FoundOf(messages, r)),
                             sample |-> FirstSample(messages, r)]]
  <2>1. secrets = [scanned |-> Len(messages), findings |-> Cardinality(Analysis!Found(messages)),
                   byRule |-> byRule]
    BY <1>2, ReportIs, Zenon
  <2>2. \A r \in {f[2] : f \in Analysis!Found(messages)} : byRule[r].sample = FirstSample(messages, r)
    OBVIOUS
  <2>. HIDE DEF byRule
  <2>. QED  BY <2>1, <2>2
<1>4. Analysis!SumFunction([r \in DOMAIN secrets.byRule |-> secrets.byRule[r].count])
          = SumFunctionOnSet([r \in DOMAIN secrets.byRule |-> secrets.byRule[r].count], DOMAIN secrets.byRule)
  <2>. DEFINE count == [r \in DOMAIN secrets.byRule |-> secrets.byRule[r].count]
  <2>1. DOMAIN count = DOMAIN secrets.byRule
    OBVIOUS
  <2>2. Analysis!SumFunction(count) = SumFunctionOnSet(count, DOMAIN count)
    BY AnalysisSums, Zenon
  <2>. HIDE DEF count
  <2>3. Analysis!SumFunction(count) = SumFunctionOnSet(count, DOMAIN secrets.byRule)
    BY <2>1, <2>2
  <2>. QED  BY <2>3, Zenon DEF count
<1>5. secrets.findings = Analysis!SumFunction([r \in DOMAIN secrets.byRule |-> secrets.byRule[r].count])
  BY <1>1, <1>2, <1>3, <1>4, FindingsOfRules, Zenon
<1>6. ASSUME NEW r \in DOMAIN secrets.byRule
      PROVE  \E i \in DOMAIN entries :
                 /\ \E n \in Analysis!ScanLine(entries[i].message, r) :
                        secrets.byRule[r].sample = Analysis!SampleAt(entries[i].message, r, n)
                 /\ \A j \in 1 .. (i - 1) : Analysis!ScanLine(entries[j].message, r) = {}
  <2>. DEFINE i == FirstLine(messages, r)
              hits == Analysis!ScanLine(messages[i], r)
              n == Analysis!Min(hits)
  <2>1. DOMAIN secrets.byRule = {f[2] : f \in Analysis!Found(messages)}
    BY <1>1, <1>2, FindingsOfRules, Zenon
  <2>2. FoundOf(messages, r) # {}
    BY <1>6, <2>1 DEF FoundOf
  <2>3. i \in DOMAIN messages /\ hits # {} /\ \A j \in 1 .. i - 1 : Analysis!ScanLine(messages[j], r) = {}
    BY <1>1, <2>2, FirstLineIs
  <2>4. secrets.byRule[r].sample = FirstSample(messages, r)
    BY <1>3, <1>6, <2>1
  <2>5. FirstSample(messages, r) = Analysis!SampleAt(messages[i], r, n)
    BY Zenon DEF FirstSample
  <2>6. IsFiniteSet(hits) /\ hits \in SUBSET Int
    <3>1. messages[i] \in Messages
      BY <1>1, <2>3
    <3>2. \A k \in Nat : k \in Int
      OBVIOUS
    <3>. QED  BY <3>1, <3>2, HitsAreFinite
  <2>7. n \in hits
    <3>. HIDE DEF hits
    <3>. QED  BY <2>3, <2>6, AnalysisExtremes
  <2>8. messages[i] = entries[i].message
    BY <1>1, <2>3
  <2>9. ASSUME NEW j \in 1 .. i - 1  PROVE Analysis!ScanLine(entries[j].message, r) = {}
    <3>1. DOMAIN messages = 1 .. Len(messages) /\ Len(messages) \in Nat
      BY <1>1
    <3>2. j \in DOMAIN entries
      <4>. HIDE DEF i
      <4>. QED  BY <1>1, <2>3, <3>1
    <3>. QED  BY <1>1, <2>3, <3>2
  <2>10. i \in DOMAIN entries
    BY <1>1, <2>3
  <2>. HIDE DEF i, n
  <2>. QED  BY <2>4, <2>5, <2>7, <2>8, <2>9, <2>10
<1>. QED  BY <1>5, <1>6, Zenon DEF Analysis!SecretsAddUp

-----------------------------------------------------------------------------
(* JournalAnalysis: the facets.                                             *)

TimesOf(values, v) == Cardinality({i \in DOMAIN values : values[i] = v})

\* A list of counts tells how often its values come, and leaves out no others
\* unless it is full and they come less often.
CountRanks(list, values) ==
    /\ Len(list) \in Nat /\ DOMAIN list = 1 .. Len(list)
    /\ \A f \in ValuesOf(list) : f.count = TimesOf(values, f.value) /\ f.value # ""
    /\ \A v \in ValuesOf(values) \ {""} :
           v \notin {f.value : f \in ValuesOf(list)} =>
               Len(list) = ThreatLimit /\ \A f \in ValuesOf(list) : f.count >= TimesOf(values, v)

LEMMA CountsAreRanked ==
    ASSUME NEW values, IsFiniteSet(DOMAIN values)
    PROVE  CountRanks(Analysis!SortedCounts(values), values)
<1>. DEFINE names == ValuesOf(values) \ {""}
            Row(v) == [value |-> v, count |-> TimesOf(values, v)]
            all == {Row(v) : v \in names}
            n == Analysis!Min({Cardinality(all), ThreatLimit})
            weight == [c \in all |-> c.count]
            list == Analysis!SortedCounts(values)
<1>1. list = Analysis!Foremost(all, n, weight)
  <2>1. \A S : Analysis!Cardinality(S) = Cardinality(S)
    BY AnalysisSums
  <2>2. Analysis!Range(values) = ValuesOf(values)
    BY AnalysisSums
  <2>. QED  BY <2>1, <2>2, Zenon DEF Analysis!SortedCounts, TimesOf
<1>2. \A v : TimesOf(values, v) \in Nat
  <2>1. \A v : {i \in DOMAIN values : values[i] = v} \in SUBSET (DOMAIN values)
    OBVIOUS
  <2>2. \A v : IsFiniteSet({i \in DOMAIN values : values[i] = v})
    BY <2>1, FS_Subset
  <2>. QED  BY <2>2, FS_CardinalityType DEF TimesOf
<1>3. IsFiniteSet(all)
  <2>1. IsFiniteSet(ValuesOf(values))
    <3>1. values \in Surjection(DOMAIN values, ValuesOf(values)) \/ TRUE
      OBVIOUS
    <3>. DEFINE g == [i \in DOMAIN values |-> values[i]]
    <3>2. g \in Surjection(DOMAIN values, ValuesOf(values))
      BY DEF Surjection, ValuesOf
    <3>. HIDE DEF g
    <3>. QED  BY <3>2, FS_Surjection
  <2>2. IsFiniteSet(names)
    <3>1. names \in SUBSET ValuesOf(values)
      OBVIOUS
    <3>. HIDE DEF names
    <3>. QED  BY <2>1, <3>1, FS_Subset
  <2>. DEFINE h == [v \in names |-> Row(v)]
  <2>3. h \in Surjection(names, all)
    BY DEF Surjection
  <2>. HIDE DEF h, names, all
  <2>. QED  BY <2>2, <2>3, FS_Surjection
<1>4. \A c \in all : /\ c.count = TimesOf(values, c.value) /\ c.value # "" /\ c.count \in Nat
                     /\ weight[c] = c.count
  <2>1. \A v \in names : Row(v).value = v /\ Row(v).count = TimesOf(values, v)
    OBVIOUS
  <2>2. \A c \in all : weight[c] = c.count
    <3>. HIDE DEF all
    <3>. QED  OBVIOUS
  <2>3. \A c \in all : c.count = TimesOf(values, c.value) /\ c.value # ""
    <3>. HIDE DEF Row
    <3>. QED  BY <2>1
  <2>. HIDE DEF all, weight
  <2>. QED  BY <1>2, <2>2, <2>3
<1>5. \A v \in names : Row(v) \in all /\ Row(v).value = v /\ Row(v).count = TimesOf(values, v)
  OBVIOUS
<1>. HIDE DEF all, weight, names, Row, list
<1>6. Cardinality(all) \in Nat /\ ThreatLimit \in Nat
  BY <1>3, FS_CardinalityType, AnalysisAssumption
<1>7. n \in {Cardinality(all), ThreatLimit} /\ n <= Cardinality(all)
  <2>. DEFINE two == {Cardinality(all), ThreatLimit}
  <2>1. IsFiniteSet(two) /\ two \in SUBSET Int /\ two # {} /\ Cardinality(all) \in two
    <3>1. IsFiniteSet({Cardinality(all)}) /\ IsFiniteSet({ThreatLimit})
      BY FS_Singleton
    <3>2. two = {Cardinality(all)} \cup {ThreatLimit}
      OBVIOUS
    <3>. HIDE DEF two
    <3>3. IsFiniteSet(two)
      BY <3>1, <3>2, FS_Union
    <3>. QED  BY <1>6, <3>2, <3>3
  <2>. HIDE DEF two
  <2>2. Analysis!Min(two) \in two /\ \A y \in two : Analysis!Min(two) <= y
    BY <2>1, AnalysisExtremes
  <2>. QED  BY <2>1, <2>2 DEF two
<1>. HIDE DEF n
<1>8. n \in Nat /\ \A c \in all : weight[c] \in Int
  <2>1. n \in Nat
    BY <1>6, <1>7
  <2>2. \A k \in Nat : k \in Int
    OBVIOUS
  <2>. QED  BY <1>4, <2>1, <2>2, Zenon
<1>9. list \in [1 .. n -> all] /\ InTurn(list, n, all, weight)
  BY <1>1, <1>3, <1>7, <1>8, ForemostIs
<1>10. Len(list) = n /\ DOMAIN list = 1 .. n /\ ValuesOf(list) \subseteq all
  BY <1>8, <1>9 DEF ValuesOf
<1>11. ASSUME NEW v \in names, v \notin {f.value : f \in ValuesOf(list)}
       PROVE  n = ThreatLimit /\ \A f \in ValuesOf(list) : f.count >= TimesOf(values, v)
  <2>1. Row(v) \in all \ ValuesOf(list) /\ weight[Row(v)] = TimesOf(values, v)
    <3>1. Row(v) \notin ValuesOf(list)
      BY <1>5, <1>11
    <3>. QED  BY <1>4, <1>5, <3>1
  <2>2. \A i \in 1 .. n : weight[list[i]] >= weight[Row(v)]
    BY <1>9, <2>1 DEF InTurn
  <2>3. \A f \in ValuesOf(list) : weight[f] >= weight[Row(v)]
    BY <1>10, <2>2 DEF ValuesOf
  <2>4. \A f \in ValuesOf(list) : f.count >= TimesOf(values, v)
    BY <1>4, <1>10, <2>1, <2>3
  <2>5. ASSUME n = Cardinality(all)  PROVE FALSE
    <3>. DEFINE G == 1 .. n
    <3>1. IsFiniteSet(G) /\ Cardinality(G) = n
      BY <1>8, FS_Interval
    <3>2. ASSUME NEW i \in G, NEW j \in G, i # j  PROVE list[i] # list[j]
      <4>1. i < j \/ j < i
        BY <1>8, <3>2
      <4>. QED  BY <1>9, <4>1 DEF InTurn
    <3>3. list \in Injection(G, all)
      BY <1>9, <3>2 DEF Injection, IsInjective
    <3>4. list \in Surjection(G, all)
      <4>. HIDE DEF G
      <4>. QED  BY <1>3, <2>5, <3>1, <3>3, FS_Injection
    <3>5. Row(v) \in ValuesOf(list)
      <4>. HIDE DEF G
      <4>. QED  BY <2>1, <3>4, <1>9 DEF Surjection, ValuesOf
    <3>. QED  BY <2>1, <3>5
  <2>. QED  BY <1>7, <2>4, <2>5
<1>12. \A v \in names : v \notin {f.value : f \in ValuesOf(list)} =>
           Len(list) = ThreatLimit /\ \A f \in ValuesOf(list) : f.count >= TimesOf(values, v)
  BY <1>10, <1>11
<1>13. Len(list) \in Nat /\ DOMAIN list = 1 .. Len(list)
       /\ \A f \in ValuesOf(list) : f.count = TimesOf(values, f.value) /\ f.value # ""
  BY <1>4, <1>8, <1>10
<1>14. CountRanks(list, values)
  BY <1>12, <1>13, Zenon DEF CountRanks, names
<1>. QED  BY <1>14 DEF list

LevelAt(i) == Analysis!Severity(Analysis!FieldsOf(entries[i].message).text)
KnownAt == {i \in DOMAIN entries : DOMAIN entries[i].message.parses # {}}

LEMMA FacetsAre ==
    ASSUME Readable(entries), facets \in Analysis!Facets(MessagesOf(entries))
    PROVE  /\ facets.total = Len(MessagesOf(entries)) /\ facets.parsed = Cardinality(KnownAt)
           /\ facets.levels = Analysis!SortedCounts([i \in KnownAt |-> LevelAt(i)])
<1>. DEFINE messages == MessagesOf(entries)
            parsed == {i \in DOMAIN messages : DOMAIN messages[i].parses # {}}
            levels == [i \in parsed |-> Analysis!Severity(Analysis!FieldsOf(messages[i]).text)]
<1>1. DOMAIN messages = DOMAIN entries /\ \A i \in DOMAIN entries : messages[i] = entries[i].message
  BY DEF MessagesOf
<1>2. parsed = KnownAt
  <2>. HIDE DEF messages
  <2>. QED  BY <1>1 DEF KnownAt
<1>3. levels = [i \in KnownAt |-> LevelAt(i)]
  <2>1. \A i \in KnownAt : Analysis!Severity(Analysis!FieldsOf(messages[i]).text) = LevelAt(i)
    BY <1>1 DEF KnownAt, LevelAt
  <2>. HIDE DEF messages, parsed
  <2>. QED  BY <1>2, <2>1
<1>4. facets.total = Len(messages) /\ facets.parsed = Analysis!Cardinality(parsed)
      /\ facets.levels = Analysis!SortedCounts(levels)
  <2>. DEFINE timed == {i \in parsed : DOMAIN Analysis!FieldsOf(messages[i]).nums # {}}
              codes == Analysis!SortedCounts([i \in parsed |-> Analysis!Code(Analysis!FieldsOf(messages[i]).text)])
              paths == Analysis!SortedCounts([i \in parsed |-> Analysis!Path(Analysis!FieldsOf(messages[i]).text)])
              sum == Analysis!SumFunction([i \in timed |-> Analysis!Latency(Analysis!FieldsOf(messages[i]).nums)])
              formats == Analysis!MostFrequent([i \in parsed |-> Analysis!ParserOf(messages[i])])
              Facet(format) ==
                  [format |-> format, total |-> Len(messages), parsed |-> Analysis!Cardinality(parsed),
                   levels |-> Analysis!SortedCounts(levels), codes |-> codes, paths |-> paths,
                   latencyCount |-> Analysis!Cardinality(timed), latencySum |-> sum]
  <2>1. Analysis!Facets(messages) = {Facet(format) : format \in formats}
    <3>. HIDE DEF messages
    <3>. QED  BY Zenon DEF Analysis!Facets
  <2>2. \A format : /\ Facet(format).total = Len(messages)
                    /\ Facet(format).parsed = Analysis!Cardinality(parsed)
                    /\ Facet(format).levels = Analysis!SortedCounts(levels)
    <3>. HIDE DEF messages, parsed, levels, codes, paths, timed, sum
    <3>. QED  OBVIOUS
  <2>3. facets \in {Facet(format) : format \in formats}
    BY <2>1, Zenon DEF messages
  <2>. HIDE DEF Facet, formats, messages, parsed, levels
  <2>. QED  BY <2>2, <2>3
<1>5. Analysis!Cardinality(parsed) = Cardinality(parsed)
  BY AnalysisSums
<1>. HIDE DEF messages, parsed, levels
<1>6. facets.total = Len(messages) /\ facets.parsed = Cardinality(KnownAt)
      /\ facets.levels = Analysis!SortedCounts([i \in KnownAt |-> LevelAt(i)])
  BY <1>2, <1>3, <1>4, <1>5
<1>. QED  BY <1>6 DEF messages

LEMMA FacetsAgree ==
    ASSUME Readable(entries), facets \in Analysis!Facets(MessagesOf(entries))
    PROVE  Analysis!FacetsAddUp
<1>. DEFINE values == [i \in KnownAt |-> LevelAt(i)]
            count(v) == Analysis!Cardinality({i \in KnownAt : LevelAt(i) = v})
<1>1. IsFiniteSet(KnownAt) /\ Cardinality(KnownAt) <= Len(entries)
  <2>1. IsFiniteSet(1 .. Len(entries)) /\ Cardinality(1 .. Len(entries)) = Len(entries)
    BY FS_Interval DEF Readable
  <2>2. KnownAt \in SUBSET (1 .. Len(entries))
    BY DEF KnownAt, Readable
  <2>. QED  BY <2>1, <2>2, FS_Subset
<1>2. Len(MessagesOf(entries)) = Len(entries)
  BY DEF MessagesOf, Readable
<1>3. CountRanks(facets.levels, values)
  <2>1. DOMAIN values = KnownAt
    OBVIOUS
  <2>. HIDE DEF values
  <2>2. IsFiniteSet(DOMAIN values)
    BY <1>1, <2>1
  <2>3. CountRanks(Analysis!SortedCounts(values), values)
    BY <2>2, CountsAreRanked
  <2>. QED  BY <2>3, FacetsAre, Zenon DEF values
<1>4. \A v : TimesOf(values, v) = count(v)
  <2>1. \A v : {i \in DOMAIN values : values[i] = v} = {i \in KnownAt : LevelAt(i) = v}
    OBVIOUS
  <2>. HIDE DEF values
  <2>. QED  BY <2>1, AnalysisSums, Zenon DEF TimesOf
<1>5. \A i \in KnownAt : LevelAt(i) \in ValuesOf(values)
  BY DEF ValuesOf
<1>6. Analysis!Range(facets.levels) = ValuesOf(facets.levels)
  BY AnalysisSums
<1>. HIDE DEF values, count
<1>7. \A f \in ValuesOf(facets.levels) : f.count = count(f.value) /\ f.value # ""
  BY <1>3, <1>4 DEF CountRanks
<1>8. ASSUME NEW i \in KnownAt, LevelAt(i) \notin {f.value : f \in ValuesOf(facets.levels)} \cup {""}
      PROVE  /\ Len(facets.levels) = ThreatLimit
             /\ \A f \in ValuesOf(facets.levels) : f.count >= count(LevelAt(i))
  BY <1>3, <1>4, <1>5, <1>8 DEF CountRanks
<1>9. facets.parsed = Analysis!Cardinality(KnownAt) /\ facets.parsed <= facets.total
  <2>1. facets.parsed = Cardinality(KnownAt) /\ facets.total = Len(entries)
    BY <1>2, FacetsAre
  <2>2. Analysis!Cardinality(KnownAt) = Cardinality(KnownAt)
    BY AnalysisSums
  <2>. QED  BY <1>1, <2>1, <2>2
<1>. QED  BY <1>6, <1>7, <1>8, <1>9, Zenon DEF Analysis!FacetsAddUp, KnownAt, LevelAt, count

-----------------------------------------------------------------------------
(* JournalAnalysis: the threats.                                            *)

Stamped(group) ==
    /\ Len(group) \in Nat \ {0} /\ DOMAIN group = 1 .. Len(group)
    /\ \A i \in DOMAIN group : group[i].at \in Int

Leaked(level, from, to) == level - (to - from) * BucketCapacity

Term(group, i, j) == (i - j + 1) * LeakSeconds - (group[i].at - group[j].at) * BucketCapacity

LEMMA TermNext ==
    ASSUME NEW group, NEW p \in Int, NEW j \in Int,
           group[p].at \in Int, group[p + 1].at \in Int, group[j].at \in Int
    PROVE  Term(group, p + 1, j)
               = Term(group, p, j) + LeakSeconds - (group[p + 1].at - group[p].at) * BucketCapacity
<1>1. LeakSeconds \in Int /\ BucketCapacity \in Int
  BY AnalysisAssumption
<1>. DEFINE x == group[p].at
            y == group[p + 1].at
            z == group[j].at
<1>2. ((p + 1) - j + 1) * LeakSeconds - (y - z) * BucketCapacity
          = (p - j + 1) * LeakSeconds - (x - z) * BucketCapacity + LeakSeconds
                - (y - x) * BucketCapacity
  <2>1. x \in Int /\ y \in Int /\ z \in Int
    OBVIOUS
  <2>. HIDE DEF x, y, z
  <2>. QED  BY <1>1, <2>1
<1>. QED  BY <1>2, Zenon DEF Term

LEMMA FilledIsMost ==
    ASSUME NEW group, Stamped(group), NEW i \in 1 .. Len(group)
    PROVE  /\ \E j \in 1 .. i : Analysis!Filled(group, i) = Term(group, i, j)
           /\ \A j \in 1 .. i : Term(group, i, j) <= Analysis!Filled(group, i)
           /\ \A j \in 1 .. i : Term(group, i, j) \in Int
<1>. DEFINE terms == {Term(group, i, j) : j \in 1 .. i}
<1>1. Analysis!Filled(group, i) = Analysis!Max(terms)
  BY Zenon DEF Analysis!Filled, Term
<1>2. i \in Nat /\ 1 .. i \subseteq DOMAIN group /\ i \in 1 .. i
  BY DEF Stamped
<1>3. ASSUME NEW j \in 1 .. i  PROVE Term(group, i, j) \in Int
  <2>1. group[i].at \in Int /\ group[j].at \in Int /\ j \in Int /\ i \in Int
    BY <1>2 DEF Stamped
  <2>2. \A a, b, c, d \in Int : (a - b + 1) * LeakSeconds - (c - d) * BucketCapacity \in Int
    BY AnalysisAssumption
  <2>. QED  BY <2>1, <2>2, Zenon DEF Term
<1>4. IsFiniteSet(terms)
  <2>. DEFINE g == [j \in 1 .. i |-> Term(group, i, j)]
  <2>1. g \in Surjection(1 .. i, terms)
    BY DEF Surjection
  <2>2. IsFiniteSet(1 .. i)
    BY <1>2, FS_Interval
  <2>. HIDE DEF g, terms
  <2>. QED  BY <2>1, <2>2, FS_Surjection
<1>5. terms \in SUBSET Int /\ terms # {}
  BY <1>2, <1>3
<1>6. Analysis!Max(terms) \in terms /\ \A y \in terms : y <= Analysis!Max(terms)
  <2>. HIDE DEF terms
  <2>. QED  BY <1>4, <1>5, AnalysisExtremes
<1>7. \A j \in 1 .. i : Term(group, i, j) \in terms
  OBVIOUS
<1>8. \E j \in 1 .. i : Analysis!Max(terms) = Term(group, i, j)
  BY <1>6
<1>. HIDE DEF terms
<1>. QED  BY <1>1, <1>3, <1>6, <1>7, <1>8

\* What a bucket would hold that is never emptied by a decision.
LEMMA FilledGrows ==
    ASSUME NEW group, Stamped(group), NEW i \in 1 .. Len(group)
    PROVE  /\ Analysis!Filled(group, i) \in Int /\ Analysis!Filled(group, i) >= LeakSeconds
           /\ i = 1 => Analysis!Filled(group, i) = LeakSeconds
           /\ i # 1 =>
                LET left == Leaked(Analysis!Filled(group, i - 1), group[i - 1].at, group[i].at)
                IN  Analysis!Filled(group, i) = (IF left > 0 THEN left ELSE 0) + LeakSeconds
<1>. DEFINE F == Analysis!Filled(group, i)
            T(j) == Term(group, i, j)
<1>1. i \in Nat /\ i \in 1 .. i /\ i \in Int /\ group[i].at \in Int /\ LeakSeconds \in Int /\ BucketCapacity \in Int
  BY AnalysisAssumption DEF Stamped
<1>2. PICK m \in 1 .. i : F = T(m)
  BY FilledIsMost
<1>3. \A j \in 1 .. i : T(j) <= F /\ T(j) \in Int
  BY FilledIsMost
<1>4. F \in Int
  BY <1>2, <1>3
<1>5. T(i) = LeakSeconds
  <2>1. \A a, c \in Int : (a - a + 1) * LeakSeconds - (c - c) * BucketCapacity = LeakSeconds
    BY <1>1
  <2>. QED  BY <1>1, <2>1, Zenon DEF Term
<1>6. F >= LeakSeconds
  <2>. HIDE DEF F, T
  <2>. QED  BY <1>1, <1>3, <1>4, <1>5
<1>7. ASSUME i = 1  PROVE F = LeakSeconds
  <2>1. m = i
    BY <1>7
  <2>. HIDE DEF F, T
  <2>. QED  BY <1>2, <1>5, <2>1
<1>8. ASSUME i # 1
      PROVE  LET left == Leaked(Analysis!Filled(group, i - 1), group[i - 1].at, group[i].at)
             IN  F = (IF left > 0 THEN left ELSE 0) + LeakSeconds
  <2>. DEFINE p == i - 1
              G == Analysis!Filled(group, p)
              U(j) == Term(group, p, j)
              leak == (group[i].at - group[p].at) * BucketCapacity
  <2>1. p \in 1 .. Len(group) /\ group[p].at \in Int /\ p \in Int /\ i = p + 1
        /\ 1 .. i = (1 .. p) \cup {i} /\ 1 .. p \subseteq DOMAIN group
    BY <1>1, <1>8 DEF Stamped
  <2>2. PICK q \in 1 .. p : G = U(q)
    BY <2>1, FilledIsMost
  <2>3. \A j \in 1 .. p : U(j) <= G /\ U(j) \in Int
    BY <2>1, FilledIsMost
  <2>4. leak \in Int
    BY <1>1, <2>1
  <2>5. ASSUME NEW j \in 1 .. p  PROVE T(j) = U(j) + LeakSeconds - leak
    <3>1. group[j].at \in Int /\ j \in Int
      BY <2>1 DEF Stamped
    <3>2. Term(group, p + 1, j)
              = U(j) + LeakSeconds - (group[p + 1].at - group[p].at) * BucketCapacity
      <4>1. group[p + 1].at \in Int
        BY <1>1, <2>1
      <4>. HIDE DEF p
      <4>. QED  BY <2>1, <3>1, <4>1, TermNext, Zenon
    <3>. HIDE DEF p
    <3>. QED  BY <2>1, <3>2, Zenon
  <2>. DEFINE left == G - leak
  <2>6. G \in Int
    BY <2>2, <2>3
  <2>7. F >= left + LeakSeconds
    <3>1. T(q) = G + LeakSeconds - leak /\ q \in 1 .. i
      BY <2>1, <2>2, <2>5
    <3>2. T(q) <= F
      BY <1>3, <3>1
    <3>. HIDE DEF T, U, F, G, leak
    <3>. QED  BY <1>1, <1>4, <2>4, <2>6, <3>1, <3>2
  <2>8. F = LeakSeconds \/ F <= left + LeakSeconds
    <3>1. CASE m = i
      BY <1>2, <1>5, <3>1
    <3>2. CASE m # i
      <4>1. m \in 1 .. p
        BY <2>1, <3>2
      <4>2. F = U(m) + LeakSeconds - leak /\ U(m) <= G /\ U(m) \in Int
        BY <1>2, <2>3, <2>5, <4>1
      <4>. HIDE DEF T, U, F, G, leak
      <4>. QED  BY <1>1, <2>4, <2>6, <4>2
    <3>. QED  BY <3>1, <3>2
  <2>9. F = (IF left > 0 THEN left ELSE 0) + LeakSeconds
    <3>. HIDE DEF F, G, leak
    <3>. QED  BY <1>1, <1>4, <1>6, <2>4, <2>6, <2>7, <2>8
  <2>10. left = Leaked(Analysis!Filled(group, i - 1), group[i - 1].at, group[i].at)
    BY Zenon DEF Leaked
  <2>. HIDE DEF F, left
  <2>. QED  BY <2>9, <2>10
<1>. QED  BY <1>4, <1>6, <1>7, <1>8 DEF F

Over(level, at) ==
    {[count |-> level \div LeakSeconds, at |-> at]
     : n \in {BucketCapacity} \cap 0 .. (level \div LeakSeconds)}

LEMMA DivAtLeast ==
    ASSUME NEW x \in Nat, NEW d \in Nat \ {0}, NEW c \in Nat
    PROVE  x \div d \in Nat /\ (c <= x \div d <=> x >= c * d)
<1>. DEFINE q == x \div d
<1>1. q \in Nat /\ d * q <= x /\ x < d * q + d
  OBVIOUS
<1>. HIDE DEF q
<1>2. ASSUME c <= q  PROVE x >= c * d
  <2>1. (q - c) * d >= 0 /\ (q - c) * d = d * q - c * d
    BY <1>1, <1>2
  <2>2. c * d \in Int /\ d * q \in Int
    BY <1>1
  <2>. QED  BY <1>1, <2>1, <2>2
<1>3. ASSUME ~ (c <= q)  PROVE ~ (x >= c * d)
  <2>1. c - q - 1 >= 0
    BY <1>1, <1>3
  <2>2. (c - q - 1) * d >= 0 /\ (c - q - 1) * d = c * d - d * q - d
    BY <1>1, <2>1
  <2>3. c * d \in Int /\ d * q \in Int
    BY <1>1
  <2>. QED  BY <1>1, <2>2, <2>3
<1>4. q \in Nat /\ (c <= q <=> x >= c * d)
  BY <1>1, <1>2, <1>3
<1>. QED  BY <1>4 DEF q

LEMMA OverIs ==
    ASSUME NEW level \in Int, level >= LeakSeconds, NEW at
    PROVE  /\ level \div LeakSeconds \in Int
           /\ level >= BucketCapacity * LeakSeconds =>
                Over(level, at) = {[count |-> level \div LeakSeconds, at |-> at]}
           /\ ~ (level >= BucketCapacity * LeakSeconds) => Over(level, at) = {}
<1>1. level \in Nat /\ LeakSeconds \in Nat \ {0} /\ BucketCapacity \in Nat
  BY AnalysisAssumption
<1>2. /\ level \div LeakSeconds \in Nat
      /\ BucketCapacity <= level \div LeakSeconds <=> level >= BucketCapacity * LeakSeconds
  BY <1>1, DivAtLeast
<1>. DEFINE q == level \div LeakSeconds
            here == {BucketCapacity} \cap 0 .. q
<1>3. here = IF BucketCapacity <= q THEN {BucketCapacity} ELSE {}
  <2>1. q \in Nat
    BY <1>2
  <2>. HIDE DEF q
  <2>. QED  BY <1>1, <2>1
<1>4. Over(level, at) = {[count |-> q, at |-> at] : n \in here}
  BY DEF Over
<1>. HIDE DEF q, here
<1>5. /\ BucketCapacity <= q => Over(level, at) = {[count |-> q, at |-> at]}
      /\ ~ (BucketCapacity <= q) => Over(level, at) = {}
  BY <1>3, <1>4
<1>. QED  BY <1>2, <1>5 DEF q

Buckets == [level : Int, last : Int, over : SUBSET [count : Int, at : Int]]

IsFull(group, i) == Analysis!Filled(group, i) >= BucketCapacity * LeakSeconds
Decided(group, i) == {[count |-> Analysis!Filled(group, i) \div LeakSeconds, at |-> group[i].at]}

\* The bucket after n events of its group.
BucketTells(b, group, n) ==
    /\ b \in Buckets
    /\ (\A i \in 1 .. n : ~ IsFull(group, i)) =>
           /\ b.over = {}
           /\ n = 0 => b.level = 0 /\ b.last = group[1].at
           /\ n # 0 => b.level = Analysis!Filled(group, n) /\ b.last = group[n].at
    /\ \A i \in 1 .. n : IsFull(group, i) /\ (\A k \in 1 .. i - 1 : ~ IsFull(group, k)) =>
           b.over = Decided(group, i)

LEMMA PourIs ==
    ASSUME NEW b \in Buckets, NEW e, b.over = {}, NEW left, left = Leaked(b.level, b.last, e.at),
           NEW level, level = (IF left > 0 THEN left ELSE 0) + LeakSeconds
    PROVE  Analysis!Pour(b, e) = [level |-> level, last |-> e.at, over |-> Over(level, e.at)]
BY Zenon DEF Analysis!Pour, Leaked, Over

LEMMA PourKeeps ==
    ASSUME NEW group, Stamped(group), NEW n \in 1 .. Len(group),
           NEW b, BucketTells(b, group, n - 1)
    PROVE  BucketTells(Analysis!Pour(b, group[n]), group, n)
<1>. DEFINE c == Analysis!Pour(b, group[n])
<1>1. n \in Nat /\ n # 0 /\ n - 1 \in Nat /\ 1 .. n = (1 .. n - 1) \cup {n} /\ b \in Buckets
      /\ n \notin 1 .. n - 1
  BY DEF BucketTells
<1>2. CASE \E i \in 1 .. n - 1 : IsFull(group, i)
  <2>. DEFINE full == {i \in 1 .. n - 1 : IsFull(group, i)}
  <2>1. full \in SUBSET Nat /\ full # {}
    BY <1>1, <1>2
  <2>2. PICK i \in full : \A k \in full : i <= k
    <3>. HIDE DEF full
    <3>. QED  BY <2>1, LeastOf
  <2>3. \A k \in 1 .. i - 1 : ~ IsFull(group, k)
    <3>1. \A k \in 1 .. i - 1 : k \in 1 .. n - 1 /\ ~ (i <= k)
      BY <1>1, <2>2
    <3>. QED  BY <2>2, <3>1
  <2>4. b.over = Decided(group, i)
    BY <2>2, <2>3 DEF BucketTells
  <2>5. b.over # {}
    BY <2>4 DEF Decided
  <2>6. c = b
    BY <2>5, Zenon DEF Analysis!Pour
  <2>7. ASSUME NEW k \in 1 .. n, IsFull(group, k), \A j \in 1 .. k - 1 : ~ IsFull(group, j)
        PROVE  b.over = Decided(group, k)
    <3>1. k = i
      <4>1. i \in 1 .. n - 1 /\ IsFull(group, i)
        BY <2>2
      <4>2. ~ (i \in 1 .. k - 1) /\ ~ (k \in 1 .. i - 1)
        BY <2>3, <2>7, <4>1
      <4>. QED  BY <1>1, <4>1, <4>2
    <3>. QED  BY <2>4, <3>1
  <2>8. ~ \A k \in 1 .. n : ~ IsFull(group, k)
    BY <1>1, <1>2
  <2>. HIDE DEF c
  <2>. QED  BY <1>1, <2>6, <2>7, <2>8 DEF BucketTells, c
<1>3. CASE \A i \in 1 .. n - 1 : ~ IsFull(group, i)
  <2>. DEFINE left == Leaked(b.level, b.last, group[n].at)
              F == Analysis!Filled(group, n)
              level == (IF left > 0 THEN left ELSE 0) + LeakSeconds
  <2>1. b.over = {} /\ (n - 1 = 0 => b.level = 0 /\ b.last = group[1].at)
        /\ (n - 1 # 0 => b.level = Analysis!Filled(group, n - 1) /\ b.last = group[n - 1].at)
    BY <1>3 DEF BucketTells
  <2>2. /\ F \in Int /\ F >= LeakSeconds
        /\ n = 1 => F = LeakSeconds
        /\ n # 1 =>
             F = (IF Leaked(Analysis!Filled(group, n - 1), group[n - 1].at, group[n].at) > 0
                  THEN Leaked(Analysis!Filled(group, n - 1), group[n - 1].at, group[n].at)
                  ELSE 0) + LeakSeconds
    BY FilledGrows, Zenon
  <2>3. group[n].at \in Int /\ LeakSeconds \in Int /\ BucketCapacity \in Int
    BY AnalysisAssumption DEF Stamped
  <2>4. level = F
    <3>1. CASE n = 1
      <4>1. b.level = 0 /\ b.last = group[n].at
        BY <2>1, <3>1
      <4>2. \A a \in Int : 0 - (a - a) * BucketCapacity = 0
        BY <2>3
      <4>3. left = 0
        BY <2>3, <4>1, <4>2, Zenon DEF Leaked
      <4>. HIDE DEF left, F
      <4>. QED  BY <2>2, <2>3, <3>1, <4>3
    <3>2. CASE n # 1
      <4>1. n - 1 # 0
        BY <1>1, <3>2
      <4>. QED  BY <2>1, <2>2, <3>2, <4>1, Zenon
    <3>. QED  BY <3>1, <3>2
  <2>5. c = [level |-> level, last |-> group[n].at, over |-> Over(level, group[n].at)]
    BY <1>1, <2>1, PourIs, Zenon
  <2>. HIDE DEF c, level, left
  <2>6. c.level = F /\ c.last = group[n].at /\ c.over = Over(F, group[n].at)
    BY <2>4, <2>5
  <2>7. /\ F \div LeakSeconds \in Int
        /\ IsFull(group, n) => c.over = Decided(group, n)
        /\ ~ IsFull(group, n) => c.over = {}
    <3>. HIDE DEF F
    <3>0. F \in Int /\ F >= LeakSeconds
      BY <2>2
    <3>1. /\ F \div LeakSeconds \in Int
          /\ F >= BucketCapacity * LeakSeconds =>
                Over(F, group[n].at) = {[count |-> F \div LeakSeconds, at |-> group[n].at]}
          /\ ~ (F >= BucketCapacity * LeakSeconds) => Over(F, group[n].at) = {}
      BY <3>0, OverIs, Zenon
    <3>. QED  BY <2>6, <3>1, Zenon DEF IsFull, Decided, F
  <2>8. c \in Buckets
    <3>1. c.over \in SUBSET [count : Int, at : Int]
      <4>1. Decided(group, n) \in SUBSET [count : Int, at : Int]
        BY <2>3, <2>7 DEF Decided
      <4>. QED  BY <2>7, <4>1
    <3>2. c = [level |-> F, last |-> group[n].at, over |-> c.over]
      BY <2>4, <2>5, <2>6
    <3>3. F \in Int
      BY <2>2
    <3>4. \A l, t \in Int : \A o \in SUBSET [count : Int, at : Int] :
              [level |-> l, last |-> t, over |-> o] \in Buckets
      BY DEF Buckets
    <3>5. [level |-> F, last |-> group[n].at, over |-> c.over] \in Buckets
      <4>. HIDE DEF F
      <4>. QED  BY <2>3, <3>1, <3>3, <3>4, Zenon
    <3>. HIDE DEF F
    <3>. QED  BY <3>2, <3>5
  <2>9. ASSUME \A i \in 1 .. n : ~ IsFull(group, i)
        PROVE  c.over = {} /\ c.level = F /\ c.last = group[n].at
    BY <1>1, <2>6, <2>7, <2>9
  <2>10. ASSUME NEW i \in 1 .. n, IsFull(group, i)  PROVE c.over = Decided(group, i)
    <3>1. i = n
      BY <1>1, <1>3, <2>10
    <3>. QED  BY <2>7, <2>10, <3>1
  <2>. QED  BY <1>1, <2>8, <2>9, <2>10 DEF BucketTells, c
<1>. QED  BY <1>2, <1>3

LEMMA PouredTells ==
    ASSUME NEW group, Stamped(group)
    PROVE  BucketTells(Analysis!Poured(group), group, Len(group))
<1>. DEFINE n == Len(group)
            s0 == Analysis!Empty(group)
            Turn(s, m) == Analysis!Pour(s, group[m])
            Kept(s, m) == IF Turn(s, m) \in Buckets THEN Turn(s, m) ELSE s
            Acts == [m \in 1 .. n |-> [s \in Buckets |-> Kept(s, m)]]
            Turns(f) == [m \in 0 .. n |-> IF m = 0 THEN s0 ELSE Turn(f[m - 1], m)]
            after == CHOOSE f : f = Turns(f)
<1>1. n \in Nat /\ n # 0 /\ group[1].at \in Int
  BY DEF Stamped
<1>2. BucketTells(s0, group, 0)
  <2>1. s0 = [level |-> 0, last |-> group[1].at, over |-> {}]
    BY Zenon DEF Analysis!Empty
  <2>. HIDE DEF s0
  <2>2. s0 \in Buckets /\ s0.level = 0 /\ s0.last = group[1].at /\ s0.over = {}
    BY <1>1, <2>1 DEF Buckets
  <2>3. 1 .. 0 = {}
    OBVIOUS
  <2>. QED  BY <2>2, <2>3 DEF BucketTells
<1>3. ASSUME NEW f, BucketTells(f[0], group, 0),
             \A m \in 1 .. n : BucketTells(f[m - 1], group, m - 1) => f[m] = Turn(f[m - 1], m)
      PROVE  \A m \in 0 .. n : BucketTells(f[m], group, m)
  <2>. SUFFICES ASSUME NEW m \in 0 .. n  PROVE BucketTells(f[m], group, m)
    OBVIOUS
  <2>. DEFINE K == {k \in 0 .. m : BucketTells(f[k], group, k)}
  <2>1. m \in Nat /\ 0 \in K
    BY <1>1, <1>3
  <2>2. ASSUME NEW k \in 0 .. m - 1, k \in K  PROVE k + 1 \in K
    <3>1. k + 1 \in 1 .. n /\ k + 1 \in 0 .. m /\ (k + 1) - 1 = k
      BY <1>1, <2>1
    <3>. DEFINE j == k + 1
    <3>2. BucketTells(f[j - 1], group, j - 1)
      <4>1. BucketTells(f[k], group, k)
        BY <2>2
      <4>. QED  BY <3>1, <4>1, Zenon
    <3>3. f[j] = Turn(f[j - 1], j)
      <4>. HIDE DEF j, Turn
      <4>. QED  BY <1>3, <3>1, <3>2 DEF j
    <3>4. BucketTells(Turn(f[j - 1], j), group, j)
      <4>. HIDE DEF j
      <4>. QED  BY <3>1, <3>2, PourKeeps DEF j
    <3>5. BucketTells(f[j], group, j) /\ j \in 0 .. m
      <4>. HIDE DEF Turn
      <4>. QED  BY <3>1, <3>3, <3>4
    <3>. HIDE DEF j
    <3>6. j \in K
      BY <3>5
    <3>. QED  BY <3>6 DEF j
  <2>3. m \in K
    <3>. HIDE DEF K
    <3>. QED  BY <2>1, <2>2, CountUp
  <2>. QED  BY <2>3
<1>4. after = Turns(after)
  <2>1. Acts \in [1 .. n -> [Buckets -> Buckets]]
    <3>. HIDE DEF n, Turn
    <3>. QED  OBVIOUS
  <2>2. PICK r : IsLoop(r, n, Buckets, s0, Acts)
    <3>1. s0 \in Buckets
      BY <1>2 DEF BucketTells
    <3>. HIDE DEF Acts, n, s0
    <3>. QED  BY <1>1, <2>1, <3>1, LoopValues
  <2>3. r \in [0 .. n -> Buckets] /\ r[0] = s0 /\ \A m \in 1 .. n : r[m] = Acts[m][r[m - 1]]
    BY <2>2, Zenon DEF IsLoop
  <2>4. ASSUME NEW m \in 1 .. n  PROVE r[m] = Kept(r[m - 1], m)
    <3>1. m - 1 \in 0 .. n
      BY <1>1
    <3>2. r[m - 1] \in Buckets
      BY <2>3, <3>1
    <3>3. r[m] = Acts[m][r[m - 1]]
      <4>. HIDE DEF Acts, n
      <4>. QED  BY <2>3
    <3>4. Acts[m][r[m - 1]] = Kept(r[m - 1], m)
      <4>. HIDE DEF Kept, n
      <4>. QED  BY <3>2
    <3>. HIDE DEF Acts, Kept
    <3>. QED  BY <3>3, <3>4
  <2>5. ASSUME NEW m \in 1 .. n, BucketTells(r[m - 1], group, m - 1)
        PROVE  r[m] = Turn(r[m - 1], m)
    <3>1. BucketTells(Turn(r[m - 1], m), group, m)
      BY <2>5, PourKeeps
    <3>2. Turn(r[m - 1], m) \in Buckets
      <4>. HIDE DEF Turn
      <4>. QED  BY <3>1 DEF BucketTells
    <3>. HIDE DEF Turn
    <3>. QED  BY <2>4, <3>2
  <2>6. \A m \in 0 .. n : BucketTells(r[m], group, m)
    <3>1. BucketTells(r[0], group, 0)
      <4>. HIDE DEF s0
      <4>. QED  BY <1>2, <2>3
    <3>. HIDE DEF n, Turn
    <3>. QED  BY <1>3, <2>5, <3>1
  <2>7. \A m \in 1 .. n : r[m] = Turn(r[m - 1], m)
    <3>1. \A m \in 1 .. n : m - 1 \in 0 .. n
      BY <1>1
    <3>. HIDE DEF Turn, n
    <3>. QED  BY <2>5, <2>6, <3>1
  <2>8. r = Turns(r)
    <3>1. \A m \in 0 .. n : r[m] = IF m = 0 THEN s0 ELSE Turn(r[m - 1], m)
      <4>. HIDE DEF Acts, Turn, n, s0
      <4>. QED  BY <1>1, <2>3, <2>7
    <3>2. r = [m \in 0 .. n |-> r[m]]
      BY <2>3
    <3>. HIDE DEF Acts, Turn, n, s0
    <3>. QED  BY <3>1, <3>2
  <2>. HIDE DEF Turns
  <2>. QED  BY <2>8
<1>5. Analysis!Poured(group) = after[n]
  BY Zenon DEF Analysis!Poured
<1>6. after[0] = s0 /\ \A m \in 1 .. n : after[m] = Turn(after[m - 1], m)
  <2>. HIDE DEF after, Turn, n, s0
  <2>. QED  BY <1>1, <1>4
<1>7. \A m \in 0 .. n : BucketTells(after[m], group, m)
  <2>1. BucketTells(after[0], group, 0)
    <3>. HIDE DEF s0, after
    <3>. QED  BY <1>2, <1>6
  <2>. HIDE DEF after, Turn, n
  <2>. QED  BY <1>3, <1>6, <2>1
<1>8. n \in 0 .. n
  BY <1>1
<1>. HIDE DEF after, n
<1>9. BucketTells(Analysis!Poured(group), group, n)
  BY <1>5, <1>7, <1>8
<1>. QED  BY <1>9 DEF n

\* A scenario with one of its keys, and the events that have it.
LEMMA GroupIs ==
    ASSUME NEW list, Readable(list), NEW s \in Analysis!ThreatScenarios,
           NEW key \in Analysis!Keys(s, list)
    PROVE  Stamped(Analysis!Group(s, key, list))
<1>. DEFINE own == Analysis!Own(s, key, list)
            n == Cardinality(own)
            w == [i \in own |-> -list[i].time]
            order == Analysis!Foremost(own, n, w)
            group == Analysis!Group(s, key, list)
<1>1. own \in SUBSET (DOMAIN list) /\ Analysis!Events(list) \in SUBSET (DOMAIN list)
  BY DEF Analysis!Own, Analysis!About, Analysis!Events
<1>2. IsFiniteSet(DOMAIN list)
  BY FS_Interval DEF Readable
<1>3. IsFiniteSet(own) /\ n \in Nat
  <2>. HIDE DEF own
  <2>. QED  BY <1>1, <1>2, FS_Subset, FS_CardinalityType
<1>4. own # {}
  <2>1. PICK i \in Analysis!About(s, list) : key = Analysis!Key(s, Analysis!AuthEvent(list[i]))
    BY Zenon DEF Analysis!Keys
  <2>2. i \in own
    BY <2>1, Zenon DEF Analysis!Own
  <2>. QED  BY <2>2
<1>5. n # 0
  <2>. HIDE DEF own
  <2>. QED  BY <1>3, <1>4, FS_EmptySet
<1>6. \A i \in own : list[i].time \in Int /\ w[i] \in Int
  <2>1. \A i \in own : i \in DOMAIN list
    BY <1>1
  <2>. HIDE DEF own
  <2>. QED  BY <2>1 DEF Readable
<1>7. order \in [1 .. n -> own]
  <2>1. n <= Cardinality(own)
    BY <1>3
  <2>2. \A i \in own : w[i] \in Int
    BY <1>6
  <2>. HIDE DEF own, w, n
  <2>. QED  BY <1>3, <2>1, <2>2, ForemostIs
<1>8. group = [m \in 1 .. n |-> Analysis!AuthEvent(list[order[m]])]
  <2>1. Analysis!Cardinality(own) = Cardinality(own)
    BY AnalysisSums
  <2>. QED  BY <2>1, Zenon DEF Analysis!Group
<1>9. \A i \in own : Analysis!AuthEvent(list[i]).at \in Int
  <2>1. \A i : Analysis!AuthEvent(list[i]).at = list[i].time
    BY DEF Analysis!AuthEvent
  <2>. HIDE DEF own
  <2>. QED  BY <1>6, <2>1
<1>10. /\ DOMAIN group = 1 .. n /\ Len(group) = n
       /\ \A m \in 1 .. n : group[m].at \in Int
  <2>. HIDE DEF own, n, order, group
  <2>. QED  BY <1>3, <1>7, <1>8, <1>9
<1>. HIDE DEF own, n, group
<1>11. Stamped(group)
  BY <1>3, <1>5, <1>10 DEF Stamped
<1>. QED  BY <1>11 DEF group

LEMMA KeysTellScenarios ==
    ASSUME NEW list, NEW s \in Analysis!ThreatScenarios, NEW t \in Analysis!ThreatScenarios,
           NEW key, key \in Analysis!Keys(s, list), key \in Analysis!Keys(t, list)
    PROVE  s = t
<1>1. key.scenario = s.name /\ key.scenario = t.name
  <2>1. \A r, e : Analysis!Key(r, e).scenario = r.name
    BY DEF Analysis!Key
  <2>. QED  BY <2>1, Zenon DEF Analysis!Keys
<1>. DEFINE A == [name |-> "ssh-bf", types |-> {"failed_password"}, distinctUser |-> FALSE]
            B == [name |-> "ssh-bf_user-enum", types |-> {"failed_password", "invalid_user"},
                  distinctUser |-> TRUE]
            C == [name |-> "pam-bf", types |-> {"pam"}, distinctUser |-> FALSE]
<1>2. s \in {A, B, C} /\ t \in {A, B, C}
  BY Zenon DEF Analysis!ThreatScenarios, Analysis!Scenario
<1>3. A.name # B.name /\ A.name # C.name /\ B.name # C.name
  OBVIOUS
<1>4. s.name = t.name
  BY <1>1
<1>. HIDE DEF A, B, C
<1>. QED  BY <1>2, <1>3, <1>4

Named(key, over) == {[key |-> key, count |-> o.count, at |-> o.at] : o \in over}

\* The bucket a finding was made in is the one its key names.
LEMMA FindingsOfKeys ==
    ASSUME NEW list, NEW s \in Analysis!ThreatScenarios, NEW key \in Analysis!Keys(s, list)
    PROVE  {f \in Analysis!EvaluateThreats(list).findings : f.key = key}
               = Named(key, Analysis!Poured(Analysis!Group(s, key, list)).over)
<1>. DEFINE own == [scenario |-> s, key |-> key]
            all == UNION {Analysis!Finding(list, g) : g \in Analysis!Groups(list)}
<1>1. Analysis!EvaluateThreats(list).findings = all
  BY DEF Analysis!EvaluateThreats
<1>2. Analysis!Groups(list)
          = UNION {{[scenario |-> t, key |-> k] : k \in Analysis!Keys(t, list)}
                   : t \in Analysis!ThreatScenarios}
  BY Zenon DEF Analysis!Groups
<1>3. own \in Analysis!Groups(list) /\ own.scenario = s /\ own.key = key
  BY <1>2
<1>4. ASSUME NEW g \in Analysis!Groups(list)
      PROVE  /\ g.scenario \in Analysis!ThreatScenarios /\ g.key \in Analysis!Keys(g.scenario, list)
             /\ g = [scenario |-> g.scenario, key |-> g.key]
  <2>1. PICK t \in Analysis!ThreatScenarios :
            g \in {[scenario |-> t, key |-> k] : k \in Analysis!Keys(t, list)}
    BY <1>2
  <2>2. PICK k \in Analysis!Keys(t, list) : g = [scenario |-> t, key |-> k]
    BY <2>1
  <2>. QED  BY <2>2
<1>5. \A g : \A f \in Analysis!Finding(list, g) : f.key = g.key
  BY DEF Analysis!Finding
<1>6. ASSUME NEW f \in all, f.key = key  PROVE f \in Analysis!Finding(list, own)
  <2>1. PICK g \in Analysis!Groups(list) : f \in Analysis!Finding(list, g)
    OBVIOUS
  <2>2. g.key = key
    BY <1>5, <1>6, <2>1
  <2>3. g.scenario = s
    <3>1. g.scenario \in Analysis!ThreatScenarios /\ key \in Analysis!Keys(g.scenario, list)
      BY <1>4, <2>2
    <3>. QED  BY <3>1, KeysTellScenarios, Zenon
  <2>4. g = own
    BY <1>4, <2>2, <2>3
  <2>. QED  BY <2>1, <2>4, Zenon
<1>7. \A f \in Analysis!Finding(list, own) : f \in all /\ f.key = key
  <2>1. \A f \in Analysis!Finding(list, own) : f \in all
    <3>. HIDE DEF own
    <3>. QED  BY <1>3
  <2>. QED  BY <1>3, <1>5, <2>1
<1>8. Analysis!Finding(list, own) = Named(key, Analysis!Poured(Analysis!Group(s, key, list)).over)
  <2>. HIDE DEF own
  <2>. QED  BY <1>3, Zenon DEF Analysis!Finding, Named
<1>9. {f \in all : f.key = key} = Analysis!Finding(list, own)
  <2>. HIDE DEF all, own
  <2>. QED  BY <1>6, <1>7, Zenon
<1>. QED  BY <1>1, <1>8, <1>9, Zenon

\* What is found for a group: the first time its bucket is full.
FirstFull(group) ==
    LET full == {i \in DOMAIN group : IsFull(group, i)}
    IN  {j \in full : \A k \in full : j <= k}
Reports(group, key) ==
    {[key |-> key, count |-> Analysis!Filled(group, i) \div LeakSeconds, at |-> group[i].at]
     : i \in FirstFull(group)}

LEMMA BucketFindings ==
    ASSUME NEW group, Stamped(group), NEW key
    PROVE  Named(key, Analysis!Poured(group).over) = Reports(group, key)
<1>. DEFINE b == Analysis!Poured(group)
            full == {i \in DOMAIN group : IsFull(group, i)}
            first == FirstFull(group)
            Made(i) == [key |-> key, count |-> Analysis!Filled(group, i) \div LeakSeconds,
                        at |-> group[i].at]
<1>1. Len(group) \in Nat /\ DOMAIN group = 1 .. Len(group) /\ full \in SUBSET Nat
  BY DEF Stamped
<1>2. BucketTells(b, group, Len(group))
  BY PouredTells
<1>3. CASE full = {}
  <2>1. \A i \in 1 .. Len(group) : ~ IsFull(group, i)
    BY <1>1, <1>3
  <2>2. b.over = {}
    BY <1>2, <2>1 DEF BucketTells
  <2>3. first = {}
    BY <1>3 DEF FirstFull
  <2>4. Named(key, b.over) = {}
    BY <2>2 DEF Named
  <2>5. Reports(group, key) = {}
    BY <2>3 DEF Reports
  <2>. QED  BY <2>4, <2>5
<1>4. CASE full # {}
  <2>1. PICK i \in full : \A k \in full : i <= k
    <3>. HIDE DEF full
    <3>. QED  BY <1>1, <1>4, LeastOf
  <2>2. first = {i}
    <3>1. \A j \in first : j = i
      <4>1. \A j \in first : j <= i /\ i <= j /\ j \in Nat /\ i \in Nat
        BY <1>1, <2>1 DEF FirstFull
      <4>. HIDE DEF first
      <4>. QED  BY <4>1
    <3>2. i \in first
      BY <2>1 DEF FirstFull
    <3>. HIDE DEF first
    <3>. QED  BY <3>1, <3>2
  <2>3. i \in 1 .. Len(group) /\ IsFull(group, i)
    BY <1>1, <2>1
  <2>4. \A k \in 1 .. i - 1 : ~ IsFull(group, k)
    <3>1. \A k \in 1 .. i - 1 : k \in 1 .. Len(group) /\ ~ (i <= k)
      BY <1>1, <2>3
    <3>. QED  BY <1>1, <2>1, <3>1
  <2>5. b.over = {[count |-> Analysis!Filled(group, i) \div LeakSeconds, at |-> group[i].at]}
    <3>1. b.over = Decided(group, i)
      BY <1>2, <2>3, <2>4 DEF BucketTells
    <3>. QED  BY <3>1, Zenon DEF Decided
  <2>6. Named(key, b.over) = {Made(i)}
    <3>. HIDE DEF b
    <3>. QED  BY <2>5 DEF Named
  <2>7. Reports(group, key) = {Made(i)}
    <3>. QED  BY <2>2 DEF Reports
  <2>. QED  BY <2>6, <2>7, Zenon
<1>. QED  BY <1>3, <1>4, Zenon

LEMMA ThreatsAgree ==
    ASSUME Readable(entries), threats = Analysis!EvaluateThreats(entries)
    PROVE  Analysis!ThreatsAreBursts
<1>1. ASSUME NEW s \in Analysis!ThreatScenarios, NEW key \in Analysis!Keys(s, entries)
      PROVE  {f \in threats.findings : f.key = key}
                 = Reports(Analysis!Group(s, key, entries), key)
  <2>. DEFINE group == Analysis!Group(s, key, entries)
  <2>1. Stamped(group)
    BY GroupIs
  <2>2. {f \in Analysis!EvaluateThreats(entries).findings : f.key = key}
            = Named(key, Analysis!Poured(group).over)
    BY FindingsOfKeys
  <2>. HIDE DEF group
  <2>3. Named(key, Analysis!Poured(group).over) = Reports(group, key)
    BY <2>1, BucketFindings
  <2>4. {f \in threats.findings : f.key = key} = Reports(group, key)
    BY <2>2, <2>3, Zenon
  <2>. QED  BY <2>4 DEF group
<1>. QED  BY <1>1, Zenon DEF Analysis!ThreatsAreBursts, Reports, FirstFull, IsFull

-----------------------------------------------------------------------------
\* JournalAnalysis: the cards are those of the entries.
AnalysisInv ==
    /\ Readable(entries)
    /\ facets \in Analysis!Facets(MessagesOf(entries))
    /\ secrets = Analysis!ScanLines(MessagesOf(entries))
    /\ threats = Analysis!EvaluateThreats(entries)

LEMMA AnalysisInvInit == Analysis!Init => AnalysisInv
<1>. SUFFICES ASSUME Analysis!Init  PROVE AnalysisInv
  OBVIOUS
<1>1. Readable(<<>>)
  BY DEF Readable
<1>2. MessagesOf(<<>>) = <<>>
  BY DEF MessagesOf
<1>. QED  BY <1>1, <1>2, Zenon DEF AnalysisInv, Analysis!Init

LEMMA AnalysisInvStep == AnalysisInv /\ [Analysis!Next]_(Analysis!vars) => AnalysisInv'
<1>. SUFFICES ASSUME AnalysisInv, [Analysis!Next]_(Analysis!vars)  PROVE AnalysisInv'
  OBVIOUS
<1>1. CASE UNCHANGED Analysis!vars
  BY <1>1 DEF AnalysisInv, Readable, MessagesOf, Analysis!vars
<1>2. CASE Analysis!Next
  <2>1. PICK n \in 0 .. MaxEntries :
            \E list \in [1 .. n -> [time : StampTimes, message : Messages]] :
                entries' = list /\ Analysis!Cards(list)
    BY <1>2, Zenon DEF Analysis!Next, Analysis!SetJournalSnapshot
  <2>2. PICK list \in [1 .. n -> [time : StampTimes, message : Messages]] :
            entries' = list /\ Analysis!Cards(list)
    BY <2>1, Zenon
  <2>3. n \in Nat
    BY JournalAssumption
  <2>4. Readable(list)
    <3>1. Len(list) = n /\ DOMAIN list = 1 .. n
      BY <2>3
    <3>2. \A i \in 1 .. n : list[i] \in [time : StampTimes, message : Messages]
      OBVIOUS
    <3>. QED  BY <2>3, <3>1, <3>2, AnalysisAssumption DEF Readable
  <2>5. /\ facets' \in Analysis!Facets(MessagesOf(list))
        /\ secrets' = Analysis!ScanLines(MessagesOf(list))
        /\ threats' = Analysis!EvaluateThreats(list)
    BY <2>2, Zenon DEF Analysis!Cards, MessagesOf
  <2>6. Readable(entries') /\ MessagesOf(entries') = MessagesOf(list)
    BY <2>2, <2>4, Zenon
  <2>7. /\ facets' \in Analysis!Facets(MessagesOf(entries'))
        /\ secrets' = Analysis!ScanLines(MessagesOf(entries'))
        /\ threats' = Analysis!EvaluateThreats(entries')
    BY <2>2, <2>5, <2>6, Zenon
  <2>. QED  BY <2>6, <2>7, Zenon DEF AnalysisInv, Readable, MessagesOf
<1>. QED  BY <1>1, <1>2

LEMMA AnalysisInvTells == AnalysisInv => Analysis!CardsTellMessages
BY ThreatsAgree, SecretsAgree, FacetsAgree, Zenon DEF AnalysisInv, Analysis!CardsTellMessages

-----------------------------------------------------------------------------
TablesInv ==
    /\ which = "rates" => RatesInv
    /\ which = "sbom" => SbomInv
    /\ which = "config" => ConfigInv
    /\ which = "services" => LogInv
    /\ which = "journal" => JournalInv
    /\ which = "slo" => SloInv
    /\ which = "statsd" => StatsdInv
    /\ which = "watch" => WatchInv
    /\ which = "analysis" => AnalysisInv

LEMMA TablesInit == Init => TablesInv
<1> SUFFICES ASSUME Init  PROVE TablesInv
  OBVIOUS
<1>1. /\ which = "rates" => Rates!Init
      /\ which = "sbom" => Sbom!Init
      /\ which = "config" => Config!Init
      /\ which = "services" => Services!Init
      /\ which = "journal" => Journal!Init
      /\ which = "slo" => Slo!Init
      /\ which = "statsd" => Statsd!Init
      /\ which = "watch" => Watch!Init
      /\ which = "analysis" => Analysis!Init
  BY Zenon DEF Init
<1>. QED  BY <1>1, RatesInvInit, SbomInvInit, ConfigInvInit, LogInvInit, JournalInvInit, SloInvInit,
           StatsdInvInit, WatchInvInit, AnalysisInvInit, Zenon DEF TablesInv

LEMMA TablesStep == TablesInv /\ [Next]_vars => TablesInv'
<1> SUFFICES ASSUME TablesInv, [Next]_vars  PROVE TablesInv'
  OBVIOUS
<1>1. which' = which
  BY Zenon DEF Next, vars
<1>2. which = "rates" => [Rates!Next]_(Rates!vars)
  BY Zenon DEF Next, Step, vars, Rates!vars
<1>3. which = "sbom" => [Sbom!Next]_(Sbom!vars)
  BY Zenon DEF Next, Step, vars, Sbom!vars
<1>4. which = "config" => [Config!Next]_(Config!vars)
  BY Zenon DEF Next, Step, vars, Config!vars
<1>5. which = "services" => [Services!Next]_(Services!vars)
  BY Zenon DEF Next, Step, vars, Services!vars
<1>6. which = "journal" => [Journal!Next]_(Journal!vars)
  BY Zenon DEF Next, Step, vars, Journal!vars
<1>7. which = "slo" => [Slo!Next]_(Slo!vars)
  BY Zenon DEF Next, Step, vars, Slo!vars
<1>8. which = "statsd" => [Statsd!Next]_(Statsd!vars)
  BY Zenon DEF Next, Step, vars, Statsd!vars
<1>9. which = "watch" => [Watch!Next]_(Watch!vars)
  BY Zenon DEF Next, Step, vars, Watch!vars
<1>10. which = "analysis" => [Analysis!Next]_(Analysis!vars)
  BY Zenon DEF Next, Step, vars, Analysis!vars
<1>11. /\ which = "rates" => RatesInv'
       /\ which = "sbom" => SbomInv'
       /\ which = "config" => ConfigInv'
  BY <1>2, <1>3, <1>4, RatesInvStep, SbomInvStep, ConfigInvStep, Zenon DEF TablesInv
<1>12. /\ which = "services" => LogInv'
       /\ which = "journal" => JournalInv'
       /\ which = "slo" => SloInv'
  BY <1>5, <1>6, <1>7, LogInvStep, JournalInvStep, SloInvStep, Zenon DEF TablesInv
<1>13. /\ which = "statsd" => StatsdInv'
       /\ which = "watch" => WatchInv'
       /\ which = "analysis" => AnalysisInv'
  BY <1>8, <1>9, <1>10, StatsdInvStep, WatchInvStep, AnalysisInvStep, Zenon DEF TablesInv
<1>. QED  BY <1>1, <1>11, <1>12, <1>13, Zenon DEF TablesInv

(***************************************************************************)
(* For any counters that come, go and start again, and however often and in *)
(* whichever order they are read: a rate counts at most what was moved      *)
(* since the reading it is compared with, over the time since then.         *)
(***************************************************************************)
THEOREM RatesAlwaysCoverTheirTime == Spec => []RatesCoverTheirTime
<1>1. TablesInv => RatesCoverTheirTime
  BY Zenon DEF TablesInv, RatesInv, RatesCoverTheirTime
<1>. QED  BY <1>1, TablesInit, TablesStep, PTL DEF Spec

(***************************************************************************)
(* For any lists of libraries, any packages and any queries, those that end *)
(* abnormally included: a library is listed, once, exactly when a query has  *)
(* told its package and that is known; a query that does not start or end in *)
(* time settles nothing, and one that ended settles, for ever and with no    *)
(* package, what it was silent on.                                           *)
(***************************************************************************)
THEOREM SbomAlwaysListsTheAsked == Spec => []SbomListsTheAsked
<1>1. TablesInv => SbomListsTheAsked
  BY SbomInvListsTheAsked, Zenon DEF TablesInv, SbomListsTheAsked
<1>. QED  BY <1>1, TablesInit, TablesStep, PTL DEF Spec

(***************************************************************************)
(* For any whole numbers in any file: the configuration is in its ranges    *)
(* and in order, validating it again changes nothing, and what the file     *)
(* leaves alone has its default.                                            *)
(***************************************************************************)
THEOREM ConfigAlwaysUsable == Spec => []ConfigIsUsable
<1>1. ConfigInv => Config!ConfigIsUsable
  BY Zenon DEF ConfigInv, Usable, Config!ConfigIsUsable
<1>2. TablesInv => ConfigIsUsable
  BY <1>1, Zenon DEF TablesInv, ConfigIsUsable
<1>. QED  BY <1>2, TablesInit, TablesStep, PTL DEF Spec

(***************************************************************************)
(* For any units, any listings and any queries that fail between them: the  *)
(* entries about a unit chain from one state to the next, newest first, and *)
(* the newest leads to the listing shown last, whatever left at the tail.   *)
(***************************************************************************)
THEOREM ServiceLogAlwaysTellsUnits == Spec => []ServiceLogTellsUnits
<1>1. TablesInv => ServiceLogTellsUnits
  BY LogInvTells, Zenon DEF TablesInv, ServiceLogTellsUnits
<1>. QED  BY <1>1, TablesInit, TablesStep, PTL DEF Spec

(***************************************************************************)
(* For any entries and any masking of their messages: the groups of every   *)
(* listing partition its errors, so their counts add up to the badge, and   *)
(* no two of them differ only in what is masked.                            *)
(***************************************************************************)
THEOREM JournalAlwaysPartitions == Spec => [](which = "journal" => Journal!GroupsPartitionErrors)
<1>1. TablesInv => (which = "journal" => Journal!GroupsPartitionErrors)
  BY JournalInvTells, Zenon DEF TablesInv
<1>. QED  BY <1>1, TablesInit, TablesStep, PTL DEF Spec

(***************************************************************************)
(* For any times of the samples, in any order, and any burn windows: what   *)
(* the tracker tells of its pruned samples is what the whole history says   *)
(* of those windows.                                                        *)
(***************************************************************************)
THEOREM SloAlwaysTellsHistory == Spec => [](which = "slo" => Slo!SloTellsHistory)
<1>1. TablesInv => (which = "slo" => Slo!SloTellsHistory)
  BY SloInvTells, Zenon DEF TablesInv
<1>. QED  BY <1>1, TablesInit, TablesStep, PTL DEF Spec

(***************************************************************************)
(* For any lines, values and sample rates, in any datagrams: every line is  *)
(* counted once under one heading, and a series that keeps to one type has  *)
(* the sum, the extremes, the last value and the distinct values of all of   *)
(* its lines, though the aggregator saw one value at a time.                 *)
(***************************************************************************)
THEOREM StatsdAlwaysTellsHistory == Spec => [](which = "statsd" => Statsd!SeriesTellHistory)
<1>1. TablesInv => (which = "statsd" => Statsd!SeriesTellHistory)
  BY StatsdInvTells, Zenon DEF TablesInv
<1>. QED  BY <1>1, TablesInit, TablesStep, PTL DEF Spec

(***************************************************************************)
(* For any window length, lookback, horizon and limit, and any whole values *)
(* of a metric: the verdicts depend neither on its level nor on its         *)
(* direction, an anomaly lies outside its band, a window that never moved    *)
(* only alarms the quartiles, and a forecast leads to the limit in time.     *)
(***************************************************************************)
THEOREM WatchdogAlwaysFair == Spec => [](which = "watch" => Watch!WatchdogIsFair)
<1>1. TablesInv => (which = "watch" => Watch!WatchdogIsFair)
  BY WatchInvFair, Zenon DEF TablesInv
<1>. QED  BY <1>1, TablesInit, TablesStep, PTL DEF Spec

(***************************************************************************)
(* For any messages, rules, times and any capacity and leak: a source is    *)
(* reported exactly when at one of its failures more had come than leaked   *)
(* since some earlier one, every secret is counted under one rule with its  *)
(* first sample, and no facet hides a more frequent one (JournalAnalysis).  *)
(***************************************************************************)
THEOREM AnalysisAlwaysTells == Spec => [](which = "analysis" => Analysis!CardsTellMessages)
<1>1. TablesInv => (which = "analysis" => Analysis!CardsTellMessages)
  BY AnalysisInvTells, Zenon DEF TablesInv
<1>. QED  BY <1>1, TablesInit, TablesStep, PTL DEF Spec

(***************************************************************************)
(* Whatever comes in, in whichever order: every sum, group and verdict that *)
(* is shown agrees with it.                                                 *)
(***************************************************************************)
THEOREM AggregatesAlwaysTell == Spec => []AggregatesTellInputs
<1>1. (/\ which = "journal" => Journal!GroupsPartitionErrors
       /\ which = "analysis" => Analysis!CardsTellMessages
       /\ which = "traces" => Traces!TraceTotalsAgree
       /\ which = "statsd" => Statsd!SeriesTellHistory
       /\ which = "slo" => Slo!SloTellsHistory
       /\ which = "watch" => Watch!WatchdogIsFair) => AggregatesTellInputs
  BY Zenon DEF AggregatesTellInputs
<1>. QED  BY <1>1, JournalAlwaysPartitions, AnalysisAlwaysTells, TraceTotalsAlwaysAgree,
           StatsdAlwaysTellsHistory, SloAlwaysTellsHistory, WatchdogAlwaysFair, PTL
=============================================================================
