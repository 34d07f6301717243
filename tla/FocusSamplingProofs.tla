------------------------- MODULE FocusSamplingProofs -------------------------
(***************************************************************************)
(* Theorems about FocusSampling for any pids, any number of processes, any  *)
(* age of the cached group and any length of a sustained alarm.  Processes  *)
(* start, exit and reuse pids between any two reads of a sample.            *)
(***************************************************************************)
EXTENDS FocusSampling, WellFoundedInduction, TLAPS

Levels == {"OK", "WARN", "HIGH CPU"}

\* TypeOK, with the snapshot's fields.
Typed ==
    /\ TypeOK
    /\ shown \in [id : Ids \cup {NoId}, state : {"no-focus", "unavailable", "warming", "valid"},
                  counted : SUBSET Ids, level : Levels]

-----------------------------------------------------------------------------
(* The helpers.                                                            *)

LEMMA NoStreakType == NoStreak \in [Alarms -> 0 .. Sustained]
BY SamplingAssumption DEF NoStreak

LEMMA LongerType ==
    ASSUME NEW s \in [Alarms -> 0 .. Sustained], NEW raised
    PROVE  Longer(s, raised) \in [Alarms -> 0 .. Sustained]
<1>1. ASSUME NEW a \in Alarms
      PROVE  (IF a \notin raised THEN 0 ELSE IF s[a] < Sustained THEN s[a] + 1 ELSE Sustained)
                 \in 0 .. Sustained
  <2>1. s[a] \in 0 .. Sustained /\ Sustained \in Nat
    BY SamplingAssumption
  <2>. QED  BY <2>1
<1>. QED  BY <1>1 DEF Longer

\* A longer streak stays the longer one.
LEMMA LongerMonotone ==
    ASSUME NEW s \in [Alarms -> 0 .. Sustained], NEW r \in [Alarms -> 0 .. Sustained],
           NEW raised, \A a \in Alarms : s[a] <= r[a]
    PROVE  \A a \in Alarms : Longer(s, raised)[a] <= Longer(r, raised)[a]
<1> SUFFICES ASSUME NEW a \in Alarms
             PROVE  Longer(s, raised)[a] <= Longer(r, raised)[a]
  OBVIOUS
<1>1. s[a] \in 0 .. Sustained /\ r[a] \in 0 .. Sustained /\ s[a] <= r[a] /\ Sustained \in Nat
  BY SamplingAssumption
<1>. QED  BY <1>1 DEF Longer

LEMMA LevelType == ASSUME NEW s PROVE Level(s) \in Levels
BY DEF Level, Levels

\* The identity of a process that runs.
LEMMA IdType ==
    ASSUME TypeOK, NEW p \in Alive
    PROVE  Id(p) \in Ids /\ Id(p) # NoId
<1>1. p \in Pids /\ table[p].start \in 1 .. MaxStart
  BY SamplingAssumption DEF TypeOK, Alive
<1>. QED  BY <1>1, SamplingAssumption DEF Id, Ids, NoId

LEMMA DiscoverType == ASSUME NEW p PROVE Discover(p) \subseteq Pids
BY DEF Discover, Reach

-----------------------------------------------------------------------------
(* Types.                                                                  *)

LEMMA TypeInit == Init => Typed
<1> SUFFICES ASSUME Init  PROVE Typed
  OBVIOUS
<1>1. NoStreak \in [Alarms -> 0 .. Sustained]
  BY NoStreakType
<1>2. table \in [Pids -> [start : 0 .. MaxStart, parent : Pids \cup {0}, kin : BOOLEAN]]
  BY SamplingAssumption DEF Init, Gone
<1>3. shown \in [id : Ids \cup {NoId}, state : {"no-focus", "unavailable", "warming", "valid"},
                 counted : SUBSET Ids, level : Levels]
  BY DEF Init, NoFocus, Shown, Levels
<1>4. /\ nextStart \in 1 .. MaxStart + 1 /\ baseline \in 1 .. MaxStart + 1
      /\ back \in 0 .. MaxBack /\ age \in -back .. Interval + 1
      /\ 0 \in 0 .. MaxStart /\ 0 \in 0 .. TooLong
  BY SamplingAssumption DEF Init, TooLong
<1>5. /\ last \in [Pids -> 0 .. MaxStart]
      /\ strange \in [Pids -> 0 .. TooLong]
  BY <1>4 DEF Init, NoStranger
<1>6. /\ focus \in Pids \cup {None, Self} /\ group \subseteq Pids
      /\ step \in {"idle", "focused", "grouped"} /\ standIn \in BOOLEAN
      /\ {asked, lastId, groupKey, cpuKey, healthId} \subseteq Ids \cup {NoId}
  BY DEF Init
<1>7. shown.state \in {"no-focus", "unavailable", "warming", "valid"}
  BY <1>3
<1>8. streak \in [Alarms -> 0 .. Sustained] /\ run \in [Alarms -> 0 .. Sustained]
  BY <1>1 DEF Init
<1>. QED
  BY <1>2, <1>3, <1>4, <1>5, <1>6, <1>7, <1>8 DEF Typed, TypeOK

\* What the two ends of sampleNow publish.
LEMMA PublishType ==
    ASSUME Typed, NEW state \in {"unavailable", "warming", "valid"},
           NEW counted \in SUBSET Ids, NEW raised, Publish(state, counted, raised)
    PROVE  /\ streak' \in [Alarms -> 0 .. Sustained] /\ run' \in [Alarms -> 0 .. Sustained]
           /\ shown' \in [id : Ids \cup {NoId},
                          state : {"no-focus", "unavailable", "warming", "valid"},
                          counted : SUBSET Ids, level : Levels]
           /\ strange' \in [Pids -> 0 .. TooLong]
<1>1. streak' \in [Alarms -> 0 .. Sustained]
  BY LongerType DEF Publish, Typed, TypeOK
<1>2. (IF shown.id = asked THEN run ELSE NoStreak) \in [Alarms -> 0 .. Sustained]
  BY NoStreakType DEF Typed, TypeOK
<1>3. run' \in [Alarms -> 0 .. Sustained]
  BY <1>2, LongerType DEF Publish
<1>4. asked \in Ids \cup {NoId}
  BY DEF Typed, TypeOK
<1>5. shown' = Shown(asked, state, counted, Level(streak'))
  BY DEF Publish
<1>6. shown' \in [id : Ids \cup {NoId},
                  state : {"no-focus", "unavailable", "warming", "valid"},
                  counted : SUBSET Ids, level : Levels]
  BY <1>4, <1>5, LevelType DEF Shown
<1>7. \A p \in Pids : strange[p] \in 0 .. TooLong /\ 0 \in 0 .. TooLong /\ 1 \in 0 .. TooLong
  <2>1. 0 \in 0 .. TooLong /\ 1 \in 0 .. TooLong
    BY SamplingAssumption DEF TooLong
  <2>. QED  BY <2>1 DEF Typed, TypeOK
<1>8. strange' \in [Pids -> 0 .. TooLong]
  BY <1>7 DEF Publish
<1>. QED  BY <1>1, <1>3, <1>6, <1>8

\* The first part of a sample.
LEMMA BeginType ==
    ASSUME Typed, NEW id \in Ids, Begin(id)
    PROVE  /\ step' = "focused" /\ asked' = id /\ healthId' = id
           /\ streak' \in [Alarms -> 0 .. Sustained]
           /\ UNCHANGED <<shown, run, strange>>
BY NoStreakType DEF Begin, Typed, TypeOK

LEMMA NothingType ==
    ASSUME Typed, BeginNothing
    PROVE  /\ step' = "idle" /\ asked' = asked /\ healthId' = NoId
           /\ streak' = NoStreak /\ run' = NoStreak /\ shown' = NoFocus
           /\ streak' \in [Alarms -> 0 .. Sustained] /\ run' \in [Alarms -> 0 .. Sustained]
           /\ shown' \in [id : Ids \cup {NoId},
                          state : {"no-focus", "unavailable", "warming", "valid"},
                          counted : SUBSET Ids, level : Levels]
           /\ strange' \in [Pids -> 0 .. TooLong]
BY NoStreakType, SamplingAssumption
   DEF BeginNothing, NoFocus, Shown, NoStranger, Levels, TooLong

LEMMA TypeStep == Typed /\ [Next]_vars => Typed'
<1> SUFFICES ASSUME Typed, [Next]_vars  PROVE Typed'
  OBVIOUS
<1> DEFINE Snapshots == [id : Ids \cup {NoId},
                         state : {"no-focus", "unavailable", "warming", "valid"},
                         counted : SUBSET Ids, level : Levels]
<1>0. TypeOK /\ shown \in Snapshots
  BY DEF Typed
<1>1. CASE Spawn
  <2>1. PICK p \in Pids \ Alive, parent \in Alive \cup {0}, kin \in BOOLEAN :
            table' = [table EXCEPT ![p] = [start |-> nextStart, parent |-> parent, kin |-> kin]]
    BY <1>1 DEF Spawn
  <2>2. nextStart \in 0 .. MaxStart /\ nextStart' \in 1 .. MaxStart + 1
    BY <1>0, <1>1, SamplingAssumption DEF Spawn, TypeOK
  <2>3. parent \in Pids \cup {0}
    BY DEF Alive
  <2>4. [start |-> nextStart, parent |-> parent, kin |-> kin]
            \in [start : 0 .. MaxStart, parent : Pids \cup {0}, kin : BOOLEAN]
    BY <2>2, <2>3
  <2>5. table' \in [Pids -> [start : 0 .. MaxStart, parent : Pids \cup {0}, kin : BOOLEAN]]
    BY <1>0, <2>1, <2>4 DEF TypeOK
  <2>. QED
    BY <1>0, <1>1, <2>2, <2>5 DEF Spawn, Typed, TypeOK, query, cache, cpu, health, history
<1>2. CASE Exit
  <2> DEFINE Procs == [start : 0 .. MaxStart, parent : Pids \cup {0}, kin : BOOLEAN]
  <2>1. PICK p \in Alive :
            table' = [q \in Pids |->
                        CASE q = p -> Gone
                          [] q # p /\ table[q].parent = p ->
                                [table[q] EXCEPT !.parent = 0, !.kin = FALSE]
                          [] OTHER -> table[q]]
    BY <1>2 DEF Exit
  <2>2. Gone \in Procs
    BY SamplingAssumption DEF Gone
  <2>3. ASSUME NEW q \in Pids
        PROVE  /\ table[q] \in Procs
               /\ [table[q] EXCEPT !.parent = 0, !.kin = FALSE] \in Procs
    <3>1. table[q] \in Procs
      BY <1>0 DEF TypeOK
    <3>2. \A r \in Procs : [r EXCEPT !.parent = 0, !.kin = FALSE] \in Procs
      OBVIOUS
    <3>. QED  BY <3>1, <3>2
  <2>4. ASSUME NEW q \in Pids  PROVE table'[q] \in Procs
    <3>1. CASE q = p
      BY <2>1, <2>2, <3>1, Zenon
    <3>2. CASE q # p /\ table[q].parent = p
      <4>1. table'[q] = [table[q] EXCEPT !.parent = 0, !.kin = FALSE]
        BY <2>1, <3>2, Zenon
      <4>. QED  BY <2>3, <4>1
    <3>3. CASE q # p /\ table[q].parent # p
      <4>1. table'[q] = table[q]
        BY <2>1, <3>3, Zenon
      <4>. QED  BY <2>3, <4>1
    <3>. QED  BY <3>1, <3>2, <3>3
  <2>5. table' = [q \in Pids |-> table'[q]]
    BY <2>1, Zenon
  <2>6. table' \in [Pids -> Procs]
    BY <2>4, <2>5
  <2>. QED
    BY <1>0, <1>2, <2>6 DEF Exit, Typed, TypeOK, query, cache, cpu, health, history
<1>3. CASE Focus
  BY <1>0, <1>3 DEF Focus, Typed, TypeOK, query, cache, cpu, health, history
<1>4. CASE Elapse
  <2>1. age' \in -back' .. Interval + 1 /\ back' = back
    BY <1>0, <1>4, SamplingAssumption DEF Elapse, TypeOK
  <2>2. \A p \in Pids : (IF strange[p] \in 1 .. TooLong - 1 THEN strange[p] + 1 ELSE strange[p])
                             \in 0 .. TooLong
    <3>1. TooLong \in Nat
      BY SamplingAssumption DEF TooLong
    <3>. QED  BY <1>0, <3>1 DEF TypeOK
  <2>3. strange' \in [Pids -> 0 .. TooLong]
    BY <1>4, <2>2 DEF Elapse
  <2>. QED
    BY <1>0, <1>4, <2>1, <2>3 DEF Elapse, Typed, TypeOK, proc, query, cpu, health
<1>9. CASE SetClock
  <2>1. age \in Int /\ back \in 0 .. MaxBack /\ age \in -back .. Interval + 1
    BY <1>0, SamplingAssumption DEF TypeOK
  <2>2. back' \in 0 .. MaxBack /\ age' \in -back' .. Interval + 1
    <3>1. ASSUME NEW by \in 1 .. MaxBack - back, age' = age - by, back' = back + by
          PROVE  back' \in 0 .. MaxBack /\ age' \in -back' .. Interval + 1
      BY <2>1, <3>1, SamplingAssumption
    <3>2. CASE age <= Interval /\ age' = age + 1 /\ UNCHANGED back
      BY <2>1, <3>2, SamplingAssumption
    <3>. QED  BY <1>9, <3>1, <3>2 DEF SetClock
  <2>. QED
    BY <1>0, <1>9, <2>2 DEF SetClock, Typed, TypeOK, proc, query, cpu, health, history
<1>5. CASE SampleFocus
  <2>1. UNCHANGED <<proc, cache, cpu, baseline>> /\ standIn' \in BOOLEAN
    BY <1>5 DEF SampleFocus
  <2>2. ASSUME NEW id \in Ids, Begin(id), lastId' \in Ids \cup {NoId}  PROVE Typed'
    <3>1. id \in Ids \cup {NoId}
      OBVIOUS
    <3>. QED
      BY <1>0, <2>1, <2>2, <3>1, BeginType DEF Typed, TypeOK, proc, cache, cpu
  <2>3. ASSUME BeginNothing, UNCHANGED lastId  PROVE Typed'
    <3>1. shown'.state \in {"no-focus", "unavailable", "warming", "valid"}
      BY <2>3, NothingType
    <3>. QED
      BY <1>0, <2>1, <2>3, <3>1, NothingType DEF Typed, TypeOK, proc, cache, cpu
  <2>4. CASE focus = Self /\ (IF lastId # NoId THEN Begin(lastId) ELSE BeginNothing)
             /\ UNCHANGED lastId
    BY <1>0, <2>2, <2>3, <2>4 DEF TypeOK
  <2>5. CASE focus \in Alive /\ Begin(Id(focus)) /\ lastId' = Id(focus)
    BY <1>0, <2>2, <2>5, IdType
  <2>. QED  BY <1>5, <2>3, <2>4, <2>5 DEF SampleFocus
<1>6. CASE PidsFor
  <2>1. /\ group' \subseteq Pids /\ groupKey' \in Ids \cup {NoId}
        /\ back' \in 0 .. MaxBack /\ age' \in -back' .. Interval + 1
    <3>1. CASE asked # groupKey \/ age > Interval
      <4>1. group' = Discover(asked.pid) /\ groupKey' = asked /\ age' = 0 /\ back' = 0
        BY <1>6, <3>1 DEF PidsFor
      <4>2. 0 \in 0 .. MaxBack /\ 0 \in -0 .. Interval + 1
        BY SamplingAssumption
      <4>. QED  BY <1>0, <4>1, <4>2, DiscoverType DEF TypeOK
    <3>2. CASE ~ (asked # groupKey \/ age > Interval)
      BY <1>0, <1>6, <3>2 DEF PidsFor, cache, TypeOK
    <3>. QED  BY <3>1, <3>2
  <2>. QED
    BY <1>0, <1>6, <2>1 DEF PidsFor, Typed, TypeOK, proc, cpu, health, history
<1>7. CASE Measure
  <2>1. last' \in [Pids -> 0 .. MaxStart]
    <3>1. \A p \in Pids : table[p].start \in 0 .. MaxStart /\ 0 \in 0 .. MaxStart
      BY <1>0, SamplingAssumption DEF TypeOK
    <3>. QED  BY <1>7, <3>1 DEF Measure, Current
  <2>2. cpuKey' \in Ids \cup {NoId}
    BY <1>0, <1>7 DEF Measure, TypeOK
  <2>3. {Id(p) : p \in Comparable} \in SUBSET Ids
    BY <1>0, IdType DEF Comparable
  <2>4. \E state \in {"unavailable", "warming", "valid"}, counted \in SUBSET Ids, raised \in SUBSET Alarms :
            Publish(state, counted, raised)
    <3>1. {} \in SUBSET Ids /\ {} \in SUBSET Alarms /\ RssAlarms \subseteq SUBSET Alarms
      BY DEF RssAlarms, Alarms
    <3>. QED  BY <1>7, <2>3, <3>1 DEF Measure
  <2>5. PICK state \in {"unavailable", "warming", "valid"}, counted \in SUBSET Ids,
             raised \in SUBSET Alarms : Publish(state, counted, raised)
    BY <2>4
  <2>6. /\ streak' \in [Alarms -> 0 .. Sustained] /\ run' \in [Alarms -> 0 .. Sustained]
        /\ shown' \in Snapshots
        /\ strange' \in [Pids -> 0 .. TooLong]
    BY <2>5, PublishType
  <2>7. shown'.state \in {"no-focus", "unavailable", "warming", "valid"}
    BY <2>6
  <2>8. baseline' \in 1 .. MaxStart + 1 /\ step' = "idle"
    BY <1>0, <1>7 DEF Measure, TypeOK
  <2>9. UNCHANGED <<table, nextStart, focus, asked, standIn, lastId, group, groupKey, age, back, healthId>>
    BY <1>7 DEF Measure, proc, cache
  <2>. QED
    BY <1>0, <2>1, <2>2, <2>6, <2>7, <2>8, <2>9 DEF Typed, TypeOK
<1>8. CASE UNCHANGED vars
  BY <1>0, <1>8 DEF vars, Typed, TypeOK, proc, query, cache, cpu, health, history
<1>. QED
  BY <1>1, <1>2, <1>3, <1>4, <1>5, <1>6, <1>7, <1>8, <1>9 DEF Next

LEMMA TypedAlways == Spec => []Typed
BY TypeInit, TypeStep, PTL DEF Spec

\* Every variable keeps its type, whatever the processes do during a sample.
THEOREM TypeCorrect == Spec => []TypeOK
<1>1. Typed => TypeOK
  BY DEF Typed
<1>. QED  BY <1>1, TypedAlways, PTL

-----------------------------------------------------------------------------
(* Who is counted.                                                         *)

\* Start times grow: what runs is older than the next process, what the last
\* measure saw is older than the process that came next then; and the pid that
\* is being sampled belongs to its process, to nobody, or to one that came
\* after the last measure.
StartsOrdered ==
    /\ \A p \in Pids : table[p].start < nextStart
    /\ \A p \in Pids : last[p] < baseline
    /\ baseline <= nextStart
    /\ step # "idle" /\ ~ standIn =>
          \A p \in Pids : p = asked.pid =>
              \/ table[p].start = 0 \/ table[p].start = asked.start
              \/ table[p].start >= baseline

LEMMA OrderedInit == Init => StartsOrdered
BY DEF Init, StartsOrdered, Gone

\* The types the order of the start times needs.
LEMMA Numbers ==
    ASSUME TypeOK
    PROVE  /\ nextStart \in Nat /\ baseline \in Nat
           /\ \A p \in Pids : table[p].start \in Nat /\ last[p] \in Nat
BY SamplingAssumption DEF TypeOK

LEMMA OrderedStep == Typed /\ StartsOrdered /\ [Next]_vars => StartsOrdered'
<1> SUFFICES ASSUME Typed, StartsOrdered, [Next]_vars  PROVE StartsOrdered'
  OBVIOUS
<1>0. /\ TypeOK /\ nextStart \in Nat /\ baseline \in Nat
      /\ \A p \in Pids : table[p].start \in Nat /\ last[p] \in Nat
  BY Numbers DEF Typed
<1>1. CASE Spawn
  <2>1. PICK p \in Pids \ Alive, parent \in Alive \cup {0}, kin \in BOOLEAN :
            table' = [table EXCEPT ![p] = [start |-> nextStart, parent |-> parent, kin |-> kin]]
    BY <1>1 DEF Spawn
  <2>2. table \in [Pids -> [start : 0 .. MaxStart, parent : Pids \cup {0}, kin : BOOLEAN]]
    BY <1>0 DEF TypeOK
  <2>3. \A q \in Pids : table'[q].start = IF q = p THEN nextStart ELSE table[q].start
    BY <2>1, <2>2
  <2>4. nextStart' = nextStart + 1 /\ UNCHANGED <<step, asked, standIn, last, baseline>>
    BY <1>1 DEF Spawn, query, cpu, history
  <2>. QED  BY <1>0, <2>3, <2>4 DEF StartsOrdered
<1>2. CASE Exit
  <2>1. \A q \in Pids : table'[q].start \in {0, table[q].start}
    <3>1. PICK p \in Alive :
              table' = [q \in Pids |->
                          CASE q = p -> Gone
                            [] q # p /\ table[q].parent = p ->
                                  [table[q] EXCEPT !.parent = 0, !.kin = FALSE]
                            [] OTHER -> table[q]]
      BY <1>2 DEF Exit
    <3> SUFFICES ASSUME NEW q \in Pids  PROVE table'[q].start \in {0, table[q].start}
      OBVIOUS
    <3>2. table[q] \in [start : 0 .. MaxStart, parent : Pids \cup {0}, kin : BOOLEAN]
      BY <1>0 DEF TypeOK
    <3>3. CASE q = p
      <4>1. table'[q] = Gone
        BY <3>1, <3>3, Zenon
      <4>. QED  BY <4>1 DEF Gone
    <3>4. CASE q # p /\ table[q].parent = p
      <4>1. table'[q] = [table[q] EXCEPT !.parent = 0, !.kin = FALSE]
        BY <3>1, <3>4, Zenon
      <4>. QED  BY <3>2, <4>1
    <3>5. CASE q # p /\ table[q].parent # p
      <4>1. table'[q] = table[q]
        BY <3>1, <3>5, Zenon
      <4>. QED  BY <4>1
    <3>. QED  BY <3>3, <3>4, <3>5
  <2>2. UNCHANGED <<nextStart, step, asked, standIn, last, baseline>>
    BY <1>2 DEF Exit, query, cpu, history
  <2>. QED  BY <1>0, <2>1, <2>2 DEF StartsOrdered
<1>3. CASE Focus
  BY <1>3 DEF Focus, StartsOrdered, query, cpu, history
<1>4. CASE Elapse \/ SetClock
  BY <1>4 DEF Elapse, SetClock, StartsOrdered, proc, query, cpu, history
<1>5. CASE SampleFocus
  <2>1. /\ step = "idle" /\ standIn' = (focus = Self)
        /\ UNCHANGED <<table, nextStart, last, baseline>>
    BY <1>5 DEF SampleFocus, proc, cpu
  <2>2. CASE standIn' \/ step' = "idle"
    BY <1>0, <2>1, <2>2 DEF StartsOrdered
  <2>3. CASE ~ standIn' /\ step' # "idle"
    <3>1. focus \in Alive /\ asked' = Id(focus)
      BY <1>5, <2>1, <2>3 DEF SampleFocus, Begin, BeginNothing
    <3>2. asked'.pid = focus /\ asked'.start = table[focus].start
      BY <3>1 DEF Id
    <3>. QED  BY <1>0, <2>1, <3>2 DEF StartsOrdered
  <2>. QED  BY <2>2, <2>3
<1>6. CASE PidsFor
  BY <1>6 DEF PidsFor, StartsOrdered, proc, cpu, history
<1>7. CASE Measure
  <2>1. /\ baseline' = nextStart /\ last' = Current /\ step' = "idle"
        /\ UNCHANGED <<table, nextStart>>
    BY <1>7 DEF Measure, proc
  <2>2. \A p \in Pids : last'[p] \in {0, table[p].start}
    BY <2>1 DEF Current
  <2>3. 0 < nextStart
    BY <1>0, SamplingAssumption DEF TypeOK
  <2>. QED  BY <1>0, <2>1, <2>2, <2>3 DEF StartsOrdered
<1>8. CASE UNCHANGED vars
  BY <1>8 DEF vars, StartsOrdered, proc, query, cpu, history
<1>. QED
  BY <1>1, <1>2, <1>3, <1>4, <1>5, <1>6, <1>7, <1>8 DEF Next

LEMMA StartsAlwaysOrdered == Spec => [](Typed /\ StartsOrdered)
<1>1. Init => Typed /\ StartsOrdered
  BY TypeInit, OrderedInit
<1>2. Typed /\ StartsOrdered /\ [Next]_vars => (Typed /\ StartsOrdered)'
  BY TypeStep, OrderedStep
<1>. QED  BY <1>1, <1>2, PTL DEF Spec

\* Only Measure takes a sample to its end, and it counts comparable pids only.
LEMMA CountedIsComparable ==
    ASSUME [Next]_vars, Measured
    PROVE  /\ shown'.id = asked
           /\ \A id \in shown'.counted : \E p \in Comparable : id = Id(p)
<1>1. Measure
  BY DEF Next, Measured, Spawn, Exit, Focus, Elapse, SetClock, SampleFocus, PidsFor, vars, query
<1>2. \E state, raised : Publish(state, {}, raised) \/ Publish(state, {Id(p) : p \in Comparable}, raised)
  BY <1>1 DEF Measure
<1>3. PICK state, raised :
          Publish(state, {}, raised) \/ Publish(state, {Id(p) : p \in Comparable}, raised)
  BY <1>2
<1>. QED  BY <1>3 DEF Publish, Shown

(***************************************************************************)
(* A process contributes only time it spent since the sample before: one    *)
(* that took over a pid meanwhile is not counted (CpuSampler.cpp:67).       *)
(***************************************************************************)
THEOREM YoungNeverCountedAlways == Spec => YoungNeverCounted
<1>1. ASSUME Typed, StartsOrdered, [Next]_vars
      PROVE  [Measured => \A id \in shown'.counted : id.start < baseline]_vars
  <2> SUFFICES ASSUME Measured, NEW id \in shown'.counted  PROVE id.start < baseline
    OBVIOUS
  <2>1. PICK p \in Comparable : id = Id(p)
    BY <1>1, CountedIsComparable
  <2>2. p \in Pids /\ last[p] = table[p].start
    BY DEF Comparable, Alive
  <2>. QED  BY <1>1, <2>1, <2>2 DEF Id, StartsOrdered
<1>. QED  BY <1>1, StartsAlwaysOrdered, PTL DEF Spec, YoungNeverCounted

(***************************************************************************)
(* The process counted under the focused pid is the one the snapshot names, *)
(* also when the pid changed hands between the first read and the last.     *)
(***************************************************************************)
THEOREM NamedIsMeasuredAlways == Spec => NamedIsMeasured
<1>1. ASSUME Typed, StartsOrdered, [Next]_vars
      PROVE  [Measured /\ ~ standIn => NamesWhatItMeasures(shown')]_vars
  <2> SUFFICES ASSUME Measured, ~ standIn, NEW id \in shown'.counted, id.pid = shown'.id.pid
               PROVE  id = shown'.id
    BY DEF NamesWhatItMeasures
  <2>1. shown'.id = asked
    BY <1>1, CountedIsComparable
  <2>2. PICK p \in Comparable : id = Id(p)
    BY <1>1, CountedIsComparable
  <2>3. p \in Pids /\ last[p] = table[p].start /\ table[p].start # 0 /\ p = asked.pid
    BY <2>1, <2>2 DEF Comparable, Alive, Id
  <2>4. table[p].start < baseline /\ table[p].start \in Nat /\ baseline \in Nat
    BY <1>1, <2>3, Numbers DEF StartsOrdered, Typed
  <2>5. table[p].start = asked.start
    BY <1>1, <2>3, <2>4 DEF StartsOrdered, Measured
  <2>6. asked \in Ids
    BY <1>1, <2>3, SamplingAssumption DEF Typed, TypeOK, NoId
  <2>. QED  BY <2>1, <2>2, <2>3, <2>5, <2>6 DEF Id, Ids
<1>. QED  BY <1>1, StartsAlwaysOrdered, PTL DEF Spec, NamedIsMeasured

-----------------------------------------------------------------------------
(* What an alarm stands for.                                               *)

\* The evaluator counts for the process it is asked about, and has counted no
\* more than the snapshots in a row that the process had.
StreaksEarned ==
    /\ healthId = IF step = "idle" THEN shown.id ELSE asked
    /\ step # "idle" /\ shown.id # asked => streak = NoStreak
    /\ \A a \in Alarms : streak[a] <= run[a]
    /\ AlarmIsSustained

LEMMA EarnedInit == Init => StreaksEarned
BY SamplingAssumption DEF Init, StreaksEarned, AlarmIsSustained, NoFocus, Shown, NoStreak

\* The levels that need a streak.
LEMMA LevelMeans ==
    ASSUME NEW s
    PROVE  /\ Level(s) = "HIGH CPU" => s["cpuHigh"] >= Sustained
           /\ Level(s) = "WARN" => s["cpuWarn"] >= Sustained \/ s["rssWarn"] >= Sustained
<1>1. CASE s["cpuHigh"] >= Sustained
  <2>1. CASE s["cpuWarn"] >= Sustained \/ s["rssWarn"] >= Sustained
    BY <1>1, <2>1
  <2>2. CASE ~ (s["cpuWarn"] >= Sustained \/ s["rssWarn"] >= Sustained)
    <3>1. Level(s) = "HIGH CPU"
      BY <1>1, <2>2, Zenon DEF Level
    <3>. QED  BY <1>1, <3>1
  <2>. QED  BY <2>1, <2>2
<1>2. CASE ~ (s["cpuHigh"] >= Sustained) /\ (s["cpuWarn"] >= Sustained \/ s["rssWarn"] >= Sustained)
  <2>1. Level(s) = "WARN"
    BY <1>2, Zenon DEF Level
  <2>. QED  BY <1>2, <2>1
<1>3. CASE ~ (s["cpuHigh"] >= Sustained) /\ ~ (s["cpuWarn"] >= Sustained \/ s["rssWarn"] >= Sustained)
  <2>1. Level(s) = "OK"
    BY <1>3, Zenon DEF Level
  <2>. QED  BY <2>1
<1>. QED  BY <1>1, <1>2, <1>3

\* The end of a sample.
LEMMA PublishEarns ==
    ASSUME Typed, StreaksEarned, step = "grouped", step' = "idle",
           UNCHANGED <<asked, healthId>>,
           NEW state, NEW counted, NEW raised, Publish(state, counted, raised)
    PROVE  StreaksEarned'
<1> DEFINE base == IF shown.id = asked THEN run ELSE NoStreak
<1>1. /\ shown'.id = asked /\ shown'.level = Level(streak')
      /\ streak' = Longer(streak, raised) /\ run' = Longer(base, raised)
  BY DEF Publish, Shown
<1>2. /\ streak \in [Alarms -> 0 .. Sustained] /\ base \in [Alarms -> 0 .. Sustained]
      /\ \A a \in Alarms : streak[a] <= base[a]
  <2>1. streak \in [Alarms -> 0 .. Sustained] /\ run \in [Alarms -> 0 .. Sustained]
    BY DEF Typed, TypeOK
  <2>2. CASE shown.id = asked
    BY <2>1, <2>2 DEF StreaksEarned
  <2>3. CASE shown.id # asked
    <3>1. streak = NoStreak /\ base = NoStreak
      BY <2>3 DEF StreaksEarned
    <3>2. \A a \in Alarms : NoStreak[a] <= NoStreak[a]
      BY DEF NoStreak
    <3>. QED  BY <2>1, <3>1, <3>2
  <2>. QED  BY <2>2, <2>3
<1>3. \A a \in Alarms : streak'[a] <= run'[a]
  BY <1>1, <1>2, LongerMonotone
<1>4. \A a \in Alarms : streak'[a] \in Nat /\ run'[a] \in Nat /\ Sustained \in Nat
  BY <1>1, <1>2, LongerType, SamplingAssumption
<1>5. AlarmIsSustained'
  <2>1. \A a \in Alarms : streak'[a] >= Sustained => run'[a] >= Sustained
    BY <1>3, <1>4
  <2>2. /\ shown'.level = "HIGH CPU" => streak'["cpuHigh"] >= Sustained
        /\ shown'.level = "WARN" =>
               streak'["cpuWarn"] >= Sustained \/ streak'["rssWarn"] >= Sustained
    BY <1>1, LevelMeans
  <2>3. /\ streak'["cpuHigh"] >= Sustained => run'["cpuHigh"] >= Sustained
        /\ streak'["cpuWarn"] >= Sustained => run'["cpuWarn"] >= Sustained
        /\ streak'["rssWarn"] >= Sustained => run'["rssWarn"] >= Sustained
    BY <2>1 DEF Alarms
  <2>. QED  BY <2>2, <2>3 DEF AlarmIsSustained
<1>6. healthId' = shown'.id
  BY <1>1 DEF StreaksEarned
<1>. QED  BY <1>3, <1>5, <1>6 DEF StreaksEarned

LEMMA EarnedStep == Typed /\ StreaksEarned /\ [Next]_vars => StreaksEarned'
<1> SUFFICES ASSUME Typed, StreaksEarned, [Next]_vars  PROVE StreaksEarned'
  OBVIOUS
<1>1. CASE Spawn \/ Exit \/ Focus \/ Elapse \/ SetClock
  <2>1. UNCHANGED <<step, asked, healthId, streak, shown, run>>
    BY <1>1 DEF Spawn, Exit, Focus, Elapse, SetClock, query, health, history
  <2>. QED  BY <2>1 DEF StreaksEarned, AlarmIsSustained
<1>2. CASE SampleFocus
  <2>1. step = "idle"
    BY <1>2 DEF SampleFocus
  <2>2. ASSUME NEW id, Begin(id)  PROVE StreaksEarned'
    <3>1. /\ step' = "focused" /\ asked' = id /\ healthId' = id /\ UNCHANGED <<shown, run>>
          /\ streak' = IF id # shown.id THEN NoStreak ELSE streak
      BY <2>1, <2>2 DEF Begin, StreaksEarned
    <3>2. \A a \in Alarms : NoStreak[a] <= run[a]
      BY SamplingAssumption DEF NoStreak, Typed, TypeOK
    <3>. QED  BY <3>1, <3>2 DEF StreaksEarned, AlarmIsSustained
  <2>3. ASSUME BeginNothing  PROVE StreaksEarned'
    <3>1. \A a \in Alarms : NoStreak[a] <= NoStreak[a]
      BY DEF NoStreak
    <3>. QED  BY <2>3, <3>1 DEF BeginNothing, StreaksEarned, AlarmIsSustained, NoFocus, Shown
  <2>. QED  BY <1>2, <2>2, <2>3 DEF SampleFocus
<1>3. CASE PidsFor
  BY <1>3 DEF PidsFor, StreaksEarned, AlarmIsSustained, health, history
<1>4. CASE Measure
  <2>1. step = "grouped" /\ step' = "idle" /\ UNCHANGED <<asked, healthId>>
    BY <1>4 DEF Measure
  <2>2. \E state, counted, raised : Publish(state, counted, raised)
    BY <1>4 DEF Measure
  <2>. QED  BY <2>1, <2>2, PublishEarns
<1>5. CASE UNCHANGED vars
  BY <1>5 DEF vars, query, health, history, StreaksEarned, AlarmIsSustained
<1>. QED
  BY <1>1, <1>2, <1>3, <1>4, <1>5 DEF Next

(***************************************************************************)
(* "HIGH CPU" and "WARN" stand for that many snapshots in a row of one      *)
(* process, whatever the focus did before.                                  *)
(***************************************************************************)
THEOREM AlarmAlwaysSustained == Spec => []AlarmIsSustained
<1>1. Init => Typed /\ StreaksEarned
  BY TypeInit, EarnedInit
<1>2. Typed /\ StreaksEarned /\ [Next]_vars => (Typed /\ StreaksEarned)'
  BY TypeStep, EarnedStep
<1>3. StreaksEarned => AlarmIsSustained
  BY DEF StreaksEarned
<1>. QED  BY <1>1, <1>2, <1>3, PTL DEF Spec

-----------------------------------------------------------------------------
(* Reach: the pids that a chain of links leads to.                         *)

Closed(S, links) == \A l \in links : l[1] \in S => l[2] \in S

LEMMA ReachIn ==
    ASSUME NEW p, NEW links, NEW S \in SUBSET Pids, p \in S, Closed(S, links)
    PROVE  Reach(p, links) \subseteq S
BY Zenon DEF Reach, Closed

LEMMA ReachHolds ==
    ASSUME NEW p \in Pids, NEW links \in SUBSET (Pids \X Pids)
    PROVE  p \in Reach(p, links) /\ Closed(Reach(p, links), links) /\ Reach(p, links) \in SUBSET Pids
<1>1. p \in Reach(p, links) /\ Reach(p, links) \in SUBSET Pids
  BY DEF Reach
<1>2. ASSUME NEW l \in links, l[1] \in Reach(p, links)  PROVE l[2] \in Reach(p, links)
  <2>1. l[2] \in Pids
    BY <1>2
  <2>2. ASSUME NEW S \in SUBSET Pids, p \in S, \A m \in links : m[1] \in S => m[2] \in S
        PROVE  l[2] \in S
    <3>1. l[1] \in S
      BY <1>2, <2>2, Zenon DEF Reach
    <3>. QED  BY <2>2, <3>1
  <2>. QED  BY <2>1, <2>2 DEF Reach
<1>. QED  BY <1>1, <1>2 DEF Closed

LEMMA ReachFurther ==
    ASSUME NEW p \in Pids, NEW links \in SUBSET (Pids \X Pids), NEW q \in Reach(p, links)
    PROVE  Reach(q, links) \subseteq Reach(p, links)
BY ReachHolds, ReachIn, Zenon

LEMMA ReachMore ==
    ASSUME NEW p \in Pids, NEW links, NEW more \in SUBSET (Pids \X Pids), links \subseteq more
    PROVE  Reach(p, links) \subseteq Reach(p, more)
<1>1. p \in Reach(p, more) /\ Closed(Reach(p, more), more) /\ Reach(p, more) \in SUBSET Pids
  BY ReachHolds
<1>2. Closed(Reach(p, more), links)
  BY <1>1, Zenon DEF Closed
<1>. QED  BY <1>1, <1>2, ReachIn, Zenon

\* Who is reached by links is led back by their reverse.
LEMMA ReachBack ==
    ASSUME NEW p \in Pids, NEW up \in SUBSET (Pids \X Pids), NEW down \in SUBSET (Pids \X Pids),
           \A l \in up : <<l[2], l[1]>> \in down, NEW q \in Reach(p, up)
    PROVE  p \in Reach(q, down)
<1>. DEFINE S == {x \in Pids : p \in Reach(x, down)}
<1>1. p \in S
  BY ReachHolds
<1>2. ASSUME NEW l \in up, l[1] \in S  PROVE l[2] \in S
  <2>1. l[1] \in Pids /\ l[2] \in Pids /\ <<l[2], l[1]>> \in down
    OBVIOUS
  <2>2. l[2] \in Reach(l[2], down) /\ Closed(Reach(l[2], down), down)
    BY <2>1, ReachHolds
  <2>3. l[1] \in Reach(l[2], down)
    BY <2>1, <2>2 DEF Closed
  <2>4. Reach(l[1], down) \subseteq Reach(l[2], down)
    BY <2>1, <2>3, ReachFurther
  <2>. QED  BY <1>2, <2>1, <2>4
<1>3. S \in SUBSET Pids
  OBVIOUS
<1>4. Closed(S, up)
  BY <1>2 DEF Closed
<1>5. q \in S
  <2>. HIDE DEF S
  <2>. QED  BY <1>1, <1>3, <1>4, ReachIn, Zenon
<1>. QED  BY <1>5

-----------------------------------------------------------------------------
(* Processes and their groups, in any table.                               *)

Tables == [Pids -> [start : Nat, parent : Pids \cup {0}, kin : BOOLEAN]]

Up(t) == {l \in Pids \X Pids : t[l[1]].kin /\ t[l[1]].parent = l[2]}
Down(t) == {l \in Pids \X Pids : t[l[2]].parent = l[1]}
Top(t, p) == CHOOSE r \in Reach(p, Up(t)) : ~ t[r].kin
Group(t, p) == Reach(Top(t, p), Down(t))

\* A parent runs and is older than its children.
Families(t) ==
    \A q \in Pids :
        /\ t[q].start = 0 => t[q].parent = 0
        /\ t[q].kin => t[q].parent # 0
        /\ t[q].parent # 0 => /\ t[t[q].parent].start # 0
                              /\ t[t[q].parent].start < t[q].start

LEMMA LinksArePairs ==
    ASSUME NEW t
    PROVE  /\ Up(t) \in SUBSET (Pids \X Pids) /\ Down(t) \in SUBSET (Pids \X Pids)
           /\ \A l \in Up(t) : <<l[2], l[1]>> \in Down(t)
BY DEF Up, Down

\* The climb ends: the oldest process on the way is not of its parent's program.
LEMMA TopHolds ==
    ASSUME NEW t \in Tables, Families(t), NEW p \in Pids
    PROVE  Top(t, p) \in Reach(p, Up(t)) /\ ~ t[Top(t, p)].kin
<1>. DEFINE way == Reach(p, Up(t))
            T == {t[q].start : q \in way}
            less == {m \in Nat \X Nat : m[1] < m[2]}
<1>1. p \in way /\ way \in SUBSET Pids /\ Closed(way, Up(t))
  BY LinksArePairs, ReachHolds
<1>. HIDE DEF way
<1>2. T \subseteq Nat /\ T # {}
  <2>1. \A q \in way : t[q].start \in Nat
    BY <1>1 DEF Tables
  <2>. QED  BY <1>1, <2>1
<1>3. IsWellFoundedOn(less, Nat)
  BY NatLessThanWellFounded, Zenon DEF OpToRel
<1>4. PICK m \in T : \A k \in T : ~ (<<k, m>> \in less)
  <2>. HIDE DEF T, less
  <2>. QED  BY <1>2, <1>3, WFMin
<1>5. PICK r \in way : m = t[r].start
  BY <1>4
<1>6. ASSUME t[r].kin  PROVE FALSE
  <2>. DEFINE q == t[r].parent
  <2>1. r \in Pids /\ q \in Pids \cup {0} /\ q # 0
    BY <1>1, <1>5, <1>6 DEF Tables, Families
  <2>2. t[q].start < t[r].start /\ q \in Pids
    BY <2>1 DEF Families
  <2>3. <<r, q>> \in Up(t)
    BY <1>6, <2>1, <2>2 DEF Up
  <2>. HIDE DEF q
  <2>4. q \in way
    BY <1>1, <1>5, <2>3 DEF Closed
  <2>5. t[q].start \in T /\ t[q].start \in Nat /\ m \in Nat
    BY <1>2, <1>4, <2>4
  <2>6. <<t[q].start, m>> \in less
    BY <1>5, <2>2, <2>5
  <2>. HIDE DEF T, less
  <2>. QED  BY <1>4, <2>5, <2>6
<1>7. \E x \in way : ~ t[x].kin
  BY <1>5, <1>6
<1>8. Top(t, p) = CHOOSE x \in way : ~ t[x].kin
  BY DEF Top, way
<1>9. Top(t, p) \in way /\ ~ t[Top(t, p)].kin
  BY <1>7, <1>8, Zenon
<1>. QED  BY <1>9 DEF way

\* All climbs that start on one way end at the same process.
LEMMA TopIsReached ==
    ASSUME NEW t \in Tables, NEW p \in Pids, NEW r \in Reach(p, Up(t)), ~ t[r].kin,
           NEW y \in Reach(p, Up(t))
    PROVE  r \in Reach(y, Up(t))
<1>. DEFINE links == Up(t)
            S == {x \in Reach(p, links) : r \in Reach(x, links)}
<1>1. /\ links \in SUBSET (Pids \X Pids)
      /\ \A l \in links : t[l[1]].kin /\ t[l[1]].parent = l[2]
  BY DEF Up
<1>. HIDE DEF links
<1>2. p \in Reach(p, links) /\ Closed(Reach(p, links), links) /\ Reach(p, links) \in SUBSET Pids
  BY <1>1, ReachHolds
<1>3. r \in Reach(p, links) /\ y \in Reach(p, links)
  BY DEF links
<1>4. ASSUME NEW l \in links, l[1] \in S  PROVE l[2] \in S
  <2>. DEFINE x == l[1]
              z == l[2]
              R == {x} \cup Reach(z, links)
  <2>1. x \in Pids /\ z \in Pids /\ t[x].kin /\ t[x].parent = z
    BY <1>1
  <2>2. x \in Reach(p, links) /\ r \in Reach(x, links) /\ z \in Reach(p, links)
    BY <1>2, <1>4 DEF Closed
  <2>. HIDE DEF x, z
  <2>3. z \in Reach(z, links) /\ Closed(Reach(z, links), links) /\ Reach(z, links) \in SUBSET Pids
    BY <1>1, <2>1, ReachHolds
  <2>4. ASSUME NEW m \in links, m[1] \in R  PROVE m[2] \in R
    <3>1. CASE m[1] = x
      BY <1>1, <2>1, <2>3, <3>1
    <3>2. CASE m[1] # x
      BY <2>3, <2>4, <3>2 DEF Closed
    <3>. QED  BY <3>1, <3>2
  <2>5. R \in SUBSET Pids /\ x \in R /\ Closed(R, links)
    BY <2>1, <2>3, <2>4 DEF Closed
  <2>6. r \in R
    <3>. HIDE DEF R
    <3>. QED  BY <2>2, <2>5, ReachIn, Zenon
  <2>7. r # x
    BY <2>1
  <2>8. r \in Reach(z, links)
    BY <2>6, <2>7
  <2>. QED  BY <2>2, <2>8 DEF z
<1>5. S \in SUBSET Pids /\ p \in S /\ Closed(S, links)
  BY <1>2, <1>3, <1>4 DEF Closed
<1>6. y \in S
  <2>. HIDE DEF S
  <2>. QED  BY <1>3, <1>5, ReachIn, Zenon
<1>. QED  BY <1>6 DEF links

\* A group loses members when links are lost.
LEMMA GroupShrinks ==
    ASSUME NEW t \in Tables, Families(t), NEW u \in Tables, Families(u), NEW p \in Pids,
           Up(u) \subseteq Up(t), Down(u) \subseteq Down(t)
    PROVE  Group(u, p) \subseteq Group(t, p)
<1>. DEFINE a == Top(t, p)
            b == Top(u, p)
<1>1. a \in Reach(p, Up(t)) /\ ~ t[a].kin /\ b \in Reach(p, Up(u))
  BY TopHolds
<1>2. b \in Reach(p, Up(t))
  BY <1>1, LinksArePairs, ReachMore
<1>3. a \in Pids /\ b \in Pids
  BY <1>1, <1>2, LinksArePairs, ReachHolds
<1>. HIDE DEF a, b
<1>4. a \in Reach(b, Up(t))
  BY <1>1, <1>2, TopIsReached
<1>5. b \in Reach(a, Down(t))
  BY <1>3, <1>4, LinksArePairs, ReachBack
<1>6. Reach(b, Down(t)) \subseteq Reach(a, Down(t))
  BY <1>3, <1>5, LinksArePairs, ReachFurther
<1>7. Reach(b, Down(u)) \subseteq Reach(b, Down(t))
  BY <1>3, LinksArePairs, ReachMore
<1>. QED  BY <1>6, <1>7 DEF Group, a, b

\* A new process is the only one that can join a group.
LEMMA GroupGrows ==
    ASSUME NEW t \in Tables, Families(t), NEW u \in Tables, Families(u),
           NEW q \in Pids, t[q].start = 0, \A x \in Pids \ {q} : u[x] = t[x],
           NEW p \in Pids, t[p].start # 0
    PROVE  Group(u, p) \subseteq Group(t, p) \cup {q}
<1>. DEFINE a == Top(t, p)
            b == Top(u, p)
            S == {x \in Reach(p, Up(t)) : t[x].start # 0}
            R == Reach(b, Down(t)) \cup {q}
<1>0. 0 \notin Pids
  BY SamplingAssumption
<1>1. a \in Reach(p, Up(t)) /\ ~ t[a].kin /\ b \in Reach(p, Up(u))
  BY TopHolds
<1>2. p \in Reach(p, Up(t)) /\ Closed(Reach(p, Up(t)), Up(t)) /\ Reach(p, Up(t)) \in SUBSET Pids
  BY LinksArePairs, ReachHolds
<1>3. ASSUME NEW l \in Up(u), l[1] \in S  PROVE l[2] \in S
  <2>1. l[1] \in Pids /\ l[2] \in Pids /\ u[l[1]].kin /\ u[l[1]].parent = l[2]
    BY DEF Up
  <2>2. l[1] # q /\ l[1] \in Reach(p, Up(t))
    BY <1>3
  <2>3. t[l[1]].kin /\ t[l[1]].parent = l[2]
    BY <2>1, <2>2
  <2>4. l \in Up(t) /\ t[l[2]].start # 0
    BY <1>0, <2>1, <2>3 DEF Up, Families
  <2>. QED  BY <1>2, <2>2, <2>4 DEF Closed
<1>4. S \in SUBSET Pids /\ p \in S /\ Closed(S, Up(u))
  BY <1>2, <1>3 DEF Closed
<1>. HIDE DEF a, b
<1>5. b \in S
  <2>. HIDE DEF S
  <2>. QED  BY <1>1, <1>4, ReachIn, Zenon
<1>6. b \in Reach(p, Up(t)) /\ b \in Pids /\ a \in Pids
  BY <1>1, <1>2, <1>5
<1>7. a \in Reach(b, Up(t))
  BY <1>1, <1>6, TopIsReached
<1>8. b \in Reach(a, Down(t))
  BY <1>6, <1>7, LinksArePairs, ReachBack
<1>9. Reach(b, Down(t)) \subseteq Reach(a, Down(t))
  BY <1>6, <1>8, LinksArePairs, ReachFurther
<1>10. b \in Reach(b, Down(t)) /\ Closed(Reach(b, Down(t)), Down(t)) /\ Reach(b, Down(t)) \in SUBSET Pids
  BY <1>6, LinksArePairs, ReachHolds
<1>11. ASSUME NEW l \in Down(u), l[1] \in R  PROVE l[2] \in R
  <2>1. l[1] \in Pids /\ l[2] \in Pids /\ u[l[2]].parent = l[1] /\ l \in Pids \X Pids
    BY DEF Down
  <2>2. CASE l[2] = q
    BY <2>2
  <2>3. CASE l[2] # q
    <3>1. t[l[2]].parent = l[1]
      BY <2>1, <2>3
    <3>2. t[l[1]].start # 0
      BY <1>0, <2>1, <3>1 DEF Families
    <3>3. l[1] \in Reach(b, Down(t))
      BY <1>11, <3>2
    <3>4. l \in Down(t)
      BY <2>1, <3>1 DEF Down
    <3>. QED  BY <1>10, <3>3, <3>4 DEF Closed
  <2>. QED  BY <2>2, <2>3
<1>12. R \in SUBSET Pids /\ b \in R /\ Closed(R, Down(u))
  BY <1>10, <1>11 DEF Closed
<1>13. Reach(b, Down(u)) \subseteq R
  <2>. HIDE DEF R
  <2>. QED  BY <1>12, ReachIn
<1>. QED  BY <1>9, <1>13 DEF Group, a, b

-----------------------------------------------------------------------------
(* Strangers: who stays in the cached group without belonging to it.        *)

LEMMA DiscoveredGroup ==
    ASSUME NEW p \in Alive  PROVE Discover(p) = Group(table, p)
<1>1. Up(table) = KinParents /\ Down(table) = Children
  BY DEF Up, Down, KinParents, Children
<1>. QED  BY <1>1, Zenon DEF Discover, Group, Top, Root

\* A stranger was seen by the last measure; as long as the process that is shown
\* and the stranger both run, they are of different groups.  It has been one for
\* no longer than the group is old, by a clock that has been set back by `back`,
\* or it is not in the group any more.
Stranger(p) ==
    /\ shown.id \in Ids /\ shown.id.start < nextStart /\ last[p] # 0
    /\ table[shown.id.pid].start = shown.id.start /\ table[p].start = last[p]
          => p \notin Group(table, shown.id.pid)
    /\ step # "grouped" /\ groupKey = shown.id => strange[p] <= age + back + 1
    /\ /\ step = "grouped" /\ asked = shown.id
       /\ table[asked.pid].start = asked.start /\ table[p].start = last[p]
       /\ p \in group
      => strange[p] <= age + back + 1 /\ strange[p] <= Interval + back + 1

StrangersInv ==
    /\ Families(table)
    /\ step # "idle" => asked \in Ids
    /\ step = "grouped" => groupKey = asked
    /\ \A p \in Pids : strange[p] # 0 => Stranger(p)

LEMMA StrangersInit == Init => StrangersInv
<1> SUFFICES ASSUME Init  PROVE StrangersInv
  OBVIOUS
<1>1. Families(table)
  BY DEF Init, Families, Gone
<1>2. step = "idle" /\ \A p \in Pids : strange[p] = 0
  BY DEF Init, NoStranger
<1>. QED  BY <1>1, <1>2 DEF StrangersInv

LEMMA TableTyped ==
    ASSUME NEW t \in [Pids -> [start : 0 .. MaxStart, parent : Pids \cup {0}, kin : BOOLEAN]]
    PROVE  t \in Tables
<1>2. 0 .. MaxStart \subseteq Nat
  BY SamplingAssumption
<1>. QED  BY <1>2 DEF Tables

\* Nobody else changes when a process starts.
LEMMA SpawnFamilies ==
    ASSUME Typed, Typed', StartsOrdered, StrangersInv, Spawn
    PROVE  \E q \in Pids : /\ table[q].start = 0 /\ table'[q].start = nextStart
                           /\ \A x \in Pids \ {q} : table'[x] = table[x]
                           /\ Families(table')
<1>1. PICK q \in Pids \ Alive, parent \in Alive \cup {0}, kin \in BOOLEAN :
          /\ kin => parent # 0
          /\ table' = [table EXCEPT ![q] = [start |-> nextStart, parent |-> parent, kin |-> kin]]
  BY Zenon DEF Spawn
<1>2. table \in Tables /\ table' \in Tables /\ Families(table) /\ nextStart \in Nat /\ nextStart # 0
  <2>1. table \in Tables /\ table' \in Tables
    BY TableTyped DEF Typed, TypeOK
  <2>2. nextStart \in Nat /\ nextStart # 0
    BY SamplingAssumption DEF Typed, TypeOK
  <2>. QED  BY <2>1, <2>2 DEF StrangersInv
<1>3. \A x \in Pids : table[x].start < nextStart
  BY DEF StartsOrdered
<1>4. table[q].start = 0 /\ \A x \in Pids \ {q} : table'[x] = table[x]
  BY <1>1, <1>2 DEF Alive, Tables
<1>5. table'[q] = [start |-> nextStart, parent |-> parent, kin |-> kin]
  BY <1>1, <1>2 DEF Tables
<1>6. table'[q].start = nextStart /\ table'[q].parent = parent /\ (table'[q].kin => parent # 0)
  BY <1>1, <1>5
<1>7. 0 \notin Pids
  BY SamplingAssumption
<1>8. ASSUME NEW x \in Pids
      PROVE  /\ table'[x].start = 0 => table'[x].parent = 0
             /\ table'[x].kin => table'[x].parent # 0
             /\ table'[x].parent # 0 => /\ table'[table'[x].parent].start # 0
                                        /\ table'[table'[x].parent].start < table'[x].start
  <2>1. CASE x = q
    <3>1. parent # 0 => parent \in Pids /\ parent # q /\ table[parent].start # 0
      BY <1>1 DEF Alive
    <3>2. parent # 0 => table'[parent] = table[parent] /\ table[parent].start < nextStart
      BY <1>3, <1>4, <3>1
    <3>. QED  BY <1>2, <1>6, <2>1, <3>1, <3>2
  <2>2. CASE x # q
    <3>1. table'[x] = table[x] /\ table[x].parent \in Pids \cup {0}
      BY <1>2, <1>4, <2>2 DEF Tables
    <3>2. table[x].parent # 0 => table[x].parent # q /\ table[x].parent \in Pids
      BY <1>2, <1>4, <3>1 DEF Families
    <3>3. table[x].parent # 0 => table'[table[x].parent] = table[table[x].parent]
      BY <1>4, <3>2
    <3>. QED  BY <1>2, <3>1, <3>3 DEF Families
  <2>. QED  BY <2>1, <2>2
<1>9. Families(table')
  BY <1>8 DEF Families
<1>. QED  BY <1>4, <1>6, <1>9

\* When one exits, its children have no parent left.
LEMMA ExitFamilies ==
    ASSUME Typed, Typed', StrangersInv, Exit
    PROVE  /\ Families(table') /\ Up(table') \subseteq Up(table) /\ Down(table') \subseteq Down(table)
           /\ \A x \in Pids : table'[x].start \in {0, table[x].start}
<1>1. PICK p \in Alive :
          table' = [q \in Pids |->
                      CASE q = p -> Gone
                        [] q # p /\ table[q].parent = p ->
                              [table[q] EXCEPT !.parent = 0, !.kin = FALSE]
                        [] OTHER -> table[q]]
  BY Zenon DEF Exit
<1>2. table \in Tables /\ table' \in Tables /\ Families(table) /\ 0 \notin Pids /\ p \in Pids
  <2>1. table \in Tables /\ table' \in Tables
    BY TableTyped DEF Typed, TypeOK
  <2>. QED  BY <2>1, SamplingAssumption DEF StrangersInv, Alive
<1>3. table'[p] = Gone
  BY <1>1, <1>2, Zenon
<1>4. \A q \in Pids : q # p /\ table[q].parent = p
                         => table'[q] = [table[q] EXCEPT !.parent = 0, !.kin = FALSE]
  BY <1>1, Zenon
<1>5. \A q \in Pids : q # p /\ table[q].parent # p => table'[q] = table[q]
  BY <1>1, Zenon
<1>6. ASSUME NEW x \in Pids
      PROVE  /\ table'[x].start \in {0, table[x].start}
             /\ x # p => table'[x].start = table[x].start
             /\ table'[x].parent # 0 => /\ x # p /\ table[x].parent # p
                                        /\ table'[x].parent = table[x].parent
             /\ table'[x].kin => /\ x # p /\ table[x].parent # p /\ table[x].kin
                                 /\ table'[x].parent = table[x].parent
             /\ table'[x].start = 0 => table'[x].parent = 0
  <2>0. table[x] \in [start : Nat, parent : Pids \cup {0}, kin : BOOLEAN]
    BY <1>2 DEF Tables
  <2>1. CASE x = p
    BY <1>3, <2>1 DEF Gone
  <2>2. CASE x # p /\ table[x].parent = p
    <3>1. table'[x] = [table[x] EXCEPT !.parent = 0, !.kin = FALSE]
      BY <1>4, <2>2
    <3>2. table'[x].start = table[x].start /\ table'[x].parent = 0 /\ table'[x].kin = FALSE
      BY <2>0, <3>1
    <3>. QED  BY <2>2, <3>2
  <2>3. CASE x # p /\ table[x].parent # p
    <3>1. table'[x] = table[x]
      BY <1>5, <2>3
    <3>. QED  BY <1>2, <2>3, <3>1 DEF Families
  <2>. QED  BY <2>1, <2>2, <2>3
<1>7. ASSUME NEW x \in Pids
      PROVE  /\ table'[x].kin => table'[x].parent # 0
             /\ table'[x].parent # 0 => /\ table'[table'[x].parent].start # 0
                                        /\ table'[table'[x].parent].start < table'[x].start
  <2>1. table'[x].kin => table'[x].parent # 0
    BY <1>2, <1>6 DEF Families
  <2>2. ASSUME table'[x].parent # 0
        PROVE  /\ table'[table'[x].parent].start # 0
               /\ table'[table'[x].parent].start < table'[x].start
    <3>. DEFINE y == table[x].parent
    <3>1. x # p /\ y # p /\ table'[x].parent = y /\ y # 0 /\ y \in Pids
      BY <1>2, <1>6, <2>2 DEF Tables
    <3>2. table[y].start # 0 /\ table[y].start < table[x].start
      BY <1>2, <3>1 DEF Families
    <3>. HIDE DEF y
    <3>. QED  BY <1>6, <3>1, <3>2
  <2>. QED  BY <2>1, <2>2
<1>8. Families(table')
  BY <1>6, <1>7 DEF Families
<1>9. Up(table') \subseteq Up(table) /\ Down(table') \subseteq Down(table)
  BY <1>2, <1>6 DEF Up, Down
<1>. QED  BY <1>6, <1>8, <1>9

\* What a measure leaves of a stranger.
LEMMA MeasuredStranger ==
    ASSUME Typed, StrangersInv, Measure, NEW p \in Pids, strange'[p] # 0
    PROVE  /\ asked \in Ids /\ groupKey = asked /\ ~ standIn
           /\ table[asked.pid].start = asked.start /\ asked.pid \in Alive
           /\ shown'.id = asked /\ step = "grouped" /\ step' = "idle"
           /\ last'[p] = table[p].start /\ table[p].start # 0
           /\ p \notin Discover(asked.pid)
           /\ \/ strange'[p] = 1
              \/ /\ shown.id = asked /\ strange[p] # 0 /\ strange'[p] = strange[p]
                 /\ p \in group /\ table[p].start = last[p]
<1>1. /\ step = "grouped" /\ step' = "idle" /\ last' = Current
      /\ asked \in Ids /\ groupKey = asked
  BY DEF Measure, StrangersInv
<1>2. PICK state, counted, raised :
          Publish(state, counted, raised) /\ counted \in {{}, {Id(x) : x \in Comparable}}
  BY DEF Measure
<1>3. shown'.id = asked
  BY <1>2 DEF Publish, Shown
<1>4. strange'[p] = IF standIn \/ Id(asked.pid) # asked THEN 0
                    ELSE IF p \notin {id.pid : id \in counted} \ Discover(asked.pid) THEN 0
                    ELSE IF shown.id = asked /\ strange[p] # 0 THEN strange[p] ELSE 1
  BY <1>2 DEF Publish
<1>5. /\ ~ standIn /\ Id(asked.pid) = asked
      /\ p \in {id.pid : id \in counted} /\ p \notin Discover(asked.pid)
      /\ \/ strange'[p] = 1
         \/ shown.id = asked /\ strange[p] # 0 /\ strange'[p] = strange[p]
  BY <1>4
<1>6. PICK x \in Comparable : p = Id(x).pid
  BY <1>2, <1>5
<1>7. p \in Comparable
  BY <1>6 DEF Id
<1>8. p \in group /\ table[p].start # 0 /\ last[p] = table[p].start
  BY <1>7 DEF Comparable, Alive
<1>9. last'[p] = table[p].start
  BY <1>1, <1>8 DEF Current
<1>10. table[asked.pid].start = asked.start
  BY <1>5 DEF Id
<1>11. asked.pid \in Alive
  BY <1>1, <1>10, SamplingAssumption DEF Ids, Alive
<1>. QED  BY <1>1, <1>3, <1>5, <1>8, <1>9, <1>10, <1>11

LEMMA StrangersStep ==
    ASSUME Typed, Typed', StartsOrdered, StrangersInv, [Next]_vars  PROVE StrangersInv'
<1>0. /\ table \in Tables /\ table' \in Tables /\ Families(table) /\ TypeOK
      /\ age \in Int /\ back \in Nat /\ nextStart \in Nat /\ Interval \in Nat
      /\ age + back >= 0
      /\ \A p \in Pids : strange[p] \in Nat /\ last[p] \in Nat /\ table[p].start \in Nat
  <2>1. table \in Tables /\ table' \in Tables
    BY TableTyped DEF Typed, TypeOK
  <2>. QED  BY <2>1, SamplingAssumption DEF Typed, TypeOK, StrangersInv, Tables
<1>1. CASE Spawn
  <2>1. PICK q \in Pids : /\ table[q].start = 0 /\ table'[q].start = nextStart
                          /\ \A x \in Pids \ {q} : table'[x] = table[x]
                          /\ Families(table')
    BY <1>1, SpawnFamilies
  <2>2. /\ nextStart' = nextStart + 1
        /\ UNCHANGED <<step, asked, shown, strange, last, group, groupKey, age, back>>
    BY <1>1 DEF Spawn, query, cpu, history, cache
  <2>3. ASSUME NEW p \in Pids, strange[p] # 0  PROVE Stranger(p)'
    <3>. DEFINE id == shown.id
    <3>1. Stranger(p)
      BY <2>3 DEF StrangersInv
    <3>2. id \in Ids /\ id.start < nextStart /\ last[p] # 0 /\ last[p] < nextStart /\ id.pid \in Pids
          /\ id.start # 0 /\ id.start \in Nat
      BY <1>0, <3>1, SamplingAssumption DEF Stranger, Ids, StartsOrdered, Typed, TypeOK
    <3>3. ASSUME NEW x \in Pids, NEW n, n < nextStart, n # 0, table'[x].start = n
          PROVE  x # q /\ table[x].start = n
      BY <1>0, <2>1, <3>3
    <3>4. ASSUME table'[id.pid].start = id.start, table'[p].start = last[p]
          PROVE  p \notin Group(table', id.pid)
      <4>1. p # q /\ table[p].start = last[p] /\ table[id.pid].start = id.start
        BY <3>2, <3>3, <3>4
      <4>2. p \notin Group(table, id.pid)
        BY <3>1, <4>1 DEF Stranger
      <4>3. Group(table', id.pid) \subseteq Group(table, id.pid) \cup {q}
        BY <1>0, <2>1, <3>2, <4>1, GroupGrows
      <4>. QED  BY <4>1, <4>2, <4>3
    <3>5. ASSUME step = "grouped", asked = id, table'[asked.pid].start = asked.start,
                 table'[p].start = last[p], p \in group
          PROVE  strange[p] <= age + back + 1 /\ strange[p] <= Interval + back + 1
      <4>1. table[p].start = last[p] /\ table[asked.pid].start = asked.start
        BY <3>2, <3>3, <3>5
      <4>. QED  BY <3>1, <3>5, <4>1 DEF Stranger
    <3>6. step # "grouped" /\ groupKey = id => strange[p] <= age + back + 1
      BY <3>1 DEF Stranger
    <3>7. /\ shown' = shown /\ strange' = strange /\ last' = last /\ age' = age /\ back' = back /\ step' = step
          /\ asked' = asked /\ group' = group /\ groupKey' = groupKey
      BY <2>2
    <3>8. id.start < nextStart'
      BY <1>0, <2>2, <3>2
    <3>. QED  BY <3>2, <3>4, <3>5, <3>6, <3>7, <3>8, Zenon DEF Stranger
  <2>. QED  BY <2>1, <2>2, <2>3 DEF StrangersInv
<1>2. CASE Exit
  <2>1. /\ Families(table') /\ Up(table') \subseteq Up(table) /\ Down(table') \subseteq Down(table)
        /\ \A x \in Pids : table'[x].start \in {0, table[x].start}
    BY <1>2, ExitFamilies
  <2>2. UNCHANGED <<nextStart, step, asked, shown, strange, last, group, groupKey, age, back>>
    BY <1>2 DEF Exit, query, cpu, history, cache
  <2>3. ASSUME NEW p \in Pids, strange[p] # 0  PROVE Stranger(p)'
    <3>. DEFINE id == shown.id
    <3>1. Stranger(p)
      BY <2>3 DEF StrangersInv
    <3>2. id \in Ids /\ id.pid \in Pids /\ id.start # 0 /\ last[p] # 0 /\ id.start < nextStart
      BY <3>1 DEF Stranger, Ids
    <3>4. ASSUME table'[id.pid].start = id.start, table'[p].start = last[p]
          PROVE  p \notin Group(table', id.pid)
      <4>1. table[p].start = last[p] /\ table[id.pid].start = id.start
        BY <2>1, <3>2, <3>4
      <4>2. Group(table', id.pid) \subseteq Group(table, id.pid)
        BY <1>0, <2>1, <3>2, GroupShrinks
      <4>. QED  BY <3>1, <4>1, <4>2 DEF Stranger
    <3>5. ASSUME step = "grouped", asked = id, table'[asked.pid].start = asked.start,
                 table'[p].start = last[p], p \in group
          PROVE  strange[p] <= age + back + 1 /\ strange[p] <= Interval + back + 1
      <4>1. table[p].start = last[p] /\ table[asked.pid].start = asked.start
        BY <2>1, <3>2, <3>5
      <4>. QED  BY <3>1, <3>5, <4>1 DEF Stranger
    <3>6. step # "grouped" /\ groupKey = id => strange[p] <= age + back + 1
      BY <3>1 DEF Stranger
    <3>7. /\ shown' = shown /\ strange' = strange /\ last' = last /\ age' = age /\ back' = back /\ step' = step
          /\ asked' = asked /\ group' = group /\ groupKey' = groupKey
      BY <2>2
    <3>8. nextStart' = nextStart
      BY <2>2
    <3>. QED  BY <3>2, <3>4, <3>5, <3>6, <3>7, <3>8, Zenon DEF Stranger
  <2>. QED  BY <2>1, <2>2, <2>3 DEF StrangersInv
<1>3. CASE Focus \/ UNCHANGED vars
  <2>1. UNCHANGED <<table, nextStart, step, asked, shown, strange, last, group, groupKey, age, back>>
    BY <1>3, Zenon DEF Focus, vars, proc, query, cpu, history, cache
  <2>. QED  BY <2>1 DEF StrangersInv, Stranger
<1>4. CASE Elapse
  <2>1. /\ step = "idle" /\ step' = "idle" /\ age' = age + 1 /\ back' = back
        /\ UNCHANGED <<table, nextStart, asked, shown, last, groupKey>>
    BY <1>4 DEF Elapse, proc, query, cpu
  <2>2. \A p \in Pids : strange'[p] # 0 => strange[p] # 0 /\ strange'[p] <= strange[p] + 1
    BY <1>0, <1>4 DEF Elapse
  <2>3. ASSUME NEW p \in Pids, strange'[p] # 0  PROVE Stranger(p)'
    <3>1. Stranger(p) /\ strange[p] \in Nat /\ strange'[p] <= strange[p] + 1
      BY <1>0, <2>2, <2>3 DEF StrangersInv
    <3>2. strange'[p] \in Nat
      BY SamplingAssumption DEF Typed, TypeOK
    <3>3. groupKey = shown.id => strange'[p] <= age' + back' + 1
      BY <1>0, <2>1, <3>1, <3>2 DEF Stranger
    <3>. QED  BY <2>1, <3>1, <3>3 DEF Stranger
  <2>. QED  BY <2>1, <2>3 DEF StrangersInv
<1>8. CASE SetClock
  <2>1. UNCHANGED <<table, nextStart, step, asked, shown, strange, last, group, groupKey>>
    BY <1>8 DEF SetClock, proc, query, cpu, history
  <2>2. back' \in Nat /\ age' \in Int /\ back' >= back /\ age' + back' >= age + back
    <3>1. ASSUME NEW by \in 1 .. MaxBack - back, age' = age - by, back' = back + by
          PROVE  back' \in Nat /\ age' \in Int /\ back' >= back /\ age' + back' >= age + back
      BY <1>0, <3>1, SamplingAssumption
    <3>2. CASE age' = age + 1 /\ back' = back
      BY <1>0, <3>2
    <3>. QED  BY <1>8, <3>1, <3>2 DEF SetClock
  <2>3. ASSUME NEW n \in Nat
        PROVE  /\ n <= age + back + 1 => n <= age' + back' + 1
               /\ n <= Interval + back + 1 => n <= Interval + back' + 1
    <3>1. \A a, b, c, d \in Int : n <= a + b + 1 /\ c + d >= a + b => n <= c + d + 1
      OBVIOUS
    <3>2. back \in Int /\ back' \in Int /\ Interval \in Int /\ age \in Int /\ age' \in Int
      BY <1>0, <2>2
    <3>3. \A a, b, d \in Int : n <= a + b + 1 /\ d >= b => n <= a + d + 1
      OBVIOUS
    <3>4. n <= age + back + 1 => n <= age' + back' + 1
      BY <2>2, <3>1, <3>2
    <3>5. n <= Interval + back + 1 => n <= Interval + back' + 1
      BY <2>2, <3>2, <3>3
    <3>. QED  BY <3>4, <3>5
  <2>4. ASSUME NEW p \in Pids, strange[p] # 0  PROVE Stranger(p)'
    <3>1. Stranger(p) /\ strange[p] \in Nat
      BY <1>0, <2>4 DEF StrangersInv
    <3>2. step # "grouped" /\ groupKey = shown.id => strange[p] <= age' + back' + 1
      BY <2>3, <3>1 DEF Stranger
    <3>3. ASSUME step = "grouped", asked = shown.id,
                 table[asked.pid].start = asked.start, table[p].start = last[p], p \in group
          PROVE  strange[p] <= age' + back' + 1 /\ strange[p] <= Interval + back' + 1
      BY <2>3, <3>1, <3>3 DEF Stranger
    <3>. QED  BY <2>1, <3>1, <3>2, <3>3, Zenon DEF Stranger
  <2>. QED  BY <1>0, <2>1, <2>4 DEF StrangersInv
<1>5. CASE SampleFocus
  <2>1. /\ step = "idle"
        /\ UNCHANGED <<table, nextStart, last, group, groupKey, age, back>>
    BY <1>5 DEF SampleFocus, proc, cpu, cache
  <2>2. CASE BeginNothing
    <3>1. step' = "idle" /\ \A p \in Pids : strange'[p] = 0
      BY <2>2 DEF BeginNothing, NoStranger
    <3>. QED  BY <1>0, <2>1, <3>1 DEF StrangersInv
  <2>3. CASE \E id \in Ids : Begin(id)
    <3>1. step' = "focused" /\ asked' \in Ids /\ UNCHANGED <<shown, strange>>
      BY <2>3 DEF Begin
    <3>. QED  BY <1>0, <2>1, <3>1 DEF StrangersInv, Stranger
  <2>4. BeginNothing \/ \E id \in Ids : Begin(id)
    <3>1. lastId # NoId => lastId \in Ids
      BY <1>0 DEF TypeOK
    <3>2. focus \in Alive => Id(focus) \in Ids
      BY <1>0, IdType
    <3>. QED  BY <1>5, <3>1, <3>2 DEF SampleFocus
  <2>. QED  BY <2>2, <2>3, <2>4
<1>6. CASE PidsFor
  <2>1. /\ step = "focused" /\ step' = "grouped" /\ asked \in Ids
        /\ UNCHANGED <<table, nextStart, asked, shown, strange, last>>
    BY <1>6 DEF PidsFor, StrangersInv, proc, cpu, history
  <2>2. \/ group' = Discover(asked.pid) /\ groupKey' = asked
        \/ /\ groupKey = asked /\ ~ (age > Interval)
           /\ UNCHANGED <<group, groupKey, age, back>>
    BY <1>6 DEF PidsFor, cache
  <2>3. ASSUME NEW p \in Pids, strange[p] # 0  PROVE Stranger(p)'
    <3>1. Stranger(p)
      BY <2>3 DEF StrangersInv
    <3>2. ASSUME asked = shown.id, table[asked.pid].start = asked.start,
                 table[p].start = last[p], p \in group'
          PROVE  strange[p] <= age' + back' + 1 /\ strange[p] <= Interval + back' + 1
      <4>1. asked.pid \in Alive
        BY <2>1, <3>2 DEF Ids, Alive
      <4>2. p \notin Discover(asked.pid)
        BY <3>1, <3>2, <4>1, DiscoveredGroup DEF Stranger
      <4>3. groupKey = asked /\ ~ (age > Interval) /\ age' = age /\ back' = back
        BY <2>2, <3>2, <4>2
      <4>4. strange[p] <= age + back + 1
        BY <2>1, <3>1, <3>2, <4>3 DEF Stranger
      <4>. QED  BY <1>0, <4>3, <4>4
    <3>. QED  BY <2>1, <3>1, <3>2 DEF Stranger
  <2>4. groupKey' = asked'
    BY <2>1, <2>2
  <2>. QED  BY <1>0, <2>1, <2>3, <2>4 DEF StrangersInv
<1>7. CASE Measure
  <2>1. step' = "idle" /\ UNCHANGED <<table, nextStart, asked, groupKey, age, back>>
    BY <1>7 DEF Measure, proc, cache
  <2>2. ASSUME NEW p \in Pids, strange'[p] # 0  PROVE Stranger(p)'
    <3>1. /\ asked \in Ids /\ groupKey = asked
          /\ table[asked.pid].start = asked.start /\ asked.pid \in Alive
          /\ shown'.id = asked /\ step = "grouped"
          /\ last'[p] = table[p].start /\ table[p].start # 0
          /\ p \notin Discover(asked.pid)
          /\ \/ strange'[p] = 1
             \/ /\ shown.id = asked /\ strange[p] # 0 /\ strange'[p] = strange[p]
                /\ p \in group /\ table[p].start = last[p]
      BY <1>7, <2>2, MeasuredStranger
    <3>2. strange'[p] <= age + back + 1
      <4>1. CASE strange'[p] = 1
        BY <1>0, <4>1
      <4>2. CASE shown.id = asked /\ strange[p] # 0 /\ strange'[p] = strange[p]
                 /\ p \in group /\ table[p].start = last[p]
        <5>1. Stranger(p)
          BY <4>2 DEF StrangersInv
        <5>. QED  BY <3>1, <4>2, <5>1 DEF Stranger
      <4>. QED  BY <3>1, <4>1, <4>2
    <3>3. p \notin Group(table, asked.pid)
      BY <3>1, DiscoveredGroup
    <3>4. asked.start < nextStart
      BY <3>1 DEF StartsOrdered, Alive
    <3>5. /\ table' = table /\ nextStart' = nextStart /\ groupKey' = groupKey /\ age' = age /\ back' = back
          /\ step' # "grouped"
      BY <2>1
    <3>. QED  BY <3>1, <3>2, <3>3, <3>4, <3>5, Zenon DEF Stranger
  <2>. QED  BY <1>0, <2>1, <2>2 DEF StrangersInv
<1>. QED  BY <1>1, <1>2, <1>3, <1>4, <1>5, <1>6, <1>7, <1>8 DEF Next

(***************************************************************************)
(* For any processes, pids and lifetime of the cached group: as long as the *)
(* focused process lives, a process that does not belong to its program is  *)
(* counted for no longer than the group may be old (GroupCache::pidsFor)     *)
(* and the wall clock was set back since the group was read.                *)
(***************************************************************************)
THEOREM StrangersAlwaysBrief == Spec => StrangersAreBrief
<1>1. Init => Typed /\ StartsOrdered /\ StrangersInv
  BY TypeInit, OrderedInit, StrangersInit
<1>2. Typed /\ StartsOrdered /\ StrangersInv /\ [Next]_vars
          => (Typed /\ StartsOrdered /\ StrangersInv)'
  BY TypeStep, OrderedStep, StrangersStep
<1>3. ASSUME Typed, StrangersInv, [Next]_vars
      PROVE  [Measured => \A p \in Pids : strange'[p] <= Interval + 1 + back]_vars
  <2> SUFFICES ASSUME Measured, NEW p \in Pids  PROVE strange'[p] <= Interval + 1 + back
    OBVIOUS
  <2>1. Measure
    BY <1>3 DEF Next, Measured, Spawn, Exit, Focus, Elapse, SetClock, SampleFocus, PidsFor, vars, query
  <2>2. age \in Int /\ back \in Nat /\ Interval \in Nat /\ strange[p] \in Nat
    BY <1>3, SamplingAssumption DEF Typed, TypeOK
  <2>3. CASE strange'[p] = 0
    BY <2>2, <2>3
  <2>4. CASE strange'[p] = 1
    BY <2>2, <2>4
  <2>5. CASE strange'[p] # 0 /\ strange'[p] # 1
    <3>1. /\ step = "grouped" /\ table[asked.pid].start = asked.start
          /\ shown.id = asked /\ strange[p] # 0 /\ strange'[p] = strange[p]
          /\ p \in group /\ table[p].start = last[p]
      BY <1>3, <2>1, <2>5, MeasuredStranger
    <3>2. Stranger(p)
      BY <1>3, <3>1 DEF StrangersInv
    <3>. QED  BY <2>2, <3>1, <3>2 DEF Stranger
  <2>. QED  BY <2>3, <2>4, <2>5
<1>. QED  BY <1>1, <1>2, <1>3, PTL DEF Spec, StrangersAreBrief
=============================================================================
