--------------------------- MODULE FocusSampling ---------------------------
(***************************************************************************)
(* cpp/src/SamplerWorker.cpp, sampleNow, with FocusSampler, GroupCache,    *)
(* ProcessGrouper, CpuSampler and HealthEvaluator: one sample reads the    *)
(* focused process, then the group of processes around it, then their CPU  *)
(* time, in three reads of /proc that processes can start and exit         *)
(* between.  A pid is free for reuse as soon as its process has exited.    *)
(*                                                                         *)
(* CPU time itself is left out: a snapshot records whose time was counted. *)
(***************************************************************************)
EXTENDS Integers, FiniteSets

CONSTANTS
    Pids,           \* the pids the system hands out to others, positive
    Self,           \* the pid of the overlay's own process
    MaxStart,       \* bound: processes ever started
    Interval,       \* GroupCache::m_intervalMs, in units of Elapse
    MaxBack,        \* bound: how far the clock is set back while a group is cached
    Sustained       \* HealthConfig::sustainedSamples

ASSUME SamplingAssumption ==
    /\ Pids \subseteq Nat \ {0} /\ Self \in Nat \ ({0} \cup Pids)
    /\ MaxStart \in Nat
    /\ Interval \in Nat /\ MaxBack \in Nat
    /\ Sustained \in Nat \ {0}

VARIABLES
    table,       \* external: /proc, the process of each pid
    nextStart,   \* external: the start time of the next process
    focus,       \* external: what the provider answers
    step,        \* where sampleNow has got to
    asked,       \* the identity being sampled
    standIn,     \* history: it stands in for the overlay, which has the focus
    lastId,      \* FocusSampler::m_lastIdentity
    group,       \* GroupCache::m_group.pids
    groupKey,    \* GroupCache::m_key
    age,         \* now - GroupCache::m_stampMs, both of the wall clock
    back,        \* history: how far that clock was set back since the stamp
    cpuKey,      \* CpuSampler::m_key, and m_hasBaseline: it is not NoId
    last,        \* CpuSampler::m_lastByPid: the start time of each pid, or 0
    healthId,    \* SamplerWorker::m_healthIdentity
    streak,      \* the three streaks of HealthEvaluator
    shown,       \* the last snapshot emitted
    baseline,    \* history: the first start time the last measure could not see
    run,         \* history: snapshots in a row of one process that raised an alarm
    strange      \* history: 0, or 1 + the real time since a pid is counted as a stranger

proc   == <<table, nextStart, focus>>
cache  == <<group, groupKey, age, back>>
cpu    == <<cpuKey, last>>
health == <<healthId, streak>>
history == <<baseline, run, strange>>
query  == <<step, asked, standIn>>
vars   == <<proc, query, lastId, cache, cpu, health, shown, history>>

None == 0
Gone == [start |-> 0, parent |-> 0, kin |-> FALSE]

Alive == {p \in Pids : table[p].start # 0}

\* An identity is a pid and a start time (ProcessIdentity.h).
Ids == [pid : Pids, start : 1 .. MaxStart]
NoId == [pid |-> 0, start |-> 0]
Id(p) == [pid |-> p, start |-> table[p].start]

Alarms == {"cpuHigh", "cpuWarn", "rssWarn"}

-----------------------------------------------------------------------------
(* External: processes and focus.                                          *)

\* A process starts on a free pid, as a child of a running one or of init; kin
\* says that it runs the program of its parent (its executable or its name).
Spawn ==
    /\ nextStart <= MaxStart
    /\ \E p \in Pids \ Alive, parent \in Alive \cup {0}, kin \in BOOLEAN :
          /\ kin => parent # 0
          /\ table' = [table EXCEPT ![p] =
                          [start |-> nextStart, parent |-> parent, kin |-> kin]]
    /\ nextStart' = nextStart + 1
    /\ UNCHANGED <<focus, query, lastId, cache, cpu, health, shown, history>>

\* A process exits; init adopts its children.
Exit ==
    /\ \E p \in Alive :
          table' = [q \in Pids |->
                      CASE q = p -> Gone
                        [] q # p /\ table[q].parent = p ->
                              [table[q] EXCEPT !.parent = 0, !.kin = FALSE]
                        [] OTHER -> table[q]]
    /\ UNCHANGED <<nextStart, focus, query, lastId, cache, cpu, health, shown, history>>

\* The provider's answer changes; it may name a process that has exited.
Focus ==
    /\ focus' \in Pids \cup {None, Self}
    /\ focus' # focus
    /\ UNCHANGED <<table, nextStart, query, lastId, cache, cpu, health, shown, history>>

\* From here on a pid counts as a stranger for too long.
TooLong == Interval + MaxBack + 2

\* Time passes between two samples; what matters of it is the group's age.
Elapse ==
    /\ step = "idle"
    /\ age <= Interval
    /\ age' = age + 1
    /\ strange' = [p \in Pids |->
                     IF strange[p] \in 1 .. TooLong - 1 THEN strange[p] + 1 ELSE strange[p]]
    /\ UNCHANGED <<proc, query, lastId, group, groupKey, back, cpu, health, shown,
                   baseline, run>>

\* External: the wall clock is set, at any moment, back or on.
SetClock ==
    /\ \/ \E by \in 1 .. MaxBack - back : age' = age - by /\ back' = back + by
       \/ age <= Interval /\ age' = age + 1 /\ UNCHANGED back
    /\ UNCHANGED <<proc, query, lastId, group, groupKey, cpu, health, shown, history>>

-----------------------------------------------------------------------------
(* ProcessGrouper.                                                         *)

\* The pids that a chain of links leads to from p.
Reach(p, links) ==
    {q \in Pids : \A S \in SUBSET Pids :
        p \in S /\ (\A l \in links : l[1] \in S => l[2] \in S) => q \in S}

Children == {l \in Pids \X Pids : table[l[2]].parent = l[1]}
KinParents == {l \in Pids \X Pids : table[l[1]].kin /\ table[l[1]].parent = l[2]}

\* The climb from the focused process while the parent is of the same program.
Root(p) == CHOOSE r \in Reach(p, KinParents) : ~ table[r].kin

\* Mutant: the process above the root of the program is taken into its group.
DiscoverFromAbove(p) ==
    IF p \in Alive THEN Reach(Root(p), Children) \cup {table[Root(p)].parent} ELSE {}

\* ProcessGrouper::discover: nothing if no process has the pid.
Discover(p) == IF p \in Alive THEN Reach(Root(p), Children) ELSE {}

-----------------------------------------------------------------------------
(* sampleNow.                                                              *)

NoStreak == [a \in Alarms |-> 0]
NoStranger == [p \in Pids |-> 0]

Shown(id, state, counted, level) ==
    [id |-> id, state |-> state, counted |-> counted, level |-> level]

NoFocus == Shown(NoId, "no-focus", {}, "OK")

\* Mutant: the streaks go on when the focus moves to another process.
BeginKeepingStreaks(id) ==
    /\ step' = "focused"
    /\ asked' = id
    /\ healthId' = id
    /\ UNCHANGED <<streak, shown, run, strange>>

\* buildSnapshot for a focused process, up to the evaluator's reset.
Begin(id) ==
    /\ step' = "focused"
    /\ asked' = id
    /\ healthId' = id
    /\ streak' = IF id # healthId THEN NoStreak ELSE streak
    /\ UNCHANGED <<shown, run, strange>>

\* buildSnapshot without one: it returns at once, and keeps the CPU baseline.
BeginNothing ==
    /\ step' = "idle"
    /\ healthId' = NoId
    /\ streak' = NoStreak
    /\ shown' = NoFocus
    /\ run' = NoStreak
    /\ strange' = NoStranger
    /\ UNCHANGED asked

\* FocusSampler::sample: the overlay stands for the last process that was not.
SampleFocus ==
    /\ step = "idle"
    /\ standIn' = (focus = Self)
    /\ UNCHANGED <<proc, cache, cpu, baseline>>
    /\ \/ /\ focus = Self
          /\ IF lastId # NoId THEN Begin(lastId) ELSE BeginNothing
          /\ UNCHANGED lastId
       \/ /\ focus = None \/ focus \in Pids \ Alive
          /\ BeginNothing
          /\ UNCHANGED lastId
       \/ /\ focus \in Alive
          /\ Begin(Id(focus))
          /\ lastId' = Id(focus)

\* Mutant: only another focus makes the cached group stale.
PidsForForever ==
    /\ step = "focused"
    /\ step' = "grouped"
    /\ IF asked # groupKey
       THEN group' = Discover(asked.pid) /\ groupKey' = asked /\ age' = 0 /\ back' = 0
       ELSE UNCHANGED cache
    /\ UNCHANGED <<proc, asked, standIn, lastId, cpu, health, shown, history>>

\* GroupCache::pidsFor.
PidsFor ==
    /\ step = "focused"
    /\ step' = "grouped"
    /\ IF asked # groupKey \/ age > Interval
       THEN group' = Discover(asked.pid) /\ groupKey' = asked /\ age' = 0 /\ back' = 0
       ELSE UNCHANGED cache
    /\ UNCHANGED <<proc, asked, standIn, lastId, cpu, health, shown, history>>

\* The pids that can be read now, with their start times.
Current == [p \in Pids |-> IF p \in group THEN table[p].start ELSE 0]

\* Mutant: a pid is compared with whatever process had it before.
ComparableByPid == {p \in group \cap Alive : last[p] # 0}

\* The pids whose time since the last sample is counted.
Comparable == {p \in group \cap Alive : last[p] = table[p].start}

\* HealthEvaluator::update and text, for the alarms raised by this sample.
Level(s) ==
    CASE s["cpuHigh"] >= Sustained -> "HIGH CPU"
      [] s["cpuWarn"] >= Sustained \/ s["rssWarn"] >= Sustained -> "WARN"
      [] OTHER -> "OK"

Longer(s, raised) ==
    [a \in Alarms |-> IF a \notin raised THEN 0
                      ELSE IF s[a] < Sustained THEN s[a] + 1 ELSE Sustained]

Publish(state, counted, raised) ==
    /\ streak' = Longer(streak, raised)
    /\ shown' = Shown(asked, state, counted, Level(streak'))
    /\ run' = Longer(IF shown.id = asked THEN run ELSE NoStreak, raised)
    /\ strange' = [p \in Pids |->
                     IF standIn \/ Id(asked.pid) # asked THEN 0
                     ELSE IF p \notin {id.pid : id \in counted} \ Discover(asked.pid) THEN 0
                     ELSE IF shown.id = asked /\ strange[p] # 0 THEN strange[p] ELSE 1]

\* What the memory of the group may raise; it needs no baseline.
RssAlarms == SUBSET {"rssWarn"}

\* CpuSampler::sample and the rest of buildSnapshot.
Measure ==
    /\ step = "grouped"
    /\ step' = "idle"
    /\ UNCHANGED <<proc, asked, standIn, lastId, cache, healthId>>
    /\ baseline' = nextStart
    /\ last' = Current
    /\ \/ /\ group \cap Alive = {}
          /\ cpuKey' = NoId
          /\ Publish("unavailable", {}, {})
       \/ /\ group \cap Alive # {}
          /\ cpuKey' = asked
          /\ \/ \E raised \in RssAlarms : Publish("warming", {}, raised)
             \/ /\ cpuKey = asked /\ Comparable # {}
                /\ \E raised \in SUBSET Alarms :
                      /\ "cpuHigh" \in raised => "cpuWarn" \in raised
                      /\ Publish("valid", {Id(p) : p \in Comparable}, raised)

Init ==
    /\ table = [p \in Pids |-> Gone]
    /\ nextStart = 1
    /\ focus = None
    /\ step = "idle"
    /\ standIn = FALSE
    /\ asked = NoId /\ lastId = NoId /\ groupKey = NoId /\ cpuKey = NoId /\ healthId = NoId
    /\ group = {}
    /\ age = 0 /\ back = 0
    /\ last = [p \in Pids |-> 0]
    /\ streak = NoStreak /\ run = NoStreak
    /\ shown = NoFocus
    /\ baseline = 1
    /\ strange = NoStranger

Next ==
    \/ Spawn \/ Exit \/ Focus \/ Elapse \/ SetClock
    \/ SampleFocus \/ PidsFor \/ Measure

Spec == Init /\ [][Next]_vars

-----------------------------------------------------------------------------
(* Correctness.                                                            *)

\* Every variable keeps its type.
TypeOK ==
    /\ table \in [Pids -> [start : 0 .. MaxStart, parent : Pids \cup {0}, kin : BOOLEAN]]
    /\ nextStart \in 1 .. MaxStart + 1
    /\ focus \in Pids \cup {None, Self}
    /\ step \in {"idle", "focused", "grouped"}
    /\ standIn \in BOOLEAN
    /\ {asked, lastId, groupKey, cpuKey, healthId} \subseteq Ids \cup {NoId}
    /\ group \subseteq Pids
    /\ back \in 0 .. MaxBack /\ age \in -back .. Interval + 1
    /\ last \in [Pids -> 0 .. MaxStart]
    /\ streak \in [Alarms -> 0 .. Sustained] /\ run \in [Alarms -> 0 .. Sustained]
    /\ shown.state \in {"no-focus", "unavailable", "warming", "valid"}
    /\ baseline \in 1 .. MaxStart + 1
    /\ strange \in [Pids -> 0 .. TooLong]

Measured == step = "grouped" /\ step' = "idle"

\* No process contributes time it spent before the last sample: whoever reuses a
\* pid is "re-seeded rather than producing a bogus delta" (CpuSampler.cpp:67).
YoungNeverCounted ==
    [][Measured => \A id \in shown'.counted : id.start < baseline]_vars

NamesWhatItMeasures(s) == \A id \in s.counted : id.pid = s.id.pid => id = s.id

\* A percentage is only shown under the process it was measured for: the one
\* that has the focused pid now is the one the snapshot names.
NamedIsMeasured == [][Measured /\ ~ standIn => NamesWhatItMeasures(shown')]_vars

\* The same while the overlay has the focus: "overlay focus keeps the last real
\* app" (test_focus.cpp:109), not whoever has its pid now.
OverlayKeepsLastApp == NamesWhatItMeasures(shown)

\* HIGH CPU and WARN mean `sustainedSamples` snapshots in a row of one process,
\* whatever other focus or missing focus came before.
AlarmIsSustained ==
    /\ shown.level = "HIGH CPU" => run["cpuHigh"] >= Sustained
    /\ shown.level = "WARN" => run["cpuWarn"] >= Sustained \/ run["rssWarn"] >= Sustained

\* A pid that is counted without belonging to the focused program, because it
\* was reused or its process was adopted by init, is not counted any more once
\* Interval has passed since it was first counted so, and as much again as the
\* wall clock was set back since the group was read: the group's age is measured
\* by that clock (GroupCache.cpp:10-13).  All this as long as the focused process
\* lives.  (While the overlay has the focus it may stand for a process that has
\* exited, and whoever has its pid is regrouped for ever; a process that takes
\* the pid over within a sample may be grouped with a former stranger.)
StrangersAreBrief ==
    [][Measured => \A p \in Pids : strange'[p] <= Interval + 1 + back]_vars
=============================================================================
