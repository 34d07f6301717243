---------------------------- MODULE RateTrackers ----------------------------
(***************************************************************************)
(* The rates of a sample.  Each divides what a counter gained by the time   *)
(* since the reading before; counters of the kernel start again at zero     *)
(* when a pid, an interface or a disk comes back.  There are four ways:     *)
(*   "entries"  IoRateTracker by pid, NetRateTracker by interface: every    *)
(*              entry has its own time and is never removed                 *)
(*   "listing"  DiskSampler, TcpSampler: a listing against the one before,  *)
(*              one timer                                                   *)
(*   "threads"  ProfileSampler by tid: the threads of the focused process   *)
(*              against those of the process focused before, one timer      *)
(*   "total"    HostSampler's traffic: one total over the interfaces, one   *)
(*              timer, restarted also when the total could not be read      *)
(* A behaviour follows one of them.                                         *)
(***************************************************************************)
EXTENDS Integers, FiniteSets

CONSTANTS
    Keys,        \* pids, interfaces, disks or tids
    MaxNow,      \* bound on the clock
    MaxMoved     \* bound on what a key moves

VARIABLES
    tracker,     \* which of the four
    now,         \* what the QElapsedTimers read
    counter,     \* the kernel's counters of what exists now: key -> count
    moved,       \* what each key really moved, ever
    last,        \* m_last: key -> [count, at, moved, gap], the key of the total is "all"
    timer,       \* m_timer of a sampler
    shown        \* the rates of the last sample

vars == <<tracker, now, counter, moved, last, timer, shown>>

\* The sum of a table, as the number of the single units it counts.
Units(table) == UNION {{k} \X (1..table[k]) : k \in DOMAIN table}
SumOver(table) == Cardinality(Units(table))

\* netRatePerSec and its like: a counter that went back or a clock that stands
\* still gives no rate.
Gain(from, to, time) == IF time <= 0 \/ to < from THEN 0 ELSE to - from

\* A reading; moved, at and gap also tell what it is worth.
Reading(count, real, gap) == [count |-> count, at |-> now, moved |-> real, gap |-> gap]
ReadingOf(k) == Reading(counter[k], moved[k], FALSE)

\* The rate of a key over `time`, next to what it moved since its reading.
Rate(old, new, time) ==
    [amount |-> Gain(old.count, new.count, time), time |-> time,
     real |-> new.moved - old.moved, took |-> now - old.at, gap |-> old.gap]

\* m_last with new readings of some keys.
Updated(keys) ==
    [k \in keys \cup DOMAIN last |-> IF k \in keys THEN ReadingOf(k) ELSE last[k]]

Init ==
    /\ tracker \in {"entries", "listing", "threads", "total"}
    /\ now = 0 /\ counter = <<>> /\ moved = [k \in Keys |-> 0]
    /\ last = <<>> /\ timer = 0 /\ shown = {}

\* update() for the interfaces that exist, or for the root of the focus.
SampleEntries ==
    /\ tracker = "entries"
    /\ \E keys \in {DOMAIN counter} \cup {{k} : k \in DOMAIN counter} :
        /\ last' = Updated(keys)
        /\ shown' = {Rate(last[k], ReadingOf(k), now - last[k].at) : k \in keys \cap DOMAIN last}
    /\ UNCHANGED <<tracker, now, counter, moved, timer>>

\* A mutant: disks that are gone for a listing keep their reading.
SampleListingKeeping ==
    /\ tracker = "listing"
    /\ last' = Updated(DOMAIN counter)
    /\ timer' = now
    /\ shown' = {Rate(last[k], ReadingOf(k), now - timer) : k \in DOMAIN counter \cap DOMAIN last}
    /\ UNCHANGED <<tracker, now, counter, moved>>

\* sample(): the keys of both listings; an unreadable file changes nothing.
SampleListing ==
    /\ tracker = "listing"
    /\ last' = [k \in DOMAIN counter |-> ReadingOf(k)]
    /\ timer' = now
    /\ shown' = {Rate(last[k], ReadingOf(k), now - timer) : k \in DOMAIN counter \cap DOMAIN last}
    /\ UNCHANGED <<tracker, now, counter, moved>>

\* ProfileSampler::sample of one process, whose threads are some of all; of a
\* process that is gone nothing is read, and the last reading stays.
SampleThreads ==
    /\ tracker = "threads"
    /\ \E keys \in SUBSET DOMAIN counter :
        /\ last' = [k \in keys |-> ReadingOf(k)]
        /\ shown' = {Rate(last[k], ReadingOf(k), now - timer) : k \in keys \cap DOMAIN last}
    /\ timer' = now
    /\ UNCHANGED <<tracker, now, counter, moved>>

\* HostSampler::sample: the baseline without a network is zero, and a later
\* sample without one keeps the older total.
SampleTotal ==
    /\ tracker = "total"
    /\ timer' = now
    /\ LET total == Reading(SumOver(counter), SumOver(moved), FALSE)
       IN  \/ /\ last' = [all |-> total]
              /\ shown' = {Rate(last[k], total, now - timer) : k \in DOMAIN last}
           \/ /\ last' = [all |-> IF last = <<>> THEN Reading(0, 0, TRUE)
                                  ELSE [last.all EXCEPT !.gap = TRUE]]
              /\ shown' = {}
    /\ UNCHANGED <<tracker, now, counter, moved>>

\* HostSampler::reset, when /proc/stat cannot be read.
ResetTotal ==
    /\ tracker = "total"
    /\ last' = <<>> /\ shown' = {}
    /\ UNCHANGED <<tracker, now, counter, moved, timer>>

\* The kernel: a key moves something, comes or goes, and time passes.
Move ==
    /\ \E k \in {j \in DOMAIN counter : moved[j] < MaxMoved} :
        /\ counter' = [counter EXCEPT ![k] = @ + 1]
        /\ moved' = [moved EXCEPT ![k] = @ + 1]
    /\ UNCHANGED <<tracker, now, last, timer, shown>>

Appear ==
    /\ \E k \in Keys \ DOMAIN counter :
           counter' = [j \in DOMAIN counter \cup {k} |-> IF j = k THEN 0 ELSE counter[j]]
    /\ UNCHANGED <<tracker, now, moved, last, timer, shown>>

Vanish ==
    /\ \E k \in DOMAIN counter : counter' = [j \in DOMAIN counter \ {k} |-> counter[j]]
    /\ UNCHANGED <<tracker, now, moved, last, timer, shown>>

Elapse ==
    /\ now < MaxNow
    /\ now' = now + 1
    /\ UNCHANGED <<tracker, counter, moved, last, timer, shown>>

Next ==
    \/ SampleEntries \/ SampleListing \/ SampleThreads \/ SampleTotal \/ ResetTotal
    \/ Move \/ Appear \/ Vanish \/ Elapse

(***************************************************************************)
(* A rate never counts more than its object moved since the reading it is   *)
(* compared with, also when a pid or a name was given to another object in  *)
(* between, and is divided by exactly the time since that reading.  (Only   *)
(* the host's traffic after a reading that failed breaks both: the total is *)
(* then compared with an older one, or with zero, over a shorter time.)     *)
(***************************************************************************)
RatesCoverTheirTime ==
    \A r \in shown : ~r.gap => r.amount <= r.real /\ r.time = r.took

Spec == Init /\ [][Next]_vars
=============================================================================
