------------------------------- MODULE Tables -------------------------------
(***************************************************************************)
(* The parts of Collectors that keep tables, sums and windows of what they  *)
(* are given as a whole.                                                    *)
(***************************************************************************)
EXTENDS Integers, SequencesExt, FiniteSetsExt, Shared

CONSTANTS
    ServiceUnits, UnitStates, FailedStates, MaxLog,           \* ServicesSource
    JournalEntries, Masked, MaxEntries,                       \* JournalSource
    Lines, MaxLines, MaxDatagrams,                            \* StatsdSource
    LoadedLists, PackageOf, Chunk, MaxResolves,               \* SbomSource
    Times, Keep, Burn, AllowedBad, MaxSamples, MaxHistory,    \* SloTracker
    CounterKeys, MaxNow, MaxMoved,                            \* RateTrackers
    Values, Capacity, Lookback, Horizon, Limit, MaxPushes,        \* Watchdog
    Raw, MaxKeys,                                             \* Configuration
    Messages, Lower, StampTimes, BucketCapacity, LeakSeconds, ThreatLimit   \* JournalAnalysis

\* A host has finitely many units, and its log keeps a count of entries.
ASSUME ServicesAssumption == IsFiniteSet(ServiceUnits) /\ MaxLog \in Nat

\* Mapped files have a package or none, and toInt() makes numbers.
ASSUME TablesAssumption ==
    /\ \A paths \in LoadedLists : paths \in Seq([file : DOMAIN PackageOf, deleted : BOOLEAN])
    /\ Raw \subseteq Int

\* journalctl -n asks for a number of entries.
ASSUME JournalAssumption == MaxEntries \in Nat

\* parseStatsdMetric refuses a metric without values.
ASSUME StatsdAssumption ==
    /\ MaxLines \in Nat
    /\ \A line \in Lines : /\ line.values \in Seq(Int) /\ line.scale \in Int
                           /\ line.values = <<>> => line.kind \in {"event", "check", "bad"}

\* window_hours is at least one hour (Config.cpp:93), and so is every burn window.
ASSUME SloAssumption ==
    Times \subseteq Int /\ Keep \in Nat /\ MaxSamples \in Nat /\ Burn \in Seq(Nat)

\* MetricStore keeps at least one value; forecastCrossing looks back over 60.
ASSUME WatchdogAssumption ==
    /\ Values \subseteq Int /\ Capacity \in Nat \ {0} /\ Lookback \in Nat \ {0}
    /\ Horizon \in Nat /\ Limit \in Int

VARIABLES
    prev, log,                                            \* ServicesSource
    series, sets, counts, history,                        \* StatsdSource
    installed, loaded, packages, owner, resolves,         \* SbomSource
    samples,                                              \* SloTracker, with history
    tracker, now, counter, moved, last, since,            \* RateTrackers
    store, pushes,                                        \* Watchdog
    file, config,                                         \* Configuration
    entries, facets, secrets, threats                     \* JournalAnalysis

Services == INSTANCE ServicesSource WITH Units <- ServiceUnits

Journal == INSTANCE JournalSource WITH Entries <- JournalEntries

Statsd == INSTANCE StatsdSource

Sbom == INSTANCE SbomSource WITH Loaded <- LoadedLists

Slo == INSTANCE SloTracker

Rates == INSTANCE RateTrackers WITH Keys <- CounterKeys, timer <- since

Watch == INSTANCE Watchdog

Config == INSTANCE Configuration

Analysis == INSTANCE JournalAnalysis WITH
    Times <- StampTimes, Capacity <- BucketCapacity, Limit <- ThreatLimit

\* What the patterns find in a message; a bucket holds and leaks something.
ASSUME AnalysisAssumption ==
    /\ StampTimes \subseteq Int /\ ThreatLimit \in Nat
    /\ BucketCapacity \in Nat \ {0} /\ LeakSeconds \in Nat \ {0}
    /\ \A m \in Messages :
           /\ m.secrets \in Seq(Analysis!SensitiveRules \X STRING)
           /\ m.cards \in Seq([sample : STRING, digits : Seq(0..9)])
=============================================================================
