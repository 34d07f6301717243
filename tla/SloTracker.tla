----------------------------- MODULE SloTracker -----------------------------
(***************************************************************************)
(* The availability of the focused application: one sample per snapshot     *)
(* (good when its status is OK, bad also without a focus), pruned by the    *)
(* time of the newest call, and a report over what is left.  The times are  *)
(* wall clock times and may go back.                                        *)
(***************************************************************************)
EXTENDS Integers, Sequences, FiniteSetsExt

CONSTANTS
    Times,          \* what the clock can read
    Keep,           \* keepHours, which SamplerWorker makes the report's window too
    Burn,           \* the lengths of the burn windows, 1 h, 6 h and 3 d
    AllowedBad,     \* 1 - objective, per mille
    MaxSamples,     \* SloStatus.cpp:95 says 200000
    MaxHistory      \* bound on the samples of a behaviour

VARIABLES
    samples,        \* m_samples
    history,        \* all samples ever recorded
    shown

vars == <<samples, history, shown>>

\* A burn window counts back from the newest time among the samples.
Window(list, latest, length) ==
    LET recent == {i \in DOMAIN list : list[i].at >= latest - length}
    IN  [total |-> Cardinality(recent), bad |-> Cardinality({i \in recent : ~list[i].good})]

\* evaluateSlo; its fractions stay pairs of counts.
EvaluateSlo(list) ==
    IF list = <<>> THEN [total |-> 0, bad |-> 0, breached |-> FALSE, burn |-> <<>>]
    ELSE LET latest == Max({0} \cup {list[i].at : i \in DOMAIN list})
             all == Window(list, latest, Keep)
         IN  [total |-> all.total, bad |-> all.bad,
              breached |-> 1000 * all.bad > AllowedBad * all.total,
              burn |-> [i \in DOMAIN Burn |-> Window(list, latest, Burn[i])]]

\* A mutant: a sample as old as the window goes.
PrunedAtCutoff(list, now) ==
    LET kept == {i \in DOMAIN list : list[i].at > now - Keep}
        young == SubSeq(list, Min(kept \cup {Len(list)}), Len(list))
    IN  SubSeq(young, Max({1, Len(young) - MaxSamples + 1}), Len(young))

\* prune: from the head while it is too old, then the oldest above the limit.
Pruned(list, now) ==
    LET kept == {i \in DOMAIN list : list[i].at >= now - Keep}
        young == SubSeq(list, Min(kept \cup {Len(list)}), Len(list))
    IN  SubSeq(young, Max({1, Len(young) - MaxSamples + 1}), Len(young))

Init == samples = <<>> /\ history = <<>> /\ shown = {}

\* buildSnapshot: record, then report.
Record ==
    /\ Len(history) < MaxHistory
    /\ \E good \in BOOLEAN, now \in Times :
           LET s == [good |-> good, at |-> now]
           IN  /\ samples' = Pruned(Append(samples, s), now)
               /\ history' = Append(history, s)
    /\ shown' = {EvaluateSlo(samples')}

Next == Record

(***************************************************************************)
(* Whatever the clock does, pruning changes no report: it is the one over   *)
(* all samples ever recorded, until the limit drops some.  (A burn window   *)
(* longer than what is kept, as with window_hours below 72, is cut short.)  *)
(***************************************************************************)
SloTellsHistory ==
    Len(history) <= MaxSamples =>
        \A s \in shown :
            LET all == EvaluateSlo(history)
            IN  /\ [s EXCEPT !.burn = <<>>] = [all EXCEPT !.burn = <<>>]
                /\ \A i \in DOMAIN s.burn : Burn[i] <= Keep => s.burn[i] = all.burn[i]

Spec == Init /\ [][Next]_vars
=============================================================================
