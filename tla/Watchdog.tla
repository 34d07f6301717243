------------------------------ MODULE Watchdog ------------------------------
(***************************************************************************)
(* The watchdog card and the watchdog alert: a window of the newest values  *)
(* of a metric (MetricStore), the three robust detectors over it, and the   *)
(* forecast.  Every comparison of the code is one between fractions of the  *)
(* values, and is written here with the denominators multiplied out.        *)
(***************************************************************************)
EXTENDS Integers, Sequences, FiniteSets, Functions

CONSTANTS
    Values,       \* what the metric can be, whole numbers
    Capacity,     \* m_capacity
    Lookback,         \* samples the forecast looks back, 60 in the code
    Horizon,      \* samples the forecast looks ahead
    Limit,        \* the threshold of the forecast
    MaxPushes     \* bound on the samples of a behaviour

VARIABLES
    store,        \* m_values
    pushes,       \* all values pushed
    shown         \* verdicts and forecast of the last snapshot

vars == <<store, pushes, shown>>

Squares(list) == [i \in DOMAIN list |-> list[i] * list[i]]
Distance(x, y) == IF x > y THEN x - y ELSE y - x

\* The newest n values, the newest one, and the others.
NewestOf(list, n) == SubSeq(list, IF Len(list) > n THEN Len(list) - n + 1 ELSE 1, Len(list))
Newest(list) == list[Len(list)]
Others(list) == SubSeq(list, 1, Len(list) - 1)

\* The k-th value of the sorted list.
Ranked(list, k) ==
    CHOOSE v \in Range(list) : /\ Cardinality({i \in DOMAIN list : list[i] < v}) < k
                               /\ k <= Cardinality({i \in DOMAIN list : list[i] <= v})

\* quantile at q quarters, times four: between the neighbours of its position.
Quantile4(list, q) ==
    LET pos == q * (Len(list) - 1)
        lo == 1 + pos \div 4
        part == pos % 4
    IN  IF part = 0 THEN 4 * Ranked(list, lo)
        ELSE (4 - part) * Ranked(list, lo) + part * Ranked(list, lo + 1)

-----------------------------------------------------------------------------
(* detectAnomaly: value against history; a spread of zero scores zero. *)

Verdict(anomalous, outside) == [anomalous |-> anomalous, outside |-> outside]

\* Standard scores: the mean is S / n, the variance V / n (n - 1).
ZScore(history, value, threshold) ==
    LET n == Len(history)
        S == SumFunction(history)
        V == n * SumFunction(Squares(history)) - S * S
        far == (n * value - S) * (n * value - S) * (n - 1)
                   > threshold * threshold * V * n
    IN  Verdict(V > 0 /\ far, far)

\* Median and median deviation, both in quarters; a score of 3.5 scaled by
\* 0.6745 and by 1.4826, a band scaled by the second only.
Mad(history, value) ==
    LET median == Quantile4(history, 2)
        deviations == [i \in DOMAIN history |-> Distance(4 * history[i], median)]
        mad == Quantile4(deviations, 2)
        off == 4 * Distance(4 * value, median)
    IN  Verdict(mad > 0 /\ 6745 * off > 51891 * mad, 10000 * off > 51891 * mad)

\* Quartiles: one and a half of their distance beyond them.
Quartiles(history, value) ==
    LET q1 == Quantile4(history, 1)
        q3 == Quantile4(history, 3)
        far == \/ 8 * value < 2 * q1 - 3 * (q3 - q1)
               \/ 8 * value > 2 * q3 + 3 * (q3 - q1)
    IN  Verdict(far, far)

\* The sums of a least squares line over positions 0, 1, ...: its slope is
\* rise / run, its value at position x is At(x) / (n * run).
Line(list) ==
    LET n == Len(list)
        X == [i \in DOMAIN list |-> i - 1]
        Sxy == SumFunction([i \in DOMAIN list |-> X[i] * list[i]])
    IN  [n |-> n,
         rise |-> n * Sxy - SumFunction(X) * SumFunction(list),
         run |-> n * SumFunction(Squares(X)) - SumFunction(X) * SumFunction(X),
         sx |-> SumFunction(X), sy |-> SumFunction(list)]

At(line, x) == line.n * line.rise * x + line.run * line.sy - line.rise * line.sx

Linear(history, value, threshold) ==
    LET line == Line(history)
        scale == line.n * line.run
        residuals == [i \in DOMAIN history |-> scale * history[i] - At(line, i - 1)]
        R == SumFunction(Squares(residuals))
        off == scale * value - At(line, line.n)
        far == off * off * (line.n - 1) > threshold * threshold * R
    IN  Verdict(R > 0 /\ far, far)

\* The newest value against the others, from five values on.
Detect(list) ==
    IF Len(list) < 5 THEN [z |-> Verdict(FALSE, FALSE), mad |-> Verdict(FALSE, FALSE),
                           quantile |-> Verdict(FALSE, FALSE), linear |-> Verdict(FALSE, FALSE)]
    ELSE [z |-> ZScore(Others(list), Newest(list), 3), mad |-> Mad(Others(list), Newest(list)),
          quantile |-> Quartiles(Others(list), Newest(list)),
          linear |-> Linear(Others(list), Newest(list), 3)]

\* A mutant: a line that leads away from the limit crosses it as well.
ForecastAnyWay(list) ==
    LET line == Line(NewestOf(list, Lookback))
        gap == Distance(Limit, Newest(list)) * line.run
        rise == Distance(line.rise, 0)
    IN  IF Len(list) < 5 \/ line.rise = 0 \/ gap > Horizon * rise THEN {}
        ELSE {(gap + rise - 1) \div rise}

\* forecastCrossing: the steps from the newest value to the limit, rounded up,
\* or {} when the line does not lead there within the horizon.
Forecast(list) ==
    LET line == Line(NewestOf(list, Lookback))
        gap == (Limit - Newest(list)) * (IF line.rise < 0 THEN -1 ELSE 1) * line.run
        rise == Distance(line.rise, 0)
    IN  IF Len(list) < 5 \/ line.rise = 0 \/ gap < 0 \/ gap > Horizon * rise THEN {}
        ELSE {(gap + rise - 1) \div rise}

-----------------------------------------------------------------------------
\* MetricStore::push
Pushed(list, value) == NewestOf(Append(list, value), Capacity)

Init == store = <<>> /\ pushes = <<>> /\ shown = {}

\* A snapshot with a valid value: the store, then the verdicts over it.
Push ==
    /\ Len(pushes) < MaxPushes
    /\ \E v \in Values :
        /\ store' = Pushed(store, v)
        /\ pushes' = Append(pushes, v)
    /\ shown' = {[verdicts |-> Detect(store'), crossing |-> Forecast(store')]}

Next == Push

-----------------------------------------------------------------------------
Shifted(list) == [i \in DOMAIN list |-> list[i] + 7]
Mirrored(list) == [i \in DOMAIN list |-> 0 - list[i]]

(***************************************************************************)
(* The verdicts depend on how far a value is from the others, neither on    *)
(* the level of the metric nor on the direction; whatever is called an      *)
(* anomaly lies outside the band printed beside it; a window that never     *)
(* moved only alarms the quartiles; and a forecast names a time only when   *)
(* the metric is at the limit or on its way to it.                          *)
(***************************************************************************)
WatchdogIsFair ==
    /\ Len(store) <= Capacity
    /\ \A s \in shown :
        /\ s.verdicts = Detect(Shifted(store)) /\ s.verdicts = Detect(Mirrored(store))
        /\ \A d \in DOMAIN s.verdicts : s.verdicts[d].anomalous => s.verdicts[d].outside
        /\ (Len(store) >= 5 /\ Cardinality(Range(Others(store))) = 1) =>
               \A d \in DOMAIN s.verdicts : s.verdicts[d].anomalous => d = "quantile"
        /\ \A n \in s.crossing :
               /\ n \in 0..Horizon
               /\ n > 0 => (Limit > Newest(store)) = (Line(NewestOf(store, Lookback)).rise > 0)

Spec == Init /\ [][Next]_vars
=============================================================================
