---------------------------- MODULE StatsdSource ----------------------------
(***************************************************************************)
(* The DogStatsD listener and its aggregator.  Every datagram is a list of  *)
(* lines; a line is an event, a service check, a metric or unreadable.  A   *)
(* series goes by name and tags, not by type, and lives for ever.           *)
(***************************************************************************)
EXTENDS Integers, Sequences, FiniteSetsExt, Functions

CONSTANTS
    Lines,          \* [kind: "event", "check", "bad" or a metric's type,
                    \*  key, values: a sequence of numbers, scale: 1 / the sample rate]
    MaxLines,       \* bound on the lines of a datagram
    MaxDatagrams    \* bound on the datagrams of a behaviour

\* statsdTypeName: "counter", "timer", "set" and the others, or whatever code
\* it does not know, which then is handled as a timer.
IsMetric(line) == line.kind \notin {"event", "check", "bad"}

VARIABLES
    listening,      \* the socket is bound; m_timer runs with it
    series,         \* m_series: key -> its record
    sets,           \* m_setValues: key -> the values seen
    counts,         \* m_datagrams, m_metrics, m_events, m_serviceChecks, m_parseErrors
    history,        \* the lines ingested, in order
    shown

vars == <<listening, series, sets, counts, history, shown>>

Zero == [datagrams |-> 0, metrics |-> 0, events |-> 0, checks |-> 0, errors |-> 0]
NewSeries == [type |-> "", last |-> 0, sum |-> 0, min |-> 0, max |-> 0,
              count |-> 0, unique |-> 0]

Least(a, b) == IF a < b THEN a ELSE b
Most(a, b) == IF a > b THEN a ELSE b

\* A mutant: the smallest value starts at zero, as the largest does.
WithMinFromZero(s, v) ==
    [s EXCEPT !.last = v, !.sum = @ + v, !.count = @ + 1,
              !.min = Least(@, v), !.max = Most(@, v)]

\* One value of a timer, gauge, histogram or distribution.
WithSample(s, v) ==
    [s EXCEPT !.last = v, !.sum = @ + v, !.count = @ + 1,
              !.min = IF s.count = 0 THEN v ELSE Least(@, v),
              !.max = Most(@, v)]

\* A counter adds what the samples stand for.
WithIncrement(s, v, scale) ==
    [s EXCEPT !.last = v, !.sum = @ + v * scale, !.count = @ + 1]

\* The state of the aggregator as one record, for the loop over the lines.
State == [series |-> series, sets |-> sets, counts |-> counts]

SeriesOf(table, key, fresh) == IF key \in DOMAIN table THEN table[key] ELSE fresh

With(table, key, value) == [k \in DOMAIN table \cup {key} |-> IF k = key THEN value ELSE table[k]]

\* The loop over the values of a line that is not of a set.
WithValues(s0, line) ==
    LET after[n \in 0..Len(line.values)] ==
            IF n = 0 THEN s0
            ELSE IF line.kind = "counter"
                 THEN WithIncrement(after[n - 1], line.values[n], line.scale)
                 ELSE WithSample(after[n - 1], line.values[n])
    IN  after[Len(line.values)]

\* The metric branch of ingest: all values of the line, in its series.
IngestMetric(st, line) ==
    LET s0 == [SeriesOf(st.series, line.key, NewSeries) EXCEPT !.type = line.kind]
        seen == SeriesOf(st.sets, line.key, {}) \cup Range(line.values)
        metrics == [st.counts EXCEPT !.metrics = @ + 1]
    IN  IF line.kind = "set"
        THEN [series |-> With(st.series, line.key,
                              [s0 EXCEPT !.unique = Cardinality(seen), !.last = Cardinality(seen)]),
              sets |-> With(st.sets, line.key, seen), counts |-> metrics]
        ELSE [series |-> With(st.series, line.key, WithValues(s0, line)),
              sets |-> st.sets, counts |-> metrics]

IngestLine(st, line) ==
    CASE line.kind = "event" -> [st EXCEPT !.counts.events = @ + 1]
      [] line.kind = "check" -> [st EXCEPT !.counts.checks = @ + 1]
      [] line.kind = "bad"   -> [st EXCEPT !.counts.errors = @ + 1]
      [] OTHER               -> IngestMetric(st, line)

\* ingest: a datagram.
Ingest(datagram) ==
    LET after[n \in 0..Len(datagram)] ==
            IF n = 0 THEN [State EXCEPT !.counts.datagrams = @ + 1]
            ELSE IngestLine(after[n - 1], datagram[n])
    IN  after[Len(datagram)]

Init ==
    /\ listening = FALSE
    /\ series = <<>> /\ sets = <<>> /\ counts = Zero /\ history = <<>> /\ shown = {}

\* start(): a port in use is reported once and for all.
Start ==
    /\ ~listening /\ shown = {} /\ history = <<>>
    /\ \/ listening' = TRUE /\ UNCHANGED shown
       \/ shown' = {[available |-> FALSE, counts |-> Zero, series |-> <<>>]}
          /\ UNCHANGED listening
    /\ UNCHANGED <<series, sets, counts, history>>

\* One turn of the loop of onReadyRead.
OnReadyRead ==
    /\ listening /\ counts.datagrams < MaxDatagrams
    /\ \E n \in 0..MaxLines : \E d \in [1..n -> Lines] :
           LET st == Ingest(d)
           IN  /\ series' = st.series /\ sets' = st.sets /\ counts' = st.counts
               /\ history' = history \o d
    /\ UNCHANGED <<listening, shown>>

OnEmitTick ==
    /\ listening
    /\ shown' = {[available |-> TRUE, counts |-> counts, series |-> series]}
    /\ UNCHANGED <<listening, series, sets, counts, history>>

Stop ==
    /\ listening /\ shown # {}
    /\ listening' = FALSE
    /\ UNCHANGED <<series, sets, counts, history, shown>>

Next == Start \/ OnReadyRead \/ OnEmitTick \/ Stop

-----------------------------------------------------------------------------
\* The reference: what a series is, from all the lines that named it and from
\* the places <<line, value>> of their values.
LinesOf(key) == {i \in DOMAIN history : IsMetric(history[i]) /\ history[i].key = key}
PlacesOf(key) == UNION {{i} \X DOMAIN history[i].values : i \in LinesOf(key)}
Value(place) == history[place[1]].values[place[2]]

(***************************************************************************)
(* The aggregator, which sees one value at a time and keeps no history,     *)
(* agrees with the history: every line is counted once under one heading,   *)
(* and a series that keeps to one type has the sum, the extremes (of values *)
(* that are not negative) and the distinct values of all its lines.         *)
(***************************************************************************)
SeriesTellHistory ==
    /\ counts.metrics + counts.events + counts.checks + counts.errors = Len(history)
    /\ \A key \in DOMAIN series :
           LET s == series[key]
               places == PlacesOf(key)
               values == {Value(p) : p \in places}
           IN  (\A i \in LinesOf(key) : history[i].kind = s.type) =>
                   CASE s.type = "set" -> s.unique = Cardinality(values)
                     [] s.type = "counter" ->
                            /\ s.count = Cardinality(places)
                            /\ s.sum = SumFunction([p \in places |-> Value(p) * history[p[1]].scale])
                     [] OTHER ->
                            /\ s.count = Cardinality(places)
                            /\ s.sum = SumFunction([p \in places |-> Value(p)])
                            /\ LET newest == history[Max(LinesOf(key))].values
                               IN  s.last = newest[Len(newest)]
                            /\ s.min = Min(values) /\ s.max = Max(values \cup {0})

Spec == Init /\ [][Next]_vars
=============================================================================
