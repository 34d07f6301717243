---------------------------- MODULE TraceSource ----------------------------
(***************************************************************************)
(* The OTLP receiver: a local HTTP server that gathers each connection's    *)
(* bytes until the body is complete, keeps the newest spans, and sums them  *)
(* up on a timer.  A buffer belongs to a socket's address, and is removed   *)
(* when its request is answered, not when its peer goes away: an address    *)
(* that is used again finds the old buffer.                                 *)
(***************************************************************************)
EXTENDS Integers, Sequences, FiniteSetsExt, Functions

CONSTANTS
    Conns,       \* addresses of QTcpSocket objects
    Requests,    \* [length: Content-Length or 0, spans: a sequence, ok: it parses]
    MaxSpans,    \* m_config.maxSpans
    MaxRequests, \* bound on the connections of a behaviour
    MaxRecent    \* TraceStatus.cpp:238 says 25

VARIABLES
    listening,   \* the server accepts connections
    timer,       \* m_timer is active
    sockets,     \* the live connections: address -> [request, sent]
    buffers,     \* m_buffers: address -> bytes gathered (the header is one)
    spans,       \* m_spans
    bodies,      \* the spans of every body a peer completed, in order
    accepted,
    shown        \* the last summary emitted

vars == <<listening, timer, sockets, buffers, spans, bodies, accepted, shown>>

-----------------------------------------------------------------------------
(* summarizeTraces.  What the code files under a name is here the set of    *)
(* the places, in the list, of the spans with that name.                    *)

Duration(s) == IF s.end > s.start THEN s.end - s.start ELSE 0
Failed(list, places) == {i \in places : list[i].error}

\* percentile: the value at the ceiling of p per cent, from 1, of the sorted values.
Percentile(values, p) ==
    LET at == Max({1, (p * Cardinality(DOMAIN values) + 99) \div 100})
    IN  CHOOSE v \in Range(values) :
            /\ Cardinality({i \in DOMAIN values : values[i] < v}) < at
            /\ at <= Cardinality({i \in DOMAIN values : values[i] <= v})

ServiceLatency(service, list) ==
    LET own == {i \in DOMAIN list : list[i].service = service}
        times == [i \in own |-> Duration(list[i])]
    IN  [service |-> service, spans |-> Cardinality(own),
         errors |-> Cardinality(Failed(list, own)), total |-> SumFunction(times),
         max |-> Max(Range(times)), p95 |-> Percentile(times, 95)]

\* The service of a span id is that of the last span that carries it.
ServiceOf(id, list) == list[Max({i \in DOMAIN list : list[i].id = id})].service
IdsOf(list) == {list[i].id : i \in DOMAIN list}

\* Calls between two services: spans whose parent is known and elsewhere.
Edges(list) ==
    LET calls == {i \in DOMAIN list : /\ list[i].parent \in IdsOf(list)
                                      /\ ServiceOf(list[i].parent, list) # list[i].service}
        Edge(i) == [from |-> ServiceOf(list[i].parent, list), to |-> list[i].service]
    IN  {[edge |-> Edge(i), count |-> Cardinality({j \in calls : Edge(j) = Edge(i)})] : i \in calls}

\* One trace: the last span without parent names it, else its first span.
TraceSummary(trace, list) ==
    LET own == {i \in DOMAIN list : list[i].trace = trace}
        roots == {i \in own : list[i].parent = ""}
        first == Min({list[i].start : i \in own})
        last == Max({list[i].end : i \in own} \cup {0})
    IN  [trace |-> trace, spanCount |-> Cardinality(own), hasError |-> Failed(list, own) # {},
         root |-> list[IF roots = {} THEN Min(own) ELSE Max(roots)].service,
         duration |-> IF last > first THEN last - first ELSE 0, start |-> first]

\* The first n of a set by start, the latest first; ties are in any order.
Latest(all, n) ==
    CHOOSE sorted \in [1..n -> all] :
        /\ \A i, j \in 1..n : i < j => sorted[i] # sorted[j] /\ sorted[i].start >= sorted[j].start
        /\ \A left \in all \ Range(sorted) : \A i \in 1..n : sorted[i].start >= left.start

\* The latest traces first, and no more than MaxRecent of them.
Recent(list) ==
    LET all == {TraceSummary(list[i].trace, list) : i \in DOMAIN list}
    IN  Latest(all, Min({Cardinality(all), MaxRecent}))

Summary(list) ==
    [spanCount |-> Len(list), errorCount |-> Cardinality(Failed(list, DOMAIN list)),
     traceCount |-> Cardinality({list[i].trace : i \in DOMAIN list}),
     services |-> {ServiceLatency(list[i].service, list) : i \in DOMAIN list},
     edges |-> Edges(list), recent |-> Recent(list)]

-----------------------------------------------------------------------------
\* A QHash with another entry, and without one.
With(table, c, value) == [k \in DOMAIN table \cup {c} |-> IF k = c THEN value ELSE table[k]]
Without(table, c) == [k \in DOMAIN table \ {c} |-> table[k]]

Init ==
    /\ listening = FALSE /\ timer = FALSE
    /\ sockets = <<>> /\ buffers = <<>>
    /\ spans = <<>> /\ bodies = <<>> /\ accepted = 0 /\ shown = {}

\* start(): a port in use leaves the source as it was.
Start ==
    /\ ~listening /\ accepted = 0
    /\ listening' = TRUE /\ timer' = TRUE
    /\ UNCHANGED <<sockets, buffers, spans, bodies, accepted, shown>>

\* A mutant: an address that has a buffer keeps it.
OnNewConnectionKeeping(c) ==
    /\ listening /\ accepted < MaxRequests /\ c \notin DOMAIN sockets
    /\ accepted' = accepted + 1
    /\ \E r \in Requests : sockets' = With(sockets, c, [request |-> r, sent |-> 0])
    /\ buffers' = IF c \in DOMAIN buffers THEN buffers ELSE With(buffers, c, 0)
    /\ UNCHANGED <<listening, timer, spans, bodies, shown>>

OnNewConnection(c) ==
    /\ listening /\ accepted < MaxRequests /\ c \notin DOMAIN sockets
    /\ accepted' = accepted + 1
    /\ \E r \in Requests : sockets' = With(sockets, c, [request |-> r, sent |-> 0])
    /\ buffers' = With(buffers, c, 0)
    /\ UNCHANGED <<listening, timer, spans, bodies, shown>>

\* processBody: nothing of a body that does not parse.
Kept(list) == SubSeq(list, Max({1, Len(list) - MaxSpans + 1}), Len(list))
Processed(request) == IF request.length > 0 /\ request.ok THEN request.spans ELSE <<>>

\* onReadyRead: a chunk of any size.  The answer, once the header and as much
\* body as it announced are there, forgets the buffer; what comes after that
\* is ignored.
OnReadyRead(c, n) ==
    /\ c \in DOMAIN sockets
    /\ LET s == sockets[c]
           complete == buffers[c] + n >= 1 + s.request.length
       IN  /\ s.sent + n <= 2 + s.request.length
           /\ sockets' = [sockets EXCEPT ![c].sent = @ + n]
           /\ bodies' = IF s.sent <= s.request.length /\ s.sent + n > s.request.length
                        THEN bodies \o Processed(s.request) ELSE bodies
           /\ IF c \notin DOMAIN buffers THEN UNCHANGED <<buffers, spans>>
              ELSE IF complete
              THEN /\ spans' = Kept(spans \o Processed(s.request))
                   /\ buffers' = Without(buffers, c)
              ELSE buffers' = [buffers EXCEPT ![c] = @ + n] /\ UNCHANGED spans
    /\ UNCHANGED <<listening, timer, accepted, shown>>

\* The peer leaves, or is disconnected after its answer: deleteLater.
OnDisconnected(c) ==
    /\ c \in DOMAIN sockets
    /\ sockets' = Without(sockets, c)
    /\ UNCHANGED <<listening, timer, buffers, spans, bodies, accepted, shown>>

OnEmitTick ==
    /\ timer
    /\ shown' = {Summary(spans)}
    /\ UNCHANGED <<listening, timer, sockets, buffers, spans, bodies, accepted>>

\* stop() closes the server; the connections it accepted live on.
Stop ==
    /\ listening
    /\ listening' = FALSE /\ timer' = FALSE
    /\ accepted' = MaxRequests
    /\ UNCHANGED <<sockets, buffers, spans, bodies, shown>>

Next ==
    \/ Start \/ OnEmitTick \/ Stop
    \/ \E c \in Conns : \/ OnNewConnection(c) \/ OnDisconnected(c)
                        \/ \E n \in 1..3 : OnReadyRead(c, n)

-----------------------------------------------------------------------------
(***************************************************************************)
(* However the bytes of the connections are cut and interleaved, whichever  *)
(* peers leave half way and whichever addresses come back: the spans kept   *)
(* are the newest of the bodies that arrived whole, each counted once.      *)
(***************************************************************************)
SpansComeOnce == spans = Kept(bodies)

(***************************************************************************)
(* The three tables of the trace tab are views of the same spans: the spans *)
(* and errors of the services add up to the totals, so do those of the      *)
(* traces while none is cut off, no service calls itself, and no p95 or     *)
(* average exceeds the maximum.                                             *)
(***************************************************************************)
TraceTotalsAgree ==
    \A t \in shown :
        /\ SumFunction([s \in t.services |-> s.spans]) = t.spanCount
        /\ SumFunction([s \in t.services |-> s.errors]) = t.errorCount
        /\ Len(t.recent) = Min({t.traceCount, MaxRecent})
        /\ t.traceCount <= MaxRecent =>
               SumFunction([i \in DOMAIN t.recent |-> t.recent[i].spanCount]) = t.spanCount
        /\ \A e \in t.edges : e.edge.from # e.edge.to
        /\ \A s \in t.services : s.p95 <= s.max /\ s.total <= s.max * s.spans

Spec == Init /\ [][Next]_vars
=============================================================================
