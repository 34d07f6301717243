------------------------------ MODULE Streams ------------------------------
(***************************************************************************)
(* The parts of Collectors that get their answer piece by piece: from one   *)
(* target after the other, out of a stream of bytes, or as links that were   *)
(* read at different times.                                                 *)
(***************************************************************************)
EXTENDS Integers, SequencesExt, FiniteSetsExt, Shared

CONSTANTS
    Probes, Statuses,                                         \* SyntheticSource
    Hops,                                                     \* PathSource
    Endpoints, Lifetimes,                                     \* TlsSource
    Commits, MaxTicks,                                        \* PgClient
    Conns, Requests, MaxSpans, MaxRequests, MaxRecent,        \* TraceSource
    Pids, RootPid, MaxBirths                                  \* ProcessTree

\* The targets of the configuration are lists, and days are counted.
ASSUME RoundsAssumption ==
    /\ Probes \in Seq(ToSet(Probes)) /\ Hops \in Seq(ToSet(Hops))
    /\ Endpoints \in Seq(ToSet(Endpoints)) /\ Lifetimes \subseteq Int

\* A Content-Length that is not above zero counts as zero (TraceSource.cpp:79),
\* m_config.maxSpans is a count, and times are counted in nanoseconds.
ASSUME StreamsAssumption ==
    /\ MaxSpans \in Nat /\ MaxRecent \in Nat
    /\ \A r \in Requests :
           /\ r.length \in Nat /\ r.spans \in Seq(ToSet(r.spans))
           /\ \A span \in ToSet(r.spans) : span.start \in Int /\ span.end \in Int

\* Pids are numbers above zero, init's and the root's among them.
ASSUME TreeAssumption ==
    IsFiniteSet(Pids) /\ Pids \subseteq Nat \ {0} /\ {1, RootPid} \subseteq Pids

VARIABLES
    found, index, results,                                \* SyntheticSource
    pending, reports, tried, crashes,                     \* PathSource
    sock, ready, wire, step, rows, snap, clean, baseline, ticks,   \* PgClient
    sockets, buffers, spans, bodies, accepted,            \* TraceSource
    parent, births, unread, links, reused                 \* ProcessTree, with rows

Synthetic == INSTANCE SyntheticSource

Path == INSTANCE PathSource

Tls == INSTANCE TlsSource

Postgres == INSTANCE PgClient

Traces == INSTANCE TraceSource

Tree == INSTANCE ProcessTree
=============================================================================
