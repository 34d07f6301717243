----------------------------- MODULE TlsSource -----------------------------
(***************************************************************************)
(* The worker thread of TlsSource: a repeating timer, and one slot that     *)
(* dials every endpoint in turn and blocks up to four seconds on each.      *)
(***************************************************************************)
EXTENDS Integers, FiniteSetsExt

CONSTANTS
    Endpoints,    \* m_config.targets as [host, port]; port is {}, or {n} after the last colon
    Lifetimes     \* the days a certificate can have left

VARIABLES timer, stopping, shown     \* stopping: stop() was called (no member)

vars == <<timer, stopping, shown>>

\* A port that is missing, zero, negative or no number (0) is 443.
Port(endpoint) ==
    LET given == {p \in endpoint.port : p > 0} IN IF given = {} THEN 443 ELSE Max(given)

Down(endpoint) ==
    [host |-> endpoint.host, port |-> Port(endpoint), ok |-> FALSE, daysLeft |-> 0]

\* One turn of the loop: no connection or certificate, or the days it has left.
Result(endpoint, days) ==
    IF days = {} THEN Down(endpoint)
    ELSE [Down(endpoint) EXCEPT !.ok = TRUE, !.daysLeft = Max(days)]

\* tlsSeverity
Severity(days) ==
    CASE days < 0   -> "expired"
      [] days <= 7  -> "critical"
      [] days <= 30 -> "warning"
      [] OTHER      -> "ok"

\* tlsSummaryText: an endpoint that is down counts as a warning.
Warnings(results) ==
    Cardinality({i \in DOMAIN results : ~results[i].ok \/ results[i].daysLeft <= 30})

NearestExpiry(results) ==
    LET left == {results[i].daysLeft : i \in {j \in DOMAIN results : results[j].ok}}
    IN  IF left = {} THEN 0 ELSE Min(left)

Summary(results) ==
    [available |-> TRUE, results |-> results,
     warnings |-> Warnings(results), nearest |-> NearestExpiry(results)]

Empty == [available |-> FALSE, results |-> <<>>, warnings |-> 0, nearest |-> 0]

Init == timer = FALSE /\ stopping = FALSE /\ shown = {}

\* The snapshot of one pass over the endpoints.
Sweep ==
    \E days \in [DOMAIN Endpoints -> {{}} \cup {{d} : d \in Lifetimes}] :
        shown' = {Summary([i \in DOMAIN Endpoints |-> Result(Endpoints[i], days[i])])}

\* start(): disabled or without endpoints one empty snapshot and no timer.
Start ==
    /\ shown = {} /\ ~timer /\ ~stopping
    /\ \/ timer' = TRUE /\ Sweep
       \/ shown' = {Empty} /\ UNCHANGED timer
    /\ UNCHANGED stopping

OnTick ==
    /\ timer
    /\ Sweep
    /\ UNCHANGED <<timer, stopping>>

Stop ==
    /\ ~stopping
    /\ stopping' = TRUE /\ timer' = FALSE
    /\ UNCHANGED shown

Next == Start \/ OnTick \/ Stop

(***************************************************************************)
(* A snapshot answers for every endpoint in its order, also after one that  *)
(* is down, and the headline agrees with the list below it: a warning for   *)
(* each endpoint that is down or not "ok", the nearest expiry among those   *)
(* that are up.                                                             *)
(***************************************************************************)
EndpointsAreComplete ==
    \A s \in {t \in shown : t.available} :
        /\ [i \in DOMAIN s.results |-> s.results[i].host] =
               [i \in DOMAIN Endpoints |-> Endpoints[i].host]
        /\ s.warnings = Cardinality({i \in DOMAIN s.results :
                              ~s.results[i].ok \/ Severity(s.results[i].daysLeft) # "ok"})
        /\ \A i \in DOMAIN s.results : s.results[i].ok => s.nearest <= s.results[i].daysLeft

Spec == Init /\ [][Next]_vars
=============================================================================
