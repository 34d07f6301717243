------------------------------ MODULE Collectors ------------------------------
(***************************************************************************)
(* The parts that neither call nor share anything with one another: the     *)
(* collectors behind the tabs, the sampler's trackers, the configuration.  *)
(* A behaviour follows one of them, so the run is the sum of their state    *)
(* spaces, and what is proved of a part holds of Collectors.  A module's     *)
(* variables and constants go by their own names; variables that two        *)
(* modules use under one name are the same variable.                        *)
(***************************************************************************)
EXTENDS Streams, Tables

VARIABLE which                                            \* the part followed

-----------------------------------------------------------------------------
\* Who uses the shared variables; what a behaviour does not use never changes.
Children == {"services", "journal", "synthetic", "path"}
UsesStopping == Children \cup {"tls"}
UsesListening == {"traces", "statsd"}

Init ==
    /\ \/ which = "services" /\ Services!Init
       \/ which = "journal" /\ Journal!Init
       \/ which = "synthetic" /\ Synthetic!Init
       \/ which = "path" /\ Path!Init
       \/ which = "tls" /\ Tls!Init
       \/ which = "postgres" /\ Postgres!Init
       \/ which = "traces" /\ Traces!Init
       \/ which = "statsd" /\ Statsd!Init
       \/ which = "sbom" /\ Sbom!Init
       \/ which = "slo" /\ Slo!Init
       \/ which = "rates" /\ Rates!Init
       \/ which = "watch" /\ Watch!Init
       \/ which = "config" /\ Config!Init
       \/ which = "tree" /\ Tree!Init
       \/ which = "analysis" /\ Analysis!Init
    /\ which \notin Children => running = FALSE /\ child = "none"
    /\ which \notin UsesStopping => stopping = FALSE
    /\ which \notin UsesStopping \cup {"traces"} => timer = FALSE
    /\ which = "config" => shown = {}
    /\ which \in {"tree", "analysis"} => shown = {}
    /\ which # "services" => prev = {} /\ log = <<>>
    /\ which # "synthetic" => found = FALSE /\ index = 0 /\ results = <<>>
    /\ which # "path" => pending = <<>> /\ reports = <<>> /\ tried = <<>> /\ crashes = 0
    /\ which # "postgres" => /\ sock = "none" /\ ready = FALSE /\ wire = <<>> /\ step = "idle"
                             /\ snap = <<>> /\ clean = TRUE /\ baseline = {} /\ ticks = 0
    /\ which \notin {"postgres", "sbom"} => asked = {}
    /\ which \notin {"postgres", "tree"} => rows = {}
    /\ which \notin UsesListening => listening = FALSE
    /\ which # "traces" => /\ sockets = <<>> /\ buffers = <<>> /\ spans = <<>>
                           /\ bodies = <<>> /\ accepted = 0
    /\ which # "statsd" => series = <<>> /\ sets = <<>> /\ counts = <<>>
    /\ which \notin {"statsd", "slo"} => history = <<>>
    /\ which # "sbom" => /\ installed = {} /\ loaded = FALSE /\ packages = {}
                         /\ owner = <<>> /\ resolves = 0
    /\ which # "slo" => samples = <<>>
    /\ which # "rates" => /\ tracker = "" /\ now = 0 /\ counter = <<>> /\ moved = <<>>
                          /\ last = <<>> /\ since = 0
    /\ which # "watch" => store = <<>> /\ pushes = <<>>
    /\ which # "config" => file = <<>> /\ config = <<>>
    /\ which # "tree" => parent = <<>> /\ births = 0 /\ unread = {} /\ links = <<>> /\ reused = FALSE
    /\ which # "analysis" => entries = <<>> /\ facets = <<>> /\ secrets = <<>> /\ threats = <<>>

Rest ==
    /\ which \notin Children => UNCHANGED <<running, child>>
    /\ which \notin UsesStopping => UNCHANGED stopping
    /\ which \notin UsesStopping \cup {"traces"} => UNCHANGED timer
    /\ which \in {"config", "tree", "analysis"} => UNCHANGED shown
    /\ which # "services" => UNCHANGED <<prev, log>>
    /\ which # "synthetic" => UNCHANGED <<found, index, results>>
    /\ which # "path" => UNCHANGED <<pending, reports, tried, crashes>>
    /\ which # "postgres" => UNCHANGED <<sock, ready, wire, step, snap, clean, baseline, ticks>>
    /\ which \notin {"postgres", "sbom"} => UNCHANGED asked
    /\ which \notin {"postgres", "tree"} => UNCHANGED rows
    /\ which \notin UsesListening => UNCHANGED listening
    /\ which # "traces" => UNCHANGED <<sockets, buffers, spans, bodies, accepted>>
    /\ which # "statsd" => UNCHANGED <<series, sets, counts>>
    /\ which \notin {"statsd", "slo"} => UNCHANGED history
    /\ which # "sbom" => UNCHANGED <<installed, loaded, packages, owner, resolves>>
    /\ which # "slo" => UNCHANGED samples
    /\ which # "rates" => UNCHANGED <<tracker, now, counter, moved, last, since>>
    /\ which # "watch" => UNCHANGED <<store, pushes>>
    /\ which # "config" => UNCHANGED <<file, config>>
    /\ which # "tree" => UNCHANGED <<parent, births, unread, links, reused>>
    /\ which # "analysis" => UNCHANGED <<entries, facets, secrets, threats>>

Step ==
    \/ which = "services" /\ Services!Next
    \/ which = "journal" /\ Journal!Next
    \/ which = "synthetic" /\ Synthetic!Next
    \/ which = "path" /\ Path!Next
    \/ which = "tls" /\ Tls!Next
    \/ which = "postgres" /\ Postgres!Next
    \/ which = "traces" /\ Traces!Next
    \/ which = "statsd" /\ Statsd!Next
    \/ which = "sbom" /\ Sbom!Next
    \/ which = "slo" /\ Slo!Next
    \/ which = "rates" /\ Rates!Next
    \/ which = "watch" /\ Watch!Next
    \/ which = "config" /\ Config!Next
    \/ which = "tree" /\ Tree!Next
    \/ which = "analysis" /\ Analysis!Next

Next == Step /\ Rest /\ UNCHANGED which

servicesVars == Services!vars
journalVars == Journal!vars
syntheticVars == Synthetic!vars
pathVars == Path!vars

vars ==
    <<which, running, stopping, child, timer, shown, prev, log, found, index, results,
      pending, reports, tried, crashes, sock, ready, wire, asked, step, rows, snap, clean,
      baseline, ticks, listening, sockets, buffers, spans, bodies, accepted, series, sets,
      counts, history, installed, loaded, packages, owner, resolves, samples, tracker, now,
      counter, moved, last, since, store, pushes, file, config, parent, births, unread,
      links, reused, entries, facets, secrets, threats>>

\* The fairness of the four modules: Qt runs the thread's slots and timers,
\* and the kernel either starts a program or refuses to.
Fairness ==
    /\ WF_servicesVars(which = "services" /\ Services!Start)
    /\ WF_servicesVars(which = "services" /\ Services!OnTimeout)
    /\ WF_servicesVars(which = "services" /\ (Services!OnStarted \/ Services!OnStartFailure))
    /\ WF_journalVars(which = "journal" /\ Journal!Start)
    /\ WF_journalVars(which = "journal" /\ Journal!OnTimeout)
    /\ WF_journalVars(which = "journal" /\ (Journal!OnStarted \/ Journal!OnStartFailure))
    /\ WF_syntheticVars(which = "synthetic" /\ Synthetic!Start)
    /\ WF_syntheticVars(which = "synthetic" /\ Synthetic!OnTimeout)
    /\ WF_syntheticVars(which = "synthetic" /\ (Synthetic!OnStarted \/ Synthetic!OnStartFailure))
    /\ WF_pathVars(which = "path" /\ Path!Start)
    /\ WF_pathVars(which = "path" /\ Path!OnTick)
    /\ WF_pathVars(which = "path" /\ (Path!OnStarted \/ Path!OnStartFailure))

Spec == Init /\ [][Next]_vars /\ Fairness

-----------------------------------------------------------------------------
(***************************************************************************)
(* None of the collectors that run a program has a deadline for it.  What   *)
(* they keep to is: as long as they are not stopped and no program hangs,    *)
(* they come back to an idle state with the timer armed (PathSource: to the *)
(* end of a round) again and again, whatever their programs do.  A program   *)
(* that fails to start is no exception in ServicesSource, JournalSource and   *)
(* at the end of a round; with targets left it is (SyntheticSource,          *)
(* PathSource): the source then waits for a child that is not there, and      *)
(* nothing else brings it to that.                                          *)
(***************************************************************************)
Idle == IF which = "path" THEN ~running ELSE timer

Stranded == running /\ child = "none"

TargetsLeft == IF which = "path" THEN pending # <<>> ELSE index + 1 < Len(Probes)

SilenceHasACause ==
    /\ (which \in Children) =>
           ([]<>Idle \/ <>[]stopping \/ <>[](child = "alive") \/ <>[]Stranded)
    /\ [][~Stranded /\ Stranded' =>
               which \in {"synthetic", "path"} /\ child = "starting" /\ TargetsLeft]_vars

(***************************************************************************)
(* The change log of the services (ServicesSource).                         *)
(***************************************************************************)
ServiceLogTellsUnits == which = "services" => Services!ServiceLogTellsUnits

(***************************************************************************)
(* Rounds over a list of targets answer for all of them, whatever becomes   *)
(* of each (SyntheticSource, PathSource, TlsSource).                        *)
(***************************************************************************)
RoundsAreComplete ==
    /\ which = "synthetic" => Synthetic!ProbesAreComplete
    /\ which = "path" => Path!PathSkipsOnlyOnCrash
    /\ which = "tls" => Tls!EndpointsAreComplete

(***************************************************************************)
(* A stream that comes in pieces stays in step with its reader.  Rows are    *)
(* shown under the question they answer while no call has failed on their    *)
(* connection; after a failure an answer may come under the next question,   *)
(* but the rows shown together are still of one question, and the rate is     *)
(* taken from rows of pg_stat_database only (PgClient).  Every span that      *)
(* arrived whole is kept once (TraceSource).                                *)
(***************************************************************************)
StreamsStayInStep ==
    /\ which = "postgres" => Postgres!AnswersAreOwn
    /\ which = "traces" => Traces!SpansComeOnce

(***************************************************************************)
(* What is shown as a sum, a group or a verdict agrees with what went in    *)
(* (JournalSource, JournalAnalysis, TraceSource, StatsdSource, SloTracker,   *)
(* Watchdog).                                                               *)
(***************************************************************************)
AggregatesTellInputs ==
    /\ which = "journal" => Journal!GroupsPartitionErrors
    /\ which = "analysis" => Analysis!CardsTellMessages
    /\ which = "traces" => Traces!TraceTotalsAgree
    /\ which = "statsd" => Statsd!SeriesTellHistory
    /\ which = "slo" => Slo!SloTellsHistory
    /\ which = "watch" => Watch!WatchdogIsFair

(***************************************************************************)
(* A library is listed when the question about it was answered (SbomSource). *)
(***************************************************************************)
SbomListsTheAsked == which = "sbom" => Sbom!SbomListsTheAsked

(***************************************************************************)
(* A rate is over the time its counter was watched (RateTrackers).          *)
(***************************************************************************)
RatesCoverTheirTime == which = "rates" => Rates!RatesCoverTheirTime

(***************************************************************************)
(* The process tree ends and is shown level by level (ProcessTree).         *)
(***************************************************************************)
TreeIsShown == which = "tree" => Tree!TreeIsShown

(***************************************************************************)
(* Every file gives a configuration the program can run on (Configuration). *)
(***************************************************************************)
ConfigIsUsable == which = "config" => Config!ConfigIsUsable
=============================================================================
