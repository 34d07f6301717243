# Verification of Syspeek

Syspeek (`cpp/`) is a small always-on-top window that shows the CPU and memory of
the focused application, the state of the containers and of the cluster, and the
alerts raised over all of it.  It is a Qt program: one thread per collector, each
with its own event loop, and a window that receives snapshots through queued
signals.  This directory holds TLA+ models of the parts whose correctness depends
on the order in which things happen, the TLC runs that check them on small
instances, and proofs of the main results for every value of the constants.

Contents: [inventory](#inventory), [modules](#modules), [runs](#runs),
[proofs](#proofs), [findings](#findings), [limits](#what-is-not-modelled-or-only-checked),
[plan](#plan).

## Inventory

Paths are relative to `cpp/src/` unless they start with another directory.

| Component | State it keeps | Operations | Hard behaviour | Correct if | Module |
|---|---|---|---|---|---|
| Docker source (`DockerSource`) | one child process, three single-shot timers, the flags running, aborting, stopping, refresh pending, the retry delay, the last good snapshot | `start`, `stop`, three timer slots, four `QProcess` slots | timers, child exit, start failure and output limit in any order; synchronous failure of `QProcess::start`; a blocking `stop` | never silent, never two children, an aborted query is never shown fresh, data is never dropped for an error | `DockerSource`, `StatusFeed` |
| Docker status (`DockerStatus`) | the previous listing and the crashed marks | `DockerStateTracker::update`, `dockerContainerIsIssue` | a mark depends on two listings, with containers that vanish and return | marks are earned and do not outlive a restart | `DockerStatus` |
| Kubernetes source (`KubeSource`) | as the Docker source, with the previous resources and a timeline of 200 changes | the same slots | the same, in code of its own; trimming across listings | the same, and the timeline agrees with the listing | `KubeSource`, `StatusFeed` |
| Kubernetes status (`KubeStatus`) | none | `kubePodIsIssue`, `kubeDiagnose`, `kubeDiff` | three functions judge a pod separately | what one calls a problem the others explain | `KubeStatus` |
| Alert engine (`AlertEngine`) | a streak and a firing flag per rule, the active alerts | `update` | evaluated by four sources over one shared input | sustained breaches, one notification per alert | `AlertEngine` |
| Incident tracker (`IncidentStatus`) | the list of incidents, the next id | `update` (fold, resolve, trim) | a wall clock that jumps; flapping rules; a capped history | one open incident per rule, none lost | `IncidentTracker` |
| Window, alert path (`HudWindow`) | `m_alertInput`, whose fields are written by four slots | `setSnapshot`, `setKubeSnapshot`, `setServicesSnapshot`, `setJournalSnapshot`, `evaluateAlerts` | interleaving of the slots; fields that stay valid | an alert reflects its own source | `HudAlerts` |
| Focus sampling (`SamplerWorker`, `FocusSampler`, `GroupCache`, `ProcessGrouper`, `CpuSampler`, `HealthEvaluator`) | last identity, cached group, CPU baseline, alarm streaks | `sampleNow` | three reads of `/proc` with processes starting, exiting and reusing pids in between | what is shown was measured of the process it names | `FocusSampling` |
| `/proc` reader (`LinuxProcess`) | none | `identity`, `parentPid`, `procCpu` | torn between calls | see focus sampling | `FocusSampling` |
| Focus providers (`FocusProviderFactory`, `CachingFocusProvider`, `Gnome…`, `Kde…`, `Hyprctl…`, `Swaymsg…`, `Niri…`, `Xdotool…`) | KDE: two atomics with a time to live; cache: last pid and time | `focusedPid`, the D-Bus slot | torn read of the two atomics, expiry against an active window | an answer is recent; a window that stays active stays focused | `FocusBridge` |
| Focus bridges (`gnome_extension/`, `cpp/kwin_script/`) | the pid file; nothing | on focus change, enable, disable | publish only on change; a write that fails | see above | `FocusBridge`, as environment |
| Process wiring (`main.cpp`) | last sequence shown, the watcher's last text, the threads, `main`'s locals | the sampler's queued signal, the watcher, signals, shutdown | snapshots queued past each other; changes of the file that the watcher misses; locals that end while threads run | the last focus reaches the window; a signal ends the process; nothing is used after its end | `Wiring` |
| Services and journal sources | one child, a poll timer, a log of changes or groups of errors | as the Docker source without a deadline | a child that never ends | keeps polling; the log agrees with the listing | `ServicesSource`, `JournalSource` |
| Path, synthetic, trace and TLS collectors | a target index, one child or request; buffers per connection | start of a round, advance; connect, receive, sum up | advance from two callbacks; a request in pieces over an address that is used again | every target asked once per round; every span kept once | `PathSource`, `SyntheticSource`, `TraceSource`, `TlsSource` |
| PostgreSQL collector (`PgClient`, `DbmSource`) | a socket and what is unread in it | `connect`, `query`, `close` | an error leaves the rest of a reply unread | an answer belongs to its question | `PgClient` |
| DogStatsD collector (`StatsdSource`, `StatsdStatus`) | series that live for ever, sets of values | `ingest`, emit | one key under two types, sample rates | totals tell what was received | `StatsdSource` |
| Rate trackers and host samplers | a baseline of counters and a time | `sample` | counters that restart, entries that vanish, readings that fail | a rate is over the time its counter was watched | `RateTrackers` |
| SLO, metric store, watchdog, cost | bounded windows of samples and values | `record`, `evaluate` | a clock that goes back, limits of the window | pruning changes no report | `SloTracker`, `Watchdog`; `CostModel` not |
| Configuration (`Config`) | none | `loadConfig`, `validate` | ranges and pairs that force one another | any file gives a usable configuration | `Configuration` |
| Process tree, dashboard (`ProcessGrouper`, `LinuxProcess`, `DashboardPanel`) | the rows of one snapshot | one read of a parent per pid, then two walks | pids reused between the reads; a cycle of links | unless a pid is reused meanwhile, the walk ends and every process is shown once | `ProcessTree` |
| Text analysers (`LogParser`, `ThreatStatus`, `SensitiveStatus`, `SbomStatus`, `SbomSource`) | counts, a leaky bucket per source, a cache of answers | one entry after the other | order and equal times of entries; answers that fail | the cards tell the messages; a library is listed if it was asked for | `JournalAnalysis`, `SbomSource` |
| Window, pages (`HudWindow`) | two pages, two badges with details, the drag flags | clicks, drags, snapshots on a hidden page | a press that ends elsewhere; `isVisibleTo` on a hidden page | what is shown agrees with the flags | `HudPages` |
| Texts and layout of the dashboard, sparkline, formatting, `SecurityStatus`, `DeprecationStatus`, `RuntimeStatus` | widgets, tables | formatting | none | — | not modelled |
| Installers, packaging, site | none | scripts | none | — | not modelled |

How they interact.  `main` creates each source, moves it to a thread of its own
and connects `QThread::started` to its `start()`; snapshots reach the window by
queued signals.  The window writes the fields of a snapshot into `m_alertInput`,
runs the alert engine over all fields, hands new alerts to the notifier and all
active ones to the incident tracker.  The sampler thread is asked to sample by a
timer; it asks the focus provider for a pid and reads `/proc`.  At the end `main`
stops the Docker and Kubernetes sources with a blocking call, quits the sampler's
thread and joins these three; the other threads are left running.  No component shares memory with another except the KDE focus state.

## Modules

| Module | Models | Uses |
|---|---|---|
| `StatusFeed` | what a polling source promises its window: one question at a time, answers only to the question asked, the last answer marked stale after a failure, a bare error only before the first answer, a question asked meanwhile put as soon as that one ends | |
| `DockerStatus` | listings, issues and the crash tracker | |
| `DockerSource` | the Docker source thread, timed | `DockerStatus`, `StatusFeed` by refinement |
| `KubeStatus` | listings of pods and deployments, issues, diagnoses, `kubeDiff` | |
| `KubeSource` | the Kubernetes source thread, untimed, with its timeline | `KubeStatus`, `StatusFeed` by refinement |
| `AlertEngine` | one pass of the rules | |
| `IncidentTracker` | one update of the incidents | |
| `HudAlerts` | the window's alert path: four slots, engine and tracker | `AlertEngine`, `IncidentTracker` |
| `FocusSampling` | processes, focus and one sample in its three reads | |
| `FocusBridge` | from the active window to the answer of `focusedPid()`, on every desktop | |
| `Wiring` | the threads, queues and objects of `main()`, and their end | |
| `HudPages` | the pages, badges and mouse of the window | |
| `ServicesSource`, `JournalSource` | the systemctl and journalctl threads | |
| `SyntheticSource`, `PathSource`, `TlsSource` | rounds over lists of targets | |
| `PgClient` | the PostgreSQL connection and a tick of `DbmSource` | |
| `TraceSource` | the OTLP receiver and its sums | |
| `StatsdSource` | the DogStatsD listener and its series | |
| `SbomSource` | the packages of the focused application | |
| `RateTrackers`, `SloTracker`, `Watchdog` | what is kept from one sample to the next | |
| `ProcessTree`, `JournalAnalysis` | what the tabs make of one snapshot | |
| `Configuration` | `loadConfig` and `validate` | |
| `Desktop` | the three parts between the desktop and the user, one per behaviour | `FocusBridge`, `Wiring`, `HudPages` |
| `Shared` | the variables that several of the fifteen collecting parts use under one name | |
| `Streams` | the instances of six parts and the assumptions on their constants | `SyntheticSource`, `PathSource`, `TlsSource`, `PgClient`, `TraceSource`, `ProcessTree`, `Shared` |
| `Tables` | the same for the other nine | `ServicesSource`, `JournalSource`, `JournalAnalysis`, `StatsdSource`, `SbomSource`, `RateTrackers`, `SloTracker`, `Watchdog`, `Configuration`, `Shared` |
| `Collectors` | the fifteen parts, which share nothing with one another, one per behaviour | `Streams`, `Tables` |
| `DockerSourceProofs`, `KubeSourceProofs`, `HudAlertsProofs`, `FocusSamplingProofs`, `DesktopProofs` | the theorems of the module they are named after | |
| `StreamProofs` | the inductive invariants of the parts of `Streams` | `Streams` |
| `TableProofs` | those of the parts of `Tables`; lemmas on counting, sums, extremes and order statistics | `Tables` |
| `CollectorsProofs` | the theorems of `Collectors`; the totals of `TraceSource`, `StatsdSource` and `JournalAnalysis`, which need lemmas of both | `Collectors`, `StreamProofs`, `TableProofs` |
| `MC…` | model values and symmetry for the runs | |

### DockerSource

One action per slot of the thread; a slot is one action because nothing else of
the object runs while the event loop is in it.  Names follow the code: `Start`,
`Stop`, `OnPollTimeout`, `OnDeadlineTimeout`, `OnKillTimeout`, `OnFinished`;
`OnOverflow` is `onStdout`/`onStderr` once the buffer is past the limit (below it
they only fill the buffer), `OnStartFailure` is `onErrorOccurred(FailedToStart)`.
`OnStarted` and `Tick` are the kernel and the clock.

*Data.* A listing is a kind per container, so parsing is a choice of listing or of
one of the failures.  `lastGood`, `previous` and `crashed` are the code's; `shown`
is the last snapshot emitted, the only thing the window sees.

*Time.* A timer is the number of ticks it has left, or `Off`.  `Tick` waits for
due timers: the thread has nothing else to do, and ordering of due timers among
themselves and against the child is free.  The intervals are small numbers that
keep what the properties depend on: the kill grace is the shortest, an issue is polled
sooner than a healthy listing, and the cap of the retry delay is no doubling of its
start.  The rest of their order does not matter to a property that is checked, and the
proofs take any.

*`beginQuery`* has three ends: no executable, a forked child, or a `QProcess::start`
that reports `FailedToStart` before it returns.  In the third the slot
`onErrorOccurred` has already scheduled the next poll when `beginQuery` arms the
deadline, which therefore fires without a query.

*`stop()`* runs a nested wait: the child's output, exit and start failure are
delivered while it blocks, and it gives up 200 ms after SIGKILL.  The disjuncts of
`Stop` are what the slots can have done in that time.

`StatusFeed` is stated without timers, signals or buffers.  The refinement maps
`running`, `stopping` and `starts` to its phase, `lastGood` to the answer known,
`shown` to the screen and the pending refresh to `waiting`.

### KubeSource

The same slots in code of its own, modelled without a clock: a timer is armed or
not, and an armed one may fire at any moment.  This allows every order the real
intervals allow and more, so what holds here holds for any configuration; the poll
intervals and the retry delay, which only choose the length of a timer, are left
out.  `start()` may come at any moment and any number of times: one that comes during a
query is `AskAgain` of `StatusFeed`, which this source implements as well.  Its phase is
read off the flags (`Phase`), its screen off what was emitted last (`OnScreen`).  `m_lastGood` and
`m_prevResources` always come from the same listing and `m_haveLast` and `m_havePrev`
are set together, so each pair is one variable.

The timeline is a sequence, newest entry first, as in the code; `Recorded` prepends
the changes one by one and trims.  `KubeDiff` keeps the order of the code: pods in the
order of the list, the ones that are gone, then the same for deployments.  Entries
have no date (see the hazards: the code dates all of them 0).

### HudAlerts, AlertEngine, IncidentTracker

A value is never compared after `metricFor` and the threshold, so the input of a rule
is one of three readings: invalid, normal, breach.  `SetSnapshot(source)` is any
of the four slots: it overwrites the readings of its own rules and runs
`evaluateAlerts`, which is one step because the window is single-threaded.
Three fields (`hostMemValid`, `diskValid`, `watchdogValid`) are set and never
cleared; their rules are `Latched` and keep their reading when a snapshot has no
value.  `now` is the wall clock and may jump either way.  Streaks stop counting at
the number of breaches that matters.  `breaches` is history: the breaching
snapshots in a row of the rule's own source.

The incident list is a set of records; ids grow with the position in the list, so
"first open incident of this key" and "the newest resolved ones" are statements
about ids.  The three loops of `update` are `Fold`, `Resolve` and `Trim`.

### FocusSampling

`Spawn`, `Exit` and `Focus` are the system, and may happen between any two of the
three actions of a sample: `SampleFocus` (provider and identity), `PidsFor`
(cached or new group), `Measure` (CPU of each member, and the snapshot).  CPU time
is not a number: a snapshot records whose time was counted, and what the alarms
raised is free.  A process knows its parent and whether it runs the same program
(same executable or name), which is what the climb to the root of a group asks.
A group is discovered in one step; the code reads one link after the other.
`age` is the group's age by the wall clock (`GroupCache.cpp:10-13`), in units of `Elapse`;
`SetClock` sets that clock at any moment, so the age may be negative, and `back` says how far it
was set back since the group was read.  `standIn`, `baseline`, `run`, `back` and
`strange` are history.  `strange` counts, in real time, for how long a pid was measured without
belonging to the focused program, and starts again with a sample whose process is gone when it is published:
such a sample may find the group of whoever took its pid over.  `StrangersAreBrief` counts up to
the moment when a sample looks at the group's age; what the rest of that sample takes comes on top.
The host, disk, TCP and log samples of `buildSnapshot` and a
failing read of the machine's total CPU time are left out.

### FocusBridge

The environment is the desktop: `Activate`, `Exit`, the GNOME extension's `Enable`,
`Disable` and writes, which may fail, and KWin's calls, which arrive in order, some
time later or, before `RegisterService`, nowhere.  The overlay's side keeps every step between
which a thread can be interrupted: `StorePid` and `StoreStamp` in the window's
thread, `LoadPid` and `LoadStamp` in the sampler's.  `AskCommand` starts one of the four
commands, with the process table in front; what it prints is what it sees at some moment of its
run, and `CommandEnds`, up to 0.7 s later, stamps and answers that.  A command that fails or takes
too long gives no pid.

`Elapse` and `SetClock` may come between any two of these steps: a call may wait in the
window's thread for as long as it likes, a read of the two atomics be interrupted, and the wall
clock, which all stamps are taken from, be set back or on.  `now` is the real time.  What an answer
may be late by is therefore the time to live *and* what `late` (the longest wait of a call), `read`
(the length of a read), `CommandTime` and `back` (how far the clock was set back since the stamp)
add to it.  None of these is bounded by the code except the time of a command.  `now`, `back`,
`late`, `lastActive` and the fields of `answer` besides its pid are history.  Reading the clock and
storing what it said is one step.

### Wiring

The phases of `main()` from the creation of the window to the end of its locals.  The
file watcher loses its file with every replacement and finds it again through the
directory; `OnChange` compares the text with the last one and may so see two
changes as none.  `SampleNow` and `SnapshotReady` are the two ends of a sample, so that the file
changes and `quit()` arrives while one is made.  `Apply` is the lambda with the
sequence check.  The shutdown goes thread by thread: ask, quit, join, then the locals
in the reverse order of their declarations.  The periodic tick stands for all ticks
that read something new.

### HudPages

What `isVisibleTo` and `setVisible` do to the widgets is kept as a flag per widget.
`Snap` is `setDockerSnapshot` or `setKubeSnapshot`; `Press`, `MoveFar` and `Release` are the
event filter over a button, `PressBody` the window itself.  A press ends elsewhere
when the window manager took the pointer or when a snapshot hid the button.

### The sources that run a program

`ServicesSource`, `JournalSource`, `SyntheticSource` and `PathSource` have a child, a
timer and the same hole: nothing ends a child that hangs.  Each slot is an action.
`PathSource` and `SyntheticSource` start the next program from within the slots of `QProcess`, and
what becomes of such a start depends on when `QProcess` cleans up after the one before.  That is
not in this repository; the models follow Qt 6, which `CMakeLists.txt` requires:

- A crash: the process is cleaned up first, then `errorOccurred`, then `finished`.  The start from
  `errorOccurred` is taken, the one from `finished` refused (`OnCrash`).  A target is lost, or the
  round ends under the child of its last target; that child's exit then comes between rounds or into
  the next one, which has its own first target refused (`OnTick`).
- A failed start: `errorOccurred(FailedToStart)` comes before the cleaning up, which sweeps away the
  child that the slot has started.  No signal of that child arrives, `m_running` stays set and no
  timer is armed: the source is `Stranded`.  With no target left there is nothing to start, and the
  round ends as it should.

The rounds of `PathSource` go by places in the list, since a target may be listed twice.  `TlsSource` blocks through a round
and is one action per sweep.  A listing or a reply is a choice of its parsed form.

### PgClient, TraceSource, StatsdSource, SbomSource

`PgClient` is a conversation: `wire` is the socket's unread part, `asked` what the server
has yet to answer.  `query()` ends at the first ReadyForQuery or error, so what follows an
error stays on the wire, and what a timeout did not wait for arrives later; either is read as the
answer to the next question, in which messages of no interest are passed over (`OnOther`).
`clean` is history: no call has failed on this connection.
`TraceSource` keys its buffers by the address of a socket, which the allocator may
give out again; its sums go over sets of places in the list of spans.  `StatsdSource` keeps the values that were received as history beside
the series.  `SbomSource` asks for its libraries in chunks and keeps every answer.  `resolve()` waits
for the end of `dpkg-query` and looks at no exit status, so a query that has ended is an answer, also
about the paths it is `silent` on because it crashed or gave up before.

### RateTrackers, SloTracker, Watchdog, Configuration

`RateTrackers` has one action per way to keep a baseline and says which tracker uses
which.  In `SloTracker` and `Watchdog` comparisons of fractions are written with
their denominators multiplied out, so that no rounding is involved; sums over a window go by its
places, quantiles by rank instead of by sorting, and the forecast looks back over `Lookback`
values (60 in the code).  `Configuration`
lists the numeric keys as the code does, in the same groups, with their default,
rule and range; a list of targets goes by its length.

### ProcessTree, JournalAnalysis

`ProcessTree` reads one parent per step, with forks, exits and pid reuse in between;
the walk over the links, the depths and the tree of the dashboard are functions of
what was read: `Ascending`, `Visit` and `Hang` are the code's loops as recursive functions on their
counters, and `Tab` hangs the rows on a stack, one per level, as the dashboard does.  A message of `JournalAnalysis` is what the patterns find in it; the
module keeps the order in which the patterns are tried and the loops over the entries.  Lists
that the code sorts and cuts are any list that is sorted so (`Foremost`), the leaky bucket is the
code's loop over a group of events (`Poured`), counted in units of an event divided by the leak time.

## Runs

| Run | Question | Instance | What it shows |
|---|---|---|---|
| `docker_source` | does a source with one `start()` always go on, and keep its promise to the window? | 1 container, one `start()`, 2,859 states, with fairness | `KillOnlyAsked`, `DataIsNeverDropped`, `ImplementsFeed`; `QueryEnds` and `KeepsPolling` under fairness |
| `docker_restart` | and with a second `start()`, two containers and a child that writes on after SIGTERM? | 2 containers (symmetric), two `start()`, 59,343 states | `TypeOK`, `Supervised`, `AbortedNeverFresh`, `StopIsFinal`, `CrashMarksAreEarned` |
| `docker_issue_interval` | is a shown issue polled at the issue interval? | as `docker_source` | no: finding 1 |
| `kube_source` | is the Kubernetes source supervised, does it keep its promise to the window, and does its timeline agree with the listing? | 1 pod in 4 states, 1 deployment in 2, a timeline of 3, any number of `start()`, 228,791 states | `TypeOK`, `Supervised`, `AbortedNeverFresh`, `TimelineTellsListing`, `NewIssueIsLogged`, `ImplementsFeed` |
| `kube_diagnosis` | is every counted pod explained? | 1 pod with four reasons | no: finding 4 |
| `hud_alerts` | are alerts and incidents kept as documented, whatever the order of snapshots and the clock? | 3 rules of two sources (one latched, one with a streak of 2), 3 clock times, 3 incidents, 1 resolved kept | `TypeOK`, `OneOpenPerRule`, `ActiveHasIncident`, `InvalidIsSilent`, `OpenIsKept` |
| `hud_streak` | does an active alert mean consecutive breaches? | as above, 2 incidents | no: finding 2 |
| `focus_sampling` | was what is shown measured of the process it names? | 2 pids, 3 processes ever started, group age 1, the clock set back by up to 1, streak of 2, 4,092,960 states | `TypeOK`, `AlarmIsSustained`, `YoungNeverCounted`, `NamedIsMeasured`, `StrangersAreBrief` |
| `focus_overlay` | and while the overlay itself has the focus? | as above | no: finding 3 |
| `collectors` | does what a tab shows agree with what its collector was given? | fifteen parts, one per behaviour, 326,966 states, with fairness | `ServiceLogTellsUnits`, `RoundsAreComplete`, `StreamsStayInStep`, `AggregatesTellInputs`, `SbomListsTheAsked`, `RatesCoverTheirTime`, `TreeIsShown`, `ConfigIsUsable`; `SilenceHasACause` under fairness |
| `desktop` | does the focus reach the window, and does the process end? | 2 windows, clock to 3 and up to 1 behind, 2 calls on their way; 3 changes of the file; all of the window, 1,680,013 states, with fairness | `FocusAnswersAreRecent`, `UsesAreAlive`, `HudPagesAgree`; `FocusReachesWindow`, `QuitEnds` under fairness |
| `kde_focus` | is a window followed while it stays active? | 2 windows, clock to 4, never set | no: finding 5 |

In `collectors` and `desktop` a behaviour follows one of the parts, named by `which`,
and leaves the variables of the others alone: the parts neither call nor share
anything, so the run is the sum of their state spaces.  Both allow deadlock, because
a collector that was stopped, a configuration that was read and a process that has ended
do stop.  `NeverStranded`, `IdsAreFresh`, `NotifiedOnce` and `OnlySuccessResetsBackoff` are not
checked by a run: they are proved (below).

Why the bounds are enough.  *Docker*: the retry delay needs two failures to reach
its cap of 5 from 2; one container goes through every pair of kinds, the second
shows that marks do not leak from one to another; a second `start()` is the only
source of a pending refresh, so two are the interesting number.  *Kubernetes*: a
timeline of 3 is shorter than the changes one listing can bring (5), so trimming
within one listing and across two both happen; pod states differ in each of phase,
reason and restarts alone.  *Alerts*: three clock times around a silence of two make
an incident young, just due and overdue and let the clock go back; three incidents
with one resolved kept make the trim remove one while others are open.  *Focus*:
with two pids and three processes one pid must be reused, and the other one can
be its parent, child or stranger.  Three are not enough for everything: that the focused process
exits within a sample, and its pid goes to a child of a former stranger, takes a fourth.  The
case came up in the proof of `StrangersAreBrief`, which holds for any number.  *Desktop*: two windows make one of them the earlier
one, a clock to 3 outlasts both times to live (1 and 1), a step back of 1 and a command of 1, counted
from an activation, and two calls on their way are one more than the slot holds; three changes of the file are
the fewest with which it goes from A to B and back and changes once more.
*Collectors*: logs of 3 against listings of 2 units, so that a listing trims what the one
before left; 2 or 3 targets per round, one of them failing; two ticks of the database, so
that a tick finds what the one before left; 3 requests over 2 connections, so that an address
is used again, with room for 2 spans; three datagrams of lines that share a key
under two types or with two rates; windows of the SLO and the watchdog one shorter than the
samples; two forks among five pids, enough to give a pid out again while links are read; raw values
of a configuration on both sides of every range, two keys at a time, which is
enough for each pair; three journal entries at three times, in any order.

Fairness (`DockerSource`).  Timers and time are weakly fair because the thread is idle
between slots; `OnStarted \/ OnStartFailure` because the kernel reports the result of
an exec; `OnFinished` only once SIGKILL was sent.  Nothing is assumed of a child that was not
killed, of whoever calls `start()` and `stop()`, or of what a query returns.  The
liveness run excludes children that write on after SIGTERM (`Chatty = FALSE`): each
chunk past the limit restarts the kill timer, so an endless stream of output that
never pauses for the grace period would postpone SIGKILL for as long as it lasts.

Fairness (`Collectors`).  The four modules that run a program: their timers, their
start and the kernel's report of an exec are weakly fair; the end of a child is
not, which is the third case of `SilenceHasACause`; the fourth is a source that a failed start has
stranded.  The property also says where that fourth case comes from: nowhere but from a failed start
in `SyntheticSource` or `PathSource` with targets left.

Fairness (`Wiring`).  The event loops of the three threads run the events that wait for
them, and `stop()` of a source returns, which `docker_source` and the proofs of its
supervision support: it waits a bounded time for its child.  Nothing is assumed of the
file, of signals or of the user.

## Proofs

Checked by TLAPS for every value of the constants that satisfies the named
assumptions.

* **`DockerSourceProofs`**.  `TypeCorrect` includes the bounds of the retry delay.
  `NeverStranded` is not inductive: that a finished query leaves a timer depends on
  `running` following the child, on aborting and refresh implying a running query,
  and on nothing being armed after `stop()` or before `start()`.  The conjunction of
  these is `Supervised`, proved in `AlwaysSupervised`, from which `NeverStrandedAlways`,
  `RefreshAlwaysServed`, `AbortedIsNeverFresh` and `StopIsFinalAlways` follow.  The proofs
  go through one lemma per helper (`BeginQueryEffect`, `EndQueryEffect`, `FailQueryEffect`,
  `SucceedQueryEffect`) that says what it leaves behind, then one case per slot.
  `BackoffOnlyReset` assumes `MaxStarts <= 1`: a second `start()` can succeed at resetting
  the delay and fail synchronously in one step.  `KillIsAsked` also assumes
  `KillGraceMs < BackoffStartMs`, which the defaults satisfy: the kill timer of a child
  that failed to start after its deadline is not stopped and must run out before
  the next query.  `SourceImplementsFeed` (`MaxStarts <= 1`) shows that each slot is a step
  of `StatusFeed` or none; it needs `KnownSound` (what is on the screen is what `lastGood` and
  the tracker say), and `DataNeverDropped` follows from both.  `CrashMarksAlwaysEarned` rests on
  `MarksAreDown`: a container that is marked as crashed was not running in the previous listing,
  so the mark of one that runs now cannot be an old one.  The theorem says both directions: when a
mark is set, when it is lost (`MarksOn`), and that a screen with data shows the tracker's
(`MarksAreShown`).
* **`KubeSourceProofs`**.  The same supervision for the Kubernetes source
  (`AlwaysSupervised`), and `AbortedIsNeverFresh`: an aborted query changes neither the
  screen's freshness nor the listing and the timeline.  They use only the flags, so
  they hold for any objects and any timeline length.  `TypesAlwaysHold` adds the data.
  `SourceImplementsFeed` holds without an assumption on the number of `start()` calls: every slot is
  a step of `StatusFeed` or none, one lemma per helper and one case per slot; that a failure shows
  the last listing or a bare error (`FailureShown`) rests on the supervision and on the screen
  agreeing with `m_haveLast`.
  `TimelineAlwaysTellsListing` and `NewIssueIsAlwaysLogged` are about `kubeDiff`, a concatenation
  of one sequence per object.  `FlattenRange` says that its entries are those of the
  sequences, by a well-founded induction on their number (`UpTo`), and `DiffRange` then lists what
  can be found between any two listings.  The invariant `DataInv` has to say more than
  the property: an entry that nothing newer contradicts (`Newest`) holds in the listing, and one of
  a phase or of a readiness also says that its object is still listed (`Holds`).
* **`HudAlertsProofs`**.  The inductive invariant `IncidentInv` is the conjunction of
  `OneOpenPerRule`, `ActiveHasIncident` and `IdsAreFresh`.  The argument follows the
  three loops: `Fold` opens incidents only for rules without an open one and numbers
  them by the rank of their rule, so ids stay distinct and below the counter;
  `Resolve` and `Trim` only close and remove, and never touch an open incident dated
  now.  Each loop has its lemmas about any set of incidents.  From it follow
  `OneOpenAlways`, `ActiveAlwaysHasIncident`, `IdsAlwaysFresh`, and the action properties
  `NotifiedOnceAlways` and `OpenIsAlwaysKept`.  `InvalidAlwaysSilent` needs `Vouched`: the
  input kept for a rule is a breach only while the last snapshot of its own source was one.
* **`FocusSamplingProofs`**.  Two invariants.  `StartsOrdered` orders the start times of
  processes: what the last measure saw started before `baseline`, and the pid being sampled
  belongs to its process, to nobody, or to one that started after `baseline`.  Whoever takes a pid
  over between two reads is therefore recognised: `YoungNeverCountedAlways` and
  `NamedIsMeasuredAlways`.  `StreaksEarned` bounds each streak of the evaluator by the history of
  its process, which gives `AlarmAlwaysSustained`.  `StrangersAlwaysBrief` needs what the walk
  over `/proc` computes: `Reach` as the least closed set (`ReachIn`, `ReachMore`, `ReachBack`), the
  group of a pid as what is reached from the top of its program (`TopHolds`), and how it changes
  when processes exit (`GroupShrinks`: no one joins but who was there) and start (`GroupGrows`).
  `Families` keeps parents alive and older than their children, so the climb ends.
  `StrangersInv` then bounds the time for which a pid has been strange by the age of the group and
what the clock was set back since it was read.
* **`DesktopProofs`**.  One inductive invariant per part.  *Focus* (`AnswersAlwaysRecent`)
  follows a pid on its way.  The calls in KWin's queue were made one after the other, each
  names the window that was active until the next was made, and the last one the active window
  (`Queued`, `Chained`); no call that is stored now or later was made before the stamp, taken back to
  real time by `back`, less `late` (`Floor`); and a pid that was loaded is still active, or its
  successor was stamped since or comes next (`Kept`).  The file names the active window unless a
  write failed (`Filed`), and the cached pid was active at most `CommandTime` before it was
  stamped (`Printed`, `CachedLate`).  The recursive search of Sway's tree is modelled as its result,
  the first container that is focused and has a pid.  *Wiring* (`UsesAlwaysAlive`) has `Ordered`:
  a phase of `main()` implies the joins before it, a sample keeps its thread from finishing, and
  the objects are all there until the last join.  *Pages* (`HudPagesAlwaysAgree`) has
  `PagesShown`, `BadgesAgree` (each badge, also while the other page hides it) and
  `PressesAgree`: a press of a button is pending until its release and drags since the pointer left
  it, and the window is never moved by itself and by the window manager at once.
* **`StreamProofs`**, the invariants behind `StreamsAlwaysInStep`, `RoundsAlwaysComplete` and
  `TreeAlwaysShown`.  *Database*, `PostgresInv`: while nothing has failed, the
  question waited for is the only one on its way, either unanswered or answered by what is on
  the wire, which ends with its only ReadyForQuery (`InStep`), and what was read belongs to
  what it is filed under (`Own`).  Whatever has failed, a row on
  the wire is followed by more of its own reply, and what a call has read so far by the rest of that
  reply (`Whole`), so what one call returns is of one question.  *Traces*, `TracesInv`: a buffer holds what its own connection
  has sent until the body is whole, so an address that comes back finds an empty one
  (`BuffersInStep`); that trimming keeps the end of the list of spans, however often it is done
  (`KeptIsEnd`, `KeptOfKept`), gives `SpansComeOnce`.
  *Rounds*: `ProbeRunNext` and `PathRunNext` say what one call of `runNext` keeps, whichever slot
  makes it.  In `PathInv` the part `Progress` says that every place before the current one was tried, in
  order and once, or was lost to one of the crashes counted, and that reports come from tried ones or,
  after a crash, from the child that outlived the round before.  A sweep of
  `TlsSource` is one step, and its summary the least of the days left (`SummaryAgrees`).
  *Tree*: as long as no pid is given out again, every link that was read leads from a pid to one of
  lower rank, whatever the kernel has moved since (`TreeInv`: some `rank` falls along all of
  them, `KernelIsTree` keeps the kernel's own links a tree).  With ranks the walk never comes to a pid twice, so it
  ends (`WalkGoesOn`, `TreeIsWalked`); the tab's loop keeps a stack with the last row of each level
  (`StackReaches`), and each row is hung below one of them (`TabIsHung`).  Loops are handled by
  `LoopValues`: a recursive function on the counter of a loop has the values of its steps.
* **`TableProofs`**.  *Rates* (`RatesAlwaysCoverTheirTime`): `RatesInv` says of the baseline of
  each key, and of the total, that a counter is not ahead of it by more than was moved since it
  was read (`Fair`), through counters that vanish, come back and start again.  *Libraries*
  (`SbomAlwaysListsTheAsked`): what is kept of a path is the answer its one
  query got, silence included (`AllAsked`), and the last report is the one of what is known (`Reported`).  *Configuration*
  (`ConfigAlwaysUsable`): the tables are sound (defaults in their ranges, the two of a pair
  with the same range and no second that is a first); a validated configuration is in range and
  in order, and validation changes nothing that is.  *Services*
  (`ServiceLogAlwaysTellsUnits`): the entries of a unit in the log form a chain, each one ending in
  the state where the next newer begins, and the newest in the state listed (`Leads`).  A
  chain survives both a new listing, whose entries begin in the states listed before
  (`DiffTellsUnits`), and the trimming of its old end (`LoggedLeads`).
  *Journal* (`JournalAlwaysPartitions`): a group is determined by its fingerprint
  (`GroupIsItsPrint`), so the groups are disjoint classes of the errors and their sizes add up
  (`SumOfClasses`).  *SLO* (`SloAlwaysTellsHistory`): what is kept is an end of the history, and what was
  dropped is older than the window before some sample, whichever way the clock went
  (`KeptAfter`, `PrunedIsEnd`); a window of the one is then the window of the other (`WindowIsKept`).
  *Watchdog* (`WatchdogAlwaysFair`): the z-score, the residual and the line depend on a few
  sums, and adding a number to all values or changing all signs changes these in ways that cancel
  out (`ShiftedSums`, `MirroredSums`); for quantiles the value of a rank moves with its values
  (`RankedShifted`), or changes to the opposite rank (`RankedMirrored`), and the rank exists and is
  unique (`RankedExists`, `RankedOnce`).  Sums over finite sets are handled by their defining
  recursion on the set (`SumStep`), by well-founded induction on its subsets (`SumLinear`, `SumAtMost`).
* **`CollectorsProofs`**.  Each theorem of `Collectors` from the invariants above: a behaviour
  follows one part, and `which` never changes.  The last part of `AggregatesAlwaysTell` is made of three
  more.  *Trace totals* (`TraceTotalsAlwaysAgree`): the tables classify the same places of the list of
  spans (`ServiceTotals`, `RecentTotals`); the invariant has what is shown at the summary of spans
  with times (`SpansAreTimed`).  *DogStatsD* (`StatsdAlwaysTellsHistory`): `StatsdInv` says of every
  key what its series is in terms of the history, while it keeps to one type, and what its set has seen, whatever its type (`Told`, `SetSeen`);
  a datagram is a loop over its lines (`DatagramKeeps`), a line one over its values
  (`ValuesAreSampled`), and `LineAdded` says how the reference changes by one line.
  *Cards* (`AnalysisAlwaysTells`): for threats, as long as a bucket has not been full its level is `Filled`,
  the greatest of what came less what leaked since each earlier event (`FilledGrows`, by splitting off
  the newest event), and the first time it is full is the one that is reported (`BucketTells`,
  `PouredTells`); the key of a finding names its scenario (`FindingsOfKeys`).  Secrets are counted in
  disjoint classes by rule, each with its first line and place (`FirstLineIs`).
  Facets rest on the existence of a sorted list of the foremost of a finite set
  (`TurnsExist`, `ForemostIs`), which the recent traces use too.

Assumptions, each evaluated by TLC on the runs: `ConfigAssumption` (what `validate()` leaves of
a configuration), `RulesAssumption`, `IncidentAssumption`, `HudAssumption`, `StatesAssumption`,
`TimelineAssumption`, `SamplingAssumption`, `DesktopAssumption` (pids are positive, times to live
are natural numbers, a desktop has finitely many windows), `RoundsAssumption` (targets are lists),
`StreamsAssumption` (lengths and counts are natural numbers, times whole ones), `TreeAssumption`
(finitely many pids, positive, init's and the root's among them), `ServicesAssumption` (finitely many
units, a log of some length), `TablesAssumption` (mapped files are lists, what a file holds are
whole numbers), `JournalAssumption` (a listing has a greatest length), `StatsdAssumption` (values and
scales are whole numbers; what has no value is no metric), `SloAssumption` (windows are natural
numbers, times whole ones), `WatchdogAssumption` (windows of at least one value, whole values) and
`AnalysisAssumption` (a bucket holds something and leaks it in some time, times are whole numbers,
what the patterns find in a message are lists).

## Findings

1. **A crashed container is polled at the healthy pace** (`docker_issue_interval`).
   `onFinished` counts issues before the tracker marks the crash
   (`DockerSource.cpp:214`, `:227`), so the interval is `healthyMs` while the badge
   shows an issue.
2. **One breach becomes a sustained alert** (`hud_streak`).  `evaluateAlerts` runs for
   every snapshot of four sources over retained values, so `sustained` "consecutive
   breaches" (`AlertEngine.h:13`) are reached by one sample and the snapshots of
   others.
3. **The last application is not looked up again under the overlay**
   (`focus_overlay`).  While the overlay has the focus `FocusSampler` answers the last
   identity without asking `/proc`; when its process has exited and the pid was
   reused, the new process is measured under the old name.
4. **A counted pod issue without a diagnosis** (`kube_diagnosis`).  `kubeDiagnose` has no
   case for a running pod with the reason `Error` nor for the phase `Unknown`, both of
   which `kubePodIsIssue` counts: the badge says one issue, the card "no problems
   detected".
5. **KDE loses a window that stays active** (`kde_focus`).  The KWin script publishes a pid
   when a window is activated and never again; `KdeFocusProvider.cpp:28` answers none once
   that is longer ago than its time to live of five seconds.  `README.md:24`: "Syspeek
   follows the window you're using"; `README.md:171` lists KDE among the desktops it works on.

## What is not modelled, or only checked

*Only model-checked.*  Liveness: `QueryEnds`, `KeepsPolling`, `SilenceHasACause`,
`FocusReachesWindow` and `QuitEnds` depend on fairness and on what is enabled, which TLAPS does not
reason about.  Every other property of a passing run is stated by a theorem, of which
`BackoffOnlyReset`, `DataNeverDropped` and the Docker source's `SourceImplementsFeed` assume one
`start()`, as `main` makes, and `KillIsAsked` that the grace is
shorter than the first retry delay.  To make this possible the modules avoid the operators the
provers know nothing of (`SelectSeq`, `SortSeq`, `:>`, `@@`): what the code selects is a set of places,
what it sorts is any list in that order, a loop is a recursive function on its counter, and an
induction uses the well-founded order of the naturals or of the subsets of a finite set.

*Not modelled.*  Texts, layout and the parsing of replies; `SecurityStatus`,
`DeprecationStatus`, `RuntimeStatus` and `CostModel`, which are tables and formulas without
state; memory, cgroup and latency figures; the tray, the single instance lock, the
window's geometry.

*Left out of a module on purpose*, and worth knowing when reading it:

- `FocusReachesWindow` rests on the periodic timer: the watcher takes a file that goes from
  A to B and back to A between two of its calls for unchanged, and does so with the
  first removal of the file too, because its last text starts empty.
- `Wiring` ends with eight threads of sources still running.  They use no object of `main`,
  and what they send to the window is dropped with it.  The window is a `Qt::Tool`, so closing it
  does not end the application; a signal does.
- `SloTellsHistory` leaves out burn windows longer than what is kept: with `window_hours` below 72
  the window called "3d" is cut short.
- `ProcessTree`: `TreeIsShown` is said of snapshots during which no pid was given out again;
  with one, the links can close a cycle, and `orderedTree` has no set of visited pids.  The rows come level by level and the dashboard hangs each below the
  last row of the level above, so cousins can appear under the wrong parent (the tree
  1→{2,3}, 2→4 of `test_group.cpp` would show 4 under 3).  The property speaks of rows
  and depths; which rows are folded is not modelled.
- The metric store is not emptied when the focus moves: the watchdog's window mixes
  applications.
- `JournalAnalysis` keeps the order of the formats: logfmt comes before the expressions, so a web
  server's line with `?a=b` counts as logfmt; card numbers are 16 digits long by their expression,
  whatever the check of 13 to 19 allows; the scenario of enumerated users groups by
  source and user.
- A connection of `PgClient` on which a call has failed is out of step until it is opened
  again: `AnswersAreOwn` then only says that the rows shown together answer one question, which need
  not be the one they are shown under.  The other queries of the same tick use that connection.
- A target whose `curl` or `mtr` fails to start, with another one after it, silences `SyntheticSource`
  or `PathSource` for good (above); after a crash `PathSource` leaves a target out.  No test or
  document of the repository speaks of either, and both rest on when Qt 6 cleans up.
- `dpkg-query` is asked once about a path.  If it crashes or stops in the middle, the paths it was
  silent on count as belonging to no package until the overlay is started again;
  `SbomListsTheAsked` says so, and that a query that does not end settles nothing.
- A wall clock that is set back makes what is stamped with it fresh for longer, by as much: the
  group of `GroupCache`, the pid of `KdeFocusProvider` and the one of `CachingFocusProvider`.
- A container that goes from running to restarting and then to an error exit, in three listings, gets
  no crash mark: the tracker compares with the last listing only.

## Plan

Done: every component of the inventory that keeps state has a module, and every safety
property that is checked is proved.  What would come next:

1. A feed without a deadline, as the abstraction of `ServicesSource` and `JournalSource`.
2. `SecurityStatus` and `DeprecationStatus` as tables checked for rules that hide one another.
