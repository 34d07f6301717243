-------------------------------- MODULE Wiring --------------------------------
(***************************************************************************)
(* main(): what the GUI thread, the sampler's thread and the source threads *)
(* do to one another from the start to the end of the process.  On GNOME a  *)
(* file watcher asks for an extra sample when the pid file has changed; the *)
(* samples come back through the GUI thread's queue.  At the end two        *)
(* sources are stopped and joined, then the sampler.  (The eight other       *)
(* threads are left running: they use no object of main(), and Qt drops     *)
(* what they send to a window that is gone.  They are not modelled here.)    *)
(*                                                                         *)
(* The periodic tick that would read what the sample before it has read is  *)
(* left out, so that sequence numbers stay few.                             *)
(***************************************************************************)
EXTENDS Integers, SequencesExt

CONSTANTS
    Pids,          \* what the pid file can contain
    MaxWrites      \* bound on the changes of the file

VARIABLES
    phase,         \* where main() is
    signalled,     \* bytes in the socket pair of the signal handler
    objects,       \* the local objects of main() that exist
    threads,       \* of "docker", "kube" and "sampler": "running", "asked" (a stop
                   \* is in its queue), "stopped", "quitting" or "finished"
    file, writes,  \* external: the pid file's contents, {} for none; its changes
    dirEvent, fileEvent,   \* notifications of the watcher in the GUI's queue
    watched,       \* the file is in watcher->files()
    lastRaw,       \* lastRaw, {} for the empty text
    requests,      \* sampleNow calls in the sampler's queue
    reading,       \* what the sample in progress has read: {} or {the file}
    lastRead,      \* what the last sample read
    sequence,      \* SamplerWorker::m_sequence
    inbox,         \* snapshots in the GUI's queue, oldest first
    lastSequence,
    shown          \* the file as the window shows it

process == <<phase, signalled, objects, threads>>
watcher == <<file, writes, dirEvent, fileEvent, watched, lastRaw>>
sampling == <<requests, reading, lastRead, sequence>>
window == <<inbox, lastSequence, shown>>
vars == <<process, watcher, sampling, window>>

Init ==
    /\ phase = "boot" /\ signalled = 0
    /\ objects = {"app", "hud", "provider"}
    /\ threads = [docker |-> "running", kube |-> "running", sampler |-> "running"]
    /\ file \in {{}} \cup {{p} : p \in Pids} /\ writes = 0
    /\ dirEvent = FALSE /\ fileEvent = FALSE
    /\ watched = (file # {}) /\ lastRaw = {}
    /\ requests = 1 /\ reading = {} /\ lastRead = {} /\ sequence = 0
    /\ inbox = <<>> /\ lastSequence = 0 /\ shown = {{}}

-----------------------------------------------------------------------------
(* The GNOME extension replaces the file or removes it; the watch of the     *)
(* file goes with the old file.                                             *)
Write ==
    /\ writes < MaxWrites /\ phase \in {"boot", "exec"}
    /\ writes' = writes + 1
    /\ \E contents \in ({{}} \cup {{p} : p \in Pids}) \ {file} : file' = contents
    /\ dirEvent' = TRUE
    /\ fileEvent' = (fileEvent \/ watched) /\ watched' = FALSE
    /\ UNCHANGED <<process, lastRaw, sampling, window>>

\* onChange and refreshIfChanged: a sample is asked for when the text is
\* another one than at the last notification.
OnChange ==
    /\ phase = "exec" /\ (dirEvent \/ fileEvent)
    /\ \/ dirEvent /\ dirEvent' = FALSE /\ UNCHANGED fileEvent
       \/ fileEvent /\ fileEvent' = FALSE /\ UNCHANGED dirEvent
    /\ lastRaw' = file /\ watched' = (watched \/ file # {})
    /\ requests' = IF file = lastRaw THEN requests ELSE requests + 1
    /\ UNCHANGED <<process, file, writes, reading, lastRead, sequence, window>>

-----------------------------------------------------------------------------
(* The sampler's thread.  It takes no event after quit(). *)

SamplerFree == threads.sampler = "running" /\ reading = {}

\* sampleNow, from the queue or by the timer: the provider reads the file.
SampleNow ==
    /\ SamplerFree
    /\ \/ requests > 0 /\ requests' = requests - 1
       \/ requests = 0 /\ lastRead # {file} /\ UNCHANGED requests
    /\ reading' = {file}
    /\ UNCHANGED <<process, watcher, lastRead, sequence, window>>

\* The end of sampleNow: the snapshot is numbered and queued.
SnapshotReady ==
    /\ reading # {} /\ reading' = {} /\ lastRead' = reading
    /\ sequence' = sequence + 1
    /\ inbox' = IF "hud" \in objects
                THEN Append(inbox, [sequence |-> sequence + 1, reads |-> reading]) ELSE inbox
    /\ UNCHANGED <<process, watcher, requests, lastSequence, shown>>

\* A mutant: the first snapshot has to be newer than the newest.
ApplyLater ==
    /\ phase = "exec" /\ inbox # <<>> /\ inbox' = Tail(inbox)
    /\ IF Head(inbox).sequence <= lastSequence + 1 THEN UNCHANGED <<lastSequence, shown>>
       ELSE lastSequence' = Head(inbox).sequence /\ shown' = Head(inbox).reads
    /\ UNCHANGED <<process, watcher, sampling>>

\* The slot in the GUI thread.
Apply ==
    /\ phase = "exec" /\ inbox # <<>> /\ inbox' = Tail(inbox)
    /\ IF Head(inbox).sequence <= lastSequence THEN UNCHANGED <<lastSequence, shown>>
       ELSE lastSequence' = Head(inbox).sequence /\ shown' = Head(inbox).reads
    /\ UNCHANGED <<process, watcher, sampling>>

-----------------------------------------------------------------------------
(* The process *)

\* SIGINT, SIGTERM or SIGHUP, at any time after the handlers are set.
Signal ==
    /\ signalled = 0 /\ phase \in {"boot", "exec"}
    /\ signalled' = 1
    /\ UNCHANGED <<phase, objects, threads, watcher, sampling, window>>

Exec ==
    /\ phase = "boot"
    /\ phase' = "exec"
    /\ UNCHANGED <<signalled, objects, threads, watcher, sampling, window>>

\* A mutant: a signal of the time before exec() has been forgotten.
OnSignalInExec ==
    /\ phase = "exec" /\ signalled > 0
    /\ signalled' = 0
    /\ phase' = IF sequence = 0 THEN "exec" ELSE "docker"
    /\ UNCHANGED <<objects, threads, watcher, sampling, window>>

\* The socket notifier: app.quit(), and exec() returns.
OnSignal ==
    /\ phase = "exec" /\ signalled > 0
    /\ signalled' = 0 /\ phase' = "docker"
    /\ UNCHANGED <<objects, threads, watcher, sampling, window>>

\* invokeMethod(stop, BlockingQueuedConnection), then quit() and wait().
AskStop(t) ==
    /\ phase = t /\ t # "sampler" /\ threads[t] = "running"
    /\ threads' = [threads EXCEPT ![t] = "asked"]
    /\ UNCHANGED <<phase, signalled, objects, watcher, sampling, window>>

Quit(t) ==
    /\ phase = t /\ threads[t] = (IF t = "sampler" THEN "running" ELSE "stopped")
    /\ threads' = [threads EXCEPT ![t] = "quitting"]
    /\ UNCHANGED <<phase, signalled, objects, watcher, sampling, window>>

After == [docker |-> "kube", kube |-> "sampler", sampler |-> "destroy"]

\* A mutant: the sampler's thread is not waited for.
JoinEarly(t) ==
    /\ phase = t /\ threads[t] \in {"quitting", "finished"}
    /\ phase' = After[t]
    /\ UNCHANGED <<signalled, objects, threads, watcher, sampling, window>>

Join(t) ==
    /\ phase = t /\ threads[t] = "finished"
    /\ phase' = After[t]
    /\ UNCHANGED <<signalled, objects, threads, watcher, sampling, window>>

\* The thread's side: the slot stop() ends, then the thread does, between two
\* events.
StopReturns(t) ==
    /\ threads[t] = "asked"
    /\ threads' = [threads EXCEPT ![t] = "stopped"]
    /\ UNCHANGED <<phase, signalled, objects, watcher, sampling, window>>

Finish(t) ==
    /\ threads[t] = "quitting" /\ (t = "sampler" => reading = {})
    /\ threads' = [threads EXCEPT ![t] = "finished"]
    /\ UNCHANGED <<phase, signalled, objects, watcher, sampling, window>>

\* The locals of main() in the reverse order of their declarations.
Destroy ==
    /\ phase = "destroy"
    /\ objects' = objects \ {IF "provider" \in objects THEN "provider"
                             ELSE IF "hud" \in objects THEN "hud" ELSE "app"}
    /\ phase' = IF objects' = {} THEN "gone" ELSE phase
    /\ inbox' = IF "hud" \in objects' THEN inbox ELSE <<>>
    /\ UNCHANGED <<signalled, threads, watcher, sampling, lastSequence, shown>>

Shutdown ==
    \/ Exec \/ OnSignal \/ Destroy
    \/ \E t \in DOMAIN threads : AskStop(t) \/ Quit(t) \/ Join(t) \/ StopReturns(t) \/ Finish(t)

Next ==
    \/ Write \/ OnChange \/ SampleNow \/ SnapshotReady \/ Apply
    \/ Signal \/ Shutdown

-----------------------------------------------------------------------------
(***************************************************************************)
(* No thread uses an object of main() after its end: the sampler, which     *)
(* reads through the provider, has finished when the provider goes, and     *)
(* nothing waits in the window's queue when the window does.                *)
(***************************************************************************)
UsesAreAlive ==
    /\ reading # {} => "provider" \in objects
    /\ inbox # <<>> => "hud" \in objects
    /\ phase = "gone" => \A t \in DOMAIN threads : threads[t] = "finished"

(***************************************************************************)
(* What the file says last is what the window shows in the end, whichever   *)
(* of the periodic and the extra samples read it, or one between two        *)
(* changes that the watcher saw as none.                                    *)
(***************************************************************************)
FocusReachesWindow == <>[](shown = {file}) \/ <>(phase \notin {"boot", "exec"})

(***************************************************************************)
(* A signal ends the process, whenever it comes after the handlers were     *)
(* set, with the threads in whatever they do.                               *)
(***************************************************************************)
QuitEnds == (signalled > 0) ~> (phase = "gone")

\* The three threads run their events; the source threads' stop() returns
\* (DockerSource and KubeSource wait for their child a bounded time).
Fairness ==
    /\ WF_vars(OnChange) /\ WF_vars(SampleNow) /\ WF_vars(SnapshotReady) /\ WF_vars(Apply)
    /\ WF_vars(Shutdown)

Spec == Init /\ [][Next]_vars /\ Fairness
=============================================================================
