------------------------------ MODULE FocusBridge ------------------------------
(***************************************************************************)
(* From the desktop's active window to the answer of focusedPid().  KWin's  *)
(* script calls a D-Bus slot of the overlay at every activation, which       *)
(* stores the pid and the time in two atomics; the GNOME extension writes a  *)
(* file; the other compositors are asked by running their command, and the   *)
(* last pid bridges a time without an answer.  The desktop, the GUI thread   *)
(* and the sampler's thread take turns between any two of these steps, time  *)
(* passes between them too, and the wall clock they read may be set.         *)
(***************************************************************************)
EXTENDS Integers, SequencesExt, FiniteSetsExt

CONSTANTS
    Windows,     \* the pids that have windows, positive
    KdeTtl,      \* KdeFocusProvider::m_ttlMs, 5 s
    CacheTtl,    \* CachingFocusProvider::m_ttlMs, 1.5 s
    CommandTime, \* kStartTimeoutMs + kFinishTimeoutMs of the commands, 0.7 s
    MaxNow,      \* bound on the time
    MaxOff,      \* bound on how far the wall clock is behind
    MaxCalls     \* bound on the D-Bus calls on their way

VARIABLES
    desktop,     \* the provider that was selected
    active,      \* external: the pid of the active window, 0 for none
    alive,       \* external: the processes that exist
    lastActive,  \* history: when each pid had the active window for the last time
    now,         \* history: the real time
    wall,        \* external: QDateTime::currentMSecsSinceEpoch()
    back,        \* history: how far it was set back, on balance, since the last stamp
    calls,       \* external: D-Bus calls of the KWin script, and when it made them
    registered,  \* registerService() has exported the slot
    half,        \* the call of which setFocusedPid has stored the pid, not yet the time
    late,        \* history: the longest that any call took to be stamped
    state,       \* KdeFocusState: [pid, stamp]
    file,        \* external: the pid file's contents, {} while it does not exist
    enabled,     \* external: the extension is
    unwritten,   \* history: the last write of the extension failed
    printing,    \* external: what the running command has printed, and when
    cached,      \* CachingFocusProvider: [pid, at]
    loaded,      \* the pid KdeFocusProvider has read, not yet the time, and when
    answer       \* what focusedPid() answers in this step, {} in any other

clock == <<now, wall, back>>
world == <<desktop, active, alive, lastActive>>
kde == <<calls, registered, half, late, state, loaded>>
extension == <<file, enabled, unwritten>>
command == <<printing, cached>>
vars == <<clock, world, kde, extension, command, answer>>

NoPid == -1

-----------------------------------------------------------------------------
(* FocusProviderFactory *)

Sessions ==
    [wayland : BOOLEAN, display : BOOLEAN,
     names : {{n} : n \in {"gnome", "kde", "plasma", "hyprland", "sway", "niri"}} \cup
             {{}, {"gnome", "kde"}, {"sway", "hyprland"}},
     sockets : SUBSET {"hyprland", "sway", "niri"}]

\* selectProviderKind: the first that applies, by the desktop's names and then
\* by the sockets that exist.
SelectProviderKind(info) ==
    LET order == <<"gnome", "kde", "hyprland", "sway", "niri">>
        names == info.names \cup (IF "plasma" \in info.names THEN {"kde"} ELSE {})
        First(found) == order[Min({i \in DOMAIN order : order[i] \in found})]
        known == names \cap ToSet(order)
    IN  CASE info.wayland /\ known # {}                    -> First(known)
          [] info.wayland /\ known = {} /\ info.sockets # {} -> First(info.sockets)
          [] ~info.wayland /\ info.display                 -> "xdotool"
          [] OTHER                                         -> "null"

\* createFocusProvider: those that run a command are wrapped in a cache.
Commands == {"hyprland", "sway", "niri", "xdotool"}

\* A stamp of 0, which is 1970, however the clock is set.
LongAgo == 0 - (MaxOff + KdeTtl + 1)

Init ==
    /\ \E info \in Sessions : desktop = SelectProviderKind(info)
    /\ active \in Windows \cup {0} /\ alive = Windows
    /\ lastActive = [p \in Windows |-> IF p = active THEN 0 ELSE -100]
    /\ now = 0 /\ wall \in (now - MaxOff) .. now /\ back = 0
    /\ calls = <<>> /\ registered = FALSE /\ half = {} /\ late = 0
    /\ state = [pid |-> NoPid, stamp |-> LongAgo]
    /\ file = {} /\ enabled = FALSE /\ unwritten = FALSE
    /\ printing = {} /\ cached = [pid |-> NoPid, at |-> LongAgo]
    /\ loaded = {} /\ answer = {}

-----------------------------------------------------------------------------
(* The desktop *)

\* main.js, onActivated and publish; a call nobody serves is lost.
Published(p) == IF registered THEN Append(calls, [pid |-> p, made |-> now]) ELSE calls

\* _writeFocusedPid: a file with the pid, or none; the write may fail.
WriteFocusedPid(p) ==
    \/ file' = (IF p > 0 THEN {p} ELSE {}) /\ unwritten' = FALSE
    \/ UNCHANGED file /\ unwritten' = TRUE

Moved(to) ==
    /\ active' = to
    /\ lastActive' = [p \in Windows |-> IF p = active THEN now ELSE lastActive[p]]
    /\ IF desktop = "kde" THEN calls' = Published(to) ELSE UNCHANGED calls
    /\ IF enabled THEN WriteFocusedPid(to) ELSE UNCHANGED <<file, unwritten>>
    /\ UNCHANGED <<clock, desktop, registered, half, late, state, loaded, enabled, command>>

\* Another window, or none, is activated.
Activate(p) ==
    /\ p # active /\ p \in alive \cup {0} /\ Len(calls) < MaxCalls
    /\ Moved(p)
    /\ answer' = {} /\ UNCHANGED alive

\* A process exits; with the active window the focus goes too.
Exit(p) ==
    /\ p \in alive /\ Len(calls) < MaxCalls
    /\ alive' = alive \ {p}
    /\ IF p = active THEN Moved(0)
       ELSE UNCHANGED <<clock, kde, extension, desktop, active, lastActive, command>>
    /\ answer' = {}

\* enable() writes the window that is active then.
Enable ==
    /\ desktop = "gnome" /\ ~enabled
    /\ enabled' = TRUE /\ WriteFocusedPid(active)
    /\ answer' = {} /\ UNCHANGED <<clock, world, kde, command>>

\* disable() removes the file (the screen is locked); no write until enable().
Disable ==
    /\ enabled
    /\ enabled' = FALSE /\ file' = {} /\ unwritten' = FALSE
    /\ answer' = {} /\ UNCHANGED <<clock, world, kde, command>>

\* Time passes at any moment; a command is killed when its time is over.
Elapse ==
    /\ now < MaxNow /\ \A c \in printing : now - c.at < CommandTime
    /\ now' = now + 1 /\ wall' = wall + 1
    /\ answer' = {} /\ UNCHANGED <<back, world, kde, extension, command>>

\* The wall clock is set, back or on.
SetClock ==
    /\ wall' \in (now - MaxOff) .. now /\ wall' # wall
    /\ back' = back + (wall - wall')
    /\ answer' = {} /\ UNCHANGED <<now, world, kde, extension, command>>

-----------------------------------------------------------------------------
(* The overlay's GUI thread: KdeFocusService *)

RegisterService ==
    /\ desktop = "kde" /\ ~registered
    /\ registered' = TRUE /\ answer' = {}
    /\ UNCHANGED <<clock, world, extension, command, calls, half, late, state, loaded>>

\* setFocusedPid: the pid, then the time, which is that of the slot.
StorePid ==
    /\ calls # <<>> /\ half = {}
    /\ half' = {Head(calls)} /\ calls' = Tail(calls)
    /\ state' = [state EXCEPT !.pid = IF Head(calls).pid > 0 THEN Head(calls).pid ELSE NoPid]
    /\ answer' = {} /\ UNCHANGED <<clock, world, extension, command, registered, late, loaded>>

StoreStamp ==
    /\ \E c \in half : late' = Max({late, now - c.made})
    /\ half' = {} /\ state' = [state EXCEPT !.stamp = wall] /\ back' = 0
    /\ answer' = {}
    /\ UNCHANGED <<now, wall, world, extension, command, calls, registered, loaded>>

-----------------------------------------------------------------------------
(* The sampler's thread: focusedPid() *)

\* An answer, with how long its window has not been the active one and how
\* long the read has taken, whether the extension wrote what it should, and
\* whether KWin has told the overlay which window is active.
Answer(p, read) ==
    answer' = {[pid |-> p,
                age |-> IF p \in Windows \ {active} THEN now - lastActive[p] ELSE 0,
                read |-> read, written |-> ~unwritten,
                known |-> half = {} /\ active > 0 /\ state.pid = active]}

\* KdeFocusProvider::focusedPid loads the pid ...
LoadPid ==
    /\ desktop = "kde" /\ loaded = {}
    /\ IF state.pid <= 0 THEN Answer(NoPid, 0) /\ UNCHANGED loaded
       ELSE loaded' = {[pid |-> state.pid, at |-> now]} /\ answer' = {}
    /\ UNCHANGED <<clock, world, extension, command, calls, registered, half, late, state>>

\* ... and then the time.
LoadStamp ==
    /\ \E l \in loaded :
          Answer(IF wall - state.stamp > KdeTtl THEN NoPid ELSE l.pid, now - l.at)
    /\ loaded' = {}
    /\ UNCHANGED <<clock, world, extension, command, calls, registered, half, late, state>>

\* GnomePidFileProvider: the process must exist.
ReadPidFile ==
    /\ desktop = "gnome"
    /\ Answer(IF file \subseteq alive /\ file # {} THEN Max(file) ELSE NoPid, 0)
    /\ UNCHANGED <<clock, world, kde, extension, command>>

\* A command that does not start in 200 ms, does not end in 500 ms (and is
\* killed) or fails gives no pid, nor does a process that does not exist then.
Run(printed) == {NoPid} \cup (printed \cap alive)

\* `hyprctl activewindow -j`
AskHyprctl == {active}

\* findFocusedPid, over the containers in the order of the tree: the first
\* that is focused and has a pid (an empty workspace is focused without one).
FindFocusedPid(tree) ==
    LET Found(i) == tree[i].focused /\ tree[i].pid > 0
    IN  {tree[i].pid : i \in {j \in DOMAIN tree : Found(j) /\ \A k \in 1..(j - 1) : ~Found(k)}}

SwayTree ==
    <<[focused |-> active = 0, pid |-> 0]>> \o
    SetToSeq({[focused |-> p = active, pid |-> p] : p \in alive})

\* `swaymsg -t get_tree`
AskSwaymsg == FindFocusedPid(SwayTree)

\* `niri msg --json focused-window`, null without one
AskNiri == {active}

\* `xdotool getwindowfocus getwindowpid`, one number
AskXdotool == {active}

Asked ==
    CASE desktop = "hyprland" -> AskHyprctl [] desktop = "sway" -> AskSwaymsg
      [] desktop = "niri" -> AskNiri [] desktop = "xdotool" -> AskXdotool

\* A mutant: a repeated answer counts as a new one.
CachedRenewing(p) ==
    LET again == cached.pid > 0 /\ wall - cached.at <= CacheTtl
    IN  IF p > 0 THEN [pid |-> p, at |-> wall]
        ELSE [pid |-> IF again THEN cached.pid ELSE NoPid, at |-> wall]

\* CachingFocusProvider::focusedPid: what is cached after the inner answer p,
\* which is also what is answered.
Cached(p) ==
    LET again == cached.pid > 0 /\ wall - cached.at <= CacheTtl
    IN  IF p > 0 THEN [pid |-> p, at |-> wall]
        ELSE [pid |-> IF again THEN cached.pid ELSE NoPid, at |-> cached.at]

\* The command is started, and prints which window is active at some moment.
AskCommand ==
    /\ desktop \in Commands /\ printing = {}
    /\ printing' = {[pids |-> Asked, at |-> now]}
    /\ answer' = {} /\ UNCHANGED <<clock, world, kde, extension, cached>>

\* It has ended, or is killed, and its answer is stamped with the time it is now.
CommandEnds ==
    /\ printing' = {}
    /\ \E c \in printing : \E p \in Run(c.pids) :
          /\ cached' = Cached(p)
          /\ back' = IF p > 0 THEN 0 ELSE back
    /\ Answer(cached'.pid, 0)
    /\ UNCHANGED <<now, wall, world, kde, extension>>

Next ==
    \/ Enable \/ Disable \/ Elapse \/ SetClock \/ RegisterService \/ StorePid \/ StoreStamp
    \/ LoadPid \/ LoadStamp \/ ReadPidFile \/ AskCommand \/ CommandEnds
    \/ Activate(0) \/ \E p \in Windows : Activate(p) \/ Exit(p)

Spec == Init /\ [][Next]_vars

-----------------------------------------------------------------------------
(***************************************************************************)
(* An answer names a window that was active not long ago.  From a command:   *)
(* at most the time to live ago, and as much longer as a command may run and *)
(* as the wall clock was set back since the pid was stamped, although a      *)
(* command that fails repeats what was said before.  On KDE: the time to     *)
(* live and what the clock was set back, or the time the read took, and the  *)
(* longest that a call of the script has waited to be stamped, although the  *)
(* pid and its time are written and read one after the other.  GNOME's file  *)
(* has no time, so it names the active window, unless the extension is off   *)
(* or its last write failed.                                                 *)
(***************************************************************************)
FocusAnswersAreRecent ==
    \A a \in answer :
        /\ desktop \in Commands /\ a.pid # NoPid => a.age <= CacheTtl + CommandTime + back
        /\ desktop = "kde" => \/ a.age <= KdeTtl + back + late
                              \/ a.age <= a.read + late
        /\ desktop = "gnome" /\ a.written => a.age = 0

(***************************************************************************)
(* "Syspeek follows the window you're using" (README.md:24), and "Focus     *)
(* detection works on GNOME, KDE" (README.md:171): once KWin has told the   *)
(* overlay which window is active, and while it is, there is an answer.     *)
(***************************************************************************)
KdeFollowsWindow ==
    \A a \in answer : desktop = "kde" /\ a.known => a.pid # NoPid
=============================================================================
