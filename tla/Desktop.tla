------------------------------- MODULE Desktop -------------------------------
(***************************************************************************)
(* The three parts between the desktop and the user: the providers of the   *)
(* focused pid, the threads of main(), and the pages of the window.  They   *)
(* share no variable, so a behaviour follows one of them: a run is the sum  *)
(* of their state spaces, and what is proved of a part holds of Desktop.    *)
(***************************************************************************)
EXTENDS Integers, FiniteSets

CONSTANTS
    Windows, KdeTtl, CacheTtl, CommandTime, MaxNow, MaxOff,      \* FocusBridge
    MaxCalls,
    Pids, MaxWrites                                              \* Wiring

\* Pids are positive, and a time to live is a time.
ASSUME DesktopAssumption ==
    /\ Windows \subseteq Nat \ {0} /\ IsFiniteSet(Windows)
    /\ KdeTtl \in Nat /\ CacheTtl \in Nat /\ CommandTime \in Nat /\ MaxOff \in Nat

VARIABLES
    which,                                                       \* the part followed
    desktop, active, alive, lastActive, now, wall, back, calls,  \* FocusBridge
    registered, half, late, state, file, enabled, unwritten, printing, cached, loaded, answer,
    phase, signalled, objects, threads, raw, writes, dirEvent,   \* Wiring
    fileEvent, watched, lastRaw, requests, reading, lastRead, sequence,
    inbox, lastSequence, shown,
    expanded, compact, compactPage, panel, metrics, compactText, \* HudPages
    more, badges, blind, pressed, far, grabbed, drag, dragging, last

Focus == INSTANCE FocusBridge

Main == INSTANCE Wiring WITH file <- raw

Pages == INSTANCE HudPages

focusVars ==
    <<desktop, active, alive, lastActive, now, wall, back, calls, registered, half, late,
      state, file, enabled, unwritten, printing, cached, loaded, answer>>

wiringVars ==
    <<phase, signalled, objects, threads, raw, writes, dirEvent, fileEvent, watched,
      lastRaw, requests, reading, lastRead, sequence, inbox, lastSequence, shown>>

pagesVars ==
    <<expanded, compact, compactPage, panel, metrics, compactText, more, badges, blind,
      pressed, far, grabbed, drag, dragging, last>>

vars == <<which, focusVars, wiringVars, pagesVars>>

Init ==
    /\ \/ which = "focus" /\ Focus!Init
       \/ which = "wiring" /\ Main!Init
       \/ which = "pages" /\ Pages!Init
    /\ which # "focus" =>
           /\ desktop = "" /\ active = 0 /\ alive = {} /\ lastActive = <<>> /\ now = 0
           /\ wall = 0 /\ back = 0 /\ calls = <<>> /\ registered = FALSE
           /\ half = {} /\ late = 0 /\ state = <<>> /\ printing = {}
           /\ file = {} /\ enabled = FALSE /\ unwritten = FALSE
           /\ cached = <<>> /\ loaded = {} /\ answer = {}
    /\ which # "wiring" =>
           /\ phase = "" /\ signalled = 0 /\ objects = {} /\ threads = <<>>
           /\ raw = {} /\ writes = 0 /\ dirEvent = FALSE /\ fileEvent = FALSE
           /\ watched = FALSE /\ lastRaw = {} /\ requests = 0 /\ reading = {}
           /\ lastRead = {} /\ sequence = 0 /\ inbox = <<>> /\ lastSequence = 0
           /\ shown = {}
    /\ which # "pages" =>
           /\ expanded = FALSE /\ compact = FALSE /\ compactPage = FALSE /\ panel = FALSE
           /\ metrics = FALSE /\ compactText = FALSE /\ more = FALSE /\ badges = <<>>
           /\ blind = {} /\ pressed = "" /\ far = FALSE /\ grabbed = FALSE
           /\ drag = <<>> /\ dragging = FALSE /\ last = <<>>

Next ==
    /\ UNCHANGED which
    /\ \/ which = "focus" /\ Focus!Next /\ UNCHANGED <<wiringVars, pagesVars>>
       \/ which = "wiring" /\ Main!Next /\ UNCHANGED <<focusVars, pagesVars>>
       \/ which = "pages" /\ Pages!Next /\ UNCHANGED <<focusVars, wiringVars>>

\* The fairness of Wiring.
Fairness ==
    /\ WF_wiringVars(which = "wiring" /\ Main!OnChange)
    /\ WF_wiringVars(which = "wiring" /\ Main!SampleNow)
    /\ WF_wiringVars(which = "wiring" /\ Main!SnapshotReady)
    /\ WF_wiringVars(which = "wiring" /\ Main!Apply)
    /\ WF_wiringVars(which = "wiring" /\ Main!Shutdown)

Spec == Init /\ [][Next]_vars /\ Fairness

-----------------------------------------------------------------------------
(***************************************************************************)
(* How old an answer of focusedPid() can be (FocusBridge).                  *)
(***************************************************************************)
FocusAnswersAreRecent == which = "focus" => Focus!FocusAnswersAreRecent

(***************************************************************************)
(* The overlay follows the window in use on KDE (FocusBridge).              *)
(***************************************************************************)
KdeFollowsWindow == which = "focus" => Focus!KdeFollowsWindow

(***************************************************************************)
(* No object of main() is used after its end (Wiring).                      *)
(***************************************************************************)
UsesAreAlive == which = "wiring" => Main!UsesAreAlive

(***************************************************************************)
(* The last change of the focus reaches the window (Wiring).                *)
(***************************************************************************)
FocusReachesWindow == which = "wiring" => Main!FocusReachesWindow

(***************************************************************************)
(* A signal ends the process (Wiring).                                      *)
(***************************************************************************)
QuitEnds == which = "wiring" => Main!QuitEnds

(***************************************************************************)
(* The pages, the badges and the mouse agree (HudPages).                    *)
(***************************************************************************)
HudPagesAgree == which = "pages" => Pages!HudPagesAgree
=============================================================================
