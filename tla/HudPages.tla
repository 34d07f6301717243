-------------------------------- MODULE HudPages --------------------------------
(***************************************************************************)
(* HudWindow as a user meets it: the compact page with a badge per source   *)
(* that opens its details, the dashboard that takes the page's place, and   *)
(* the mouse, which clicks the buttons and drags the window by them.        *)
(* Snapshots arrive in between, on whichever page is shown.                 *)
(***************************************************************************)
VARIABLES
    expanded, compact,                       \* m_detailsExpanded, m_compact
    compactPage, panel, metrics, compactText, more,  \* widgets that are not hidden
    badges,      \* per source, its button and its details label
    blind,       \* history: the sources told to hide while the dashboard was shown
    pressed,     \* external: where the left button is held down, "none"
    far,         \* history: the pointer has left that place
    grabbed,     \* external: the window manager moves the window
    drag,        \* m_buttonDragPending, m_buttonDragActive, m_buttonManualMove
    dragging,    \* m_dragging
    last         \* history: the last release that arrived: [far, clicked]

pages == <<expanded, compact, compactPage, panel, metrics, compactText, more>>
mouse == <<pressed, far, grabbed, drag, dragging, last>>
vars == <<pages, badges, blind, mouse>>

Sources == {"docker", "kube"}
Buttons == Sources \cup {"more", "showHide"}

\* A snapshot of a program that is not there has no summary; the details are
\* "no issues" at least.
Snapshots == {[summary |-> "", details |-> "no issues"],
              [summary |-> "up", details |-> "no issues"],
              [summary |-> "up", details |-> "issues"]}

NoDrag == [pending |-> FALSE, active |-> FALSE, manual |-> FALSE]

Init ==
    /\ expanded = FALSE /\ compact = FALSE
    /\ compactPage = TRUE /\ panel = FALSE /\ metrics = TRUE /\ compactText = FALSE
    /\ more = TRUE
    /\ badges = [s \in Sources |-> [text |-> "", visible |-> FALSE, open |-> FALSE,
                                    details |-> "", label |-> "", labelVisible |-> FALSE]]
    /\ blind = {}
    /\ pressed = "none" /\ far = FALSE /\ grabbed = FALSE
    /\ drag = NoDrag /\ dragging = FALSE /\ last = [far |-> FALSE, clicked |-> TRUE]

-----------------------------------------------------------------------------
(* Snapshots *)

\* setDockerSnapshot, setKubeSnapshot.  isVisibleTo(this) is false on a page
\* that is hidden.
WithSnapshot(badge, snapshot) ==
    LET wasVisible == badge.visible /\ compactPage
        nowVisible == snapshot.summary # ""
        told == wasVisible # nowVisible
        open == badge.open /\ ~(told /\ ~nowVisible)
    IN  [text |-> snapshot.summary, details |-> snapshot.details, open |-> open,
         visible |-> IF told THEN nowVisible ELSE badge.visible,
         label |-> IF open THEN snapshot.details ELSE badge.label,
         labelVisible |-> IF open THEN TRUE
                          ELSE badge.labelVisible /\ ~(told /\ ~nowVisible)]

Snap(s) ==
    \E snapshot \in Snapshots :
        /\ badges' = [badges EXCEPT ![s] = WithSnapshot(@, snapshot)]
        /\ blind' = IF expanded /\ badges[s].visible /\ snapshot.summary = ""
                    THEN blind \cup {s} ELSE blind \ {s}
        /\ UNCHANGED <<pages, mouse>>

-----------------------------------------------------------------------------
(* What a click does *)

\* toggleDockerDetails, toggleKubeDetails
ToggleDetailsOf(s) ==
    LET badge == badges[s]
        open == ~badge.open
    IN  /\ badges' = [badges EXCEPT ![s] =
             IF open /\ badge.details = "" THEN badge
             ELSE [badge EXCEPT !.open = open, !.labelVisible = open,
                                !.label = IF open THEN badge.details ELSE badge.label]]
        /\ UNCHANGED pages

\* toggleDetails
ToggleDetails ==
    /\ expanded' = ~expanded
    /\ compactPage' = expanded /\ panel' = ~expanded
    /\ UNCHANGED <<compact, metrics, compactText, more, badges>>

\* toggleCompact: the dashboard is closed first.
ToggleCompact ==
    /\ expanded' = FALSE
    /\ compactPage' = (compactPage \/ expanded) /\ panel' = (panel /\ ~expanded)
    /\ compact' = ~compact
    /\ metrics' = compact /\ compactText' = ~compact /\ more' = compact
    /\ UNCHANGED badges

Clicked(button) ==
    CASE button \in Sources    -> ToggleDetailsOf(button)
      [] button = "more"       -> ToggleDetails
      [] button = "showHide"   -> ToggleCompact

\* The dashboard's own button, which has no event filter.
CollapseRequested ==
    /\ panel /\ pressed = "none" /\ ToggleDetails
    /\ UNCHANGED <<blind, mouse>>

-----------------------------------------------------------------------------
(* The mouse *)

Shown(button) ==
    compactPage /\ (button \in Sources => badges[button].visible) /\ (button = "more" => more)

\* A mutant: the flags of an earlier press are kept.
PressKeeping(place) ==
    /\ pressed = "none" /\ Shown(place)
    /\ pressed' = place /\ far' = FALSE
    /\ drag' = [drag EXCEPT !.pending = TRUE]
    /\ UNCHANGED <<pages, badges, blind, grabbed, dragging, last>>

\* eventFilter, MouseButtonPress
Press(place) ==
    /\ pressed = "none" /\ Shown(place)
    /\ pressed' = place /\ far' = FALSE
    /\ drag' = [pending |-> TRUE, active |-> FALSE, manual |-> FALSE]
    /\ UNCHANGED <<pages, badges, blind, grabbed, dragging, last>>

\* eventFilter, MouseMove over the drag distance: the window manager moves the
\* window if it can, else the window moves itself.
MoveFar ==
    /\ pressed \in Buttons /\ Shown(pressed) /\ ~grabbed
    /\ far' = TRUE
    /\ IF drag.pending /\ ~drag.active
       THEN \E taken \in BOOLEAN :
                /\ drag' = [drag EXCEPT !.active = TRUE, !.manual = ~taken]
                /\ grabbed' = taken
       ELSE UNCHANGED <<drag, grabbed>>
    /\ UNCHANGED <<pages, badges, blind, pressed, dragging, last>>

\* eventFilter, MouseButtonRelease, and the button's own: it clicks when the
\* event reaches it.
Release ==
    /\ pressed \in Buttons /\ Shown(pressed) /\ ~grabbed
    /\ pressed' = "none" /\ drag' = NoDrag
    /\ last' = [far |-> far, clicked |-> ~drag.active]
    /\ IF drag.active THEN UNCHANGED <<pages, badges>> ELSE Clicked(pressed)
    /\ UNCHANGED <<blind, far, grabbed, dragging>>

\* A release that does not arrive: the window manager had the pointer, or the
\* button has been hidden.
ReleaseElsewhere ==
    /\ pressed \in Buttons /\ (grabbed \/ ~Shown(pressed))
    /\ pressed' = "none" /\ grabbed' = FALSE
    /\ UNCHANGED <<pages, badges, blind, far, drag, dragging, last>>

\* mousePressEvent and mouseReleaseEvent, beside the buttons
PressBody ==
    /\ pressed = "none" /\ pressed' = "body"
    /\ \E taken \in BOOLEAN : grabbed' = taken /\ dragging' = (dragging \/ ~taken)
    /\ UNCHANGED <<pages, badges, blind, far, drag, last>>

ReleaseBody ==
    /\ pressed = "body" /\ pressed' = "none" /\ grabbed' = FALSE
    /\ dragging' = (dragging /\ grabbed)
    /\ UNCHANGED <<pages, badges, blind, far, drag, last>>

Next ==
    \/ \E s \in Sources : Snap(s)
    \/ CollapseRequested
    \/ \E b \in Buttons : Press(b)
    \/ MoveFar \/ Release \/ ReleaseElsewhere \/ PressBody \/ ReleaseBody

Spec == Init /\ [][Next]_vars

-----------------------------------------------------------------------------
(***************************************************************************)
(* The window tells one story.  One page is shown, with the line or the     *)
(* metrics that m_compact says; details are shown exactly when they are     *)
(* open, and are those of the last snapshot, also of one that came while    *)
(* the dashboard was shown; a badge with a summary is never hidden, and one  *)
(* without a summary is shown only after a snapshot that came while the     *)
(* dashboard was; a press that is let go where it was clicks and one that    *)
(* was dragged does not, whatever became of the press before.               *)
(***************************************************************************)
HudPagesAgree ==
    /\ panel = expanded /\ compactPage = ~expanded
    /\ metrics = ~compact /\ compactText = compact /\ more = metrics
    /\ expanded => ~compact
    /\ \A s \in Sources :
           LET badge == badges[s] IN
           /\ badge.labelVisible = badge.open
           /\ badge.open => badge.label = badge.details
           /\ badge.text # "" => badge.visible
           /\ badge.visible /\ badge.text = "" => s \in blind
    /\ last.clicked = ~last.far
    /\ dragging => pressed = "body"
=============================================================================
