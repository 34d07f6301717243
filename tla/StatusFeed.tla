------------------------------ MODULE StatusFeed ------------------------------
(***************************************************************************)
(* What a polling source promises the window that shows it, whatever       *)
(* timers, signals and buffers it uses inside: questions are asked one at  *)
(* a time, the screen shows an answer only if it answers the question      *)
(* asked, a failure after an answer shows that answer again, marked stale, *)
(* a bare error is shown only before the first answer, and a question      *)
(* asked while another is under way is put as soon as that one ends.       *)
(***************************************************************************)
CONSTANTS
    Answers,      \* what an answered question can say
    Errors,       \* how a question can fail
    NoAnswer,     \* no question was answered yet
    Unavailable   \* the screen of a source whose tool is not installed

VARIABLES
    phase,        \* "off", "idle", "asking" or "stopped"
    known,        \* the last answer, or NoAnswer
    screen,       \* what was last sent to the window
    waiting       \* a question was asked while another was under way

feed == <<phase, known, screen, waiting>>

Blank == [state |-> "None", answer |-> NoAnswer]
Fresh(a) == [state |-> "Ok", answer |-> a]
Stale(a) == [state |-> "Stale", answer |-> a]
Error(e) == [state |-> e, answer |-> NoAnswer]

TypeOK ==
    /\ phase \in {"off", "idle", "asking", "stopped"}
    /\ known \in Answers \cup {NoAnswer}
    /\ screen \in {Blank, Error(Unavailable)} \cup {Error(e) : e \in Errors}
                  \cup {Fresh(a) : a \in Answers} \cup {Stale(a) : a \in Answers}
    /\ waiting \in BOOLEAN

Init ==
    /\ phase = "off"
    /\ known = NoAnswer
    /\ screen = Blank
    /\ waiting = FALSE

ShowFailure ==
    /\ UNCHANGED known
    /\ IF known = NoAnswer
       THEN \E e \in Errors : screen' = Error(e)
       ELSE screen' = Stale(known)

Ask ==
    /\ phase \in {"off", "idle"} /\ ~ waiting
    /\ phase' = "asking"
    /\ UNCHANGED <<known, screen, waiting>>

\* Any number of questions asked during another one wait as one.
AskAgain ==
    /\ phase = "asking"
    /\ waiting' = TRUE
    /\ UNCHANGED <<phase, known, screen>>

Answer ==
    /\ phase = "asking" /\ ~ waiting
    /\ phase' = "idle"
    /\ \E a \in Answers : known' = a /\ screen' = Fresh(a)
    /\ UNCHANGED waiting

\* A question that failed, or could not even be put.
Fail ==
    /\ phase \in {"off", "idle", "asking"} /\ ~ waiting
    /\ phase' = "idle"
    /\ ShowFailure
    /\ UNCHANGED waiting

\* The answer, and with it the waiting question: put, or failed on the spot.
AnswerThenAsk ==
    /\ phase = "asking" /\ waiting
    /\ waiting' = FALSE
    /\ \E a \in Answers :
          /\ known' = a
          /\ \/ phase' = "asking" /\ screen' = Fresh(a)
             \/ phase' = "idle" /\ screen' = Stale(a)

FailThenAsk ==
    /\ phase = "asking" /\ waiting
    /\ waiting' = FALSE
    /\ phase' \in {"asking", "idle"}
    /\ ShowFailure

\* There is nobody to ask.
Decline ==
    /\ phase \in {"off", "idle"} /\ ~ waiting
    /\ phase' = "idle"
    /\ known = NoAnswer
    /\ screen' = Error(Unavailable)
    /\ UNCHANGED <<known, waiting>>

\* Stopping may cut a question short; it answers none.
Halt ==
    /\ phase' = "stopped"
    /\ UNCHANGED waiting
    /\ \/ UNCHANGED <<known, screen>>
       \/ ShowFailure

Next ==
    \/ Ask \/ AskAgain \/ Answer \/ AnswerThenAsk
    \/ Fail \/ FailThenAsk \/ Decline \/ Halt

Spec == Init /\ [][Next]_feed
=============================================================================
