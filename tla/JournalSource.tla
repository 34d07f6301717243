---------------------------- MODULE JournalSource ----------------------------
(***************************************************************************)
(* The worker thread of JournalSource: `journalctl -o json -n 300`, one    *)
(* child at a time and one timer, as in ServicesSource; what a listing     *)
(* yields is the number of errors and their groups.                        *)
(***************************************************************************)
EXTENDS Integers, FiniteSetsExt, Functions

CONSTANTS
    Entries,        \* records [pri, comm, msg, usec]; pri is {} or {a number}
    Masked,          \* journalFingerprint's masking of a message: [messages -> prints]
    MaxEntries      \* the model's bound on the entries of one listing (the code asks for 300)

VARIABLES running, stopping, child, timer, shown

vars == <<running, stopping, child, timer, shown>>

Journals == UNION {[1..n -> Entries] : n \in 0..MaxEntries}

\* A field that is missing or no number reads as 0: toString().toInt().
Priority(entry) == Max(entry.pri \cup {0})

\* journalEntryIsError
IsError(entry) == Priority(entry) \in 0..3

\* A mutant: the groups go by the unmasked message.
FingerprintRaw(entry) == <<entry.comm, entry.msg>>

\* journalFingerprint: the command and the masked message.
Fingerprint(entry) == <<entry.comm, Masked[entry.msg]>>

Errors(entries) == {i \in DOMAIN entries : IsError(entries[i])}

Own(entries, print) == {i \in Errors(entries) : Fingerprint(entries[i]) = print}

\* groupJournalErrors: one group per fingerprint, shown by its first message,
\* the largest first and then by command (ties beyond that are unordered).
Group(entries, print) ==
    LET own == Own(entries, print)
    IN  [print |-> print, comm |-> entries[Min(own)].comm, sample |-> entries[Min(own)].msg,
         count |-> Cardinality(own), lastSeen |-> Max({entries[i].usec : i \in own})]

ErrorGroups(entries) == {Group(entries, Fingerprint(entries[i])) : i \in Errors(entries)}

Failure == [available |-> FALSE, entries |-> <<>>, errorCount |-> 0, groups |-> {}]

Listing(entries) ==
    [available |-> TRUE, entries |-> entries, errorCount |-> Cardinality(Errors(entries)),
     groups |-> ErrorGroups(entries)]

Init ==
    /\ running = FALSE /\ stopping = FALSE
    /\ child = "none" /\ timer = FALSE /\ shown = {}

EmitFailure ==
    /\ shown' = {Failure}
    /\ timer' = TRUE

BeginQuery ==
    IF stopping THEN UNCHANGED <<running, child, shown>> /\ timer' = FALSE
    ELSE \/ running' = TRUE /\ child' = "starting" /\ timer' = FALSE /\ UNCHANGED shown
         \/ EmitFailure /\ UNCHANGED <<running, child>>

Start ==
    /\ shown = {} /\ ~running /\ ~timer /\ child = "none"
    /\ BeginQuery
    /\ UNCHANGED stopping

OnTimeout ==
    /\ timer
    /\ BeginQuery
    /\ UNCHANGED stopping

OnStarted ==
    /\ child = "starting"
    /\ child' = "alive"
    /\ UNCHANGED <<running, stopping, timer, shown>>

OnStartFailure ==
    /\ child = "starting"
    /\ child' = "none" /\ running' = FALSE
    /\ EmitFailure
    /\ UNCHANGED stopping

OnFinished ==
    /\ child = "alive" /\ running
    /\ running' = FALSE /\ child' = "none"
    /\ \/ \E entries \in Journals : shown' = {Listing(entries)} /\ timer' = TRUE
       \/ EmitFailure
    /\ UNCHANGED stopping

Stop ==
    /\ ~stopping
    /\ stopping' = TRUE /\ timer' = FALSE
    /\ UNCHANGED <<running, child, shown>>

Next ==
    \/ Start \/ OnTimeout \/ OnStarted \/ OnStartFailure \/ OnFinished \/ Stop

(***************************************************************************)
(* The journal badge, the error list and the error groups are read side by *)
(* side: the groups partition the errors, so their counts add up to the    *)
(* number on the badge, and no two of them differ only in what is masked.  *)
(***************************************************************************)
GroupsPartitionErrors ==
    \A s \in shown :
        /\ s.errorCount = SumFunction([g \in s.groups |-> g.count])
        /\ \A g, h \in s.groups :
               g.comm = h.comm /\ Masked[g.sample] = Masked[h.sample] => g = h

Fairness == WF_vars(Start) /\ WF_vars(OnTimeout) /\ WF_vars(OnStarted \/ OnStartFailure)

Spec == Init /\ [][Next]_vars /\ Fairness
=============================================================================
