----------------------------- MODULE SbomSource -----------------------------
(***************************************************************************)
(* The bill of materials of the focused application: its libraries, asked   *)
(* for their packages in chunks through dpkg-query.  Every answer is kept   *)
(* for ever, "no package" included, and so is the lack of one: how dpkg-query *)
(* ended is not looked at.  The package list is read once.                  *)
(***************************************************************************)
EXTENDS Integers, Sequences, FiniteSets, Functions

CONSTANTS
    Loaded,       \* the lists of mapped files, sequences of [file, deleted]
    PackageOf,    \* the package that brings a file, or "" for none: [files -> names]
    Chunk,        \* SbomSource.cpp:36 says 100
    MaxResolves   \* bound on the calls of a behaviour

Packages == {PackageOf[f] : f \in DOMAIN PackageOf} \ {""}

VARIABLES
    installed,    \* the packages the host has now
    loaded,       \* m_loaded
    packages,     \* m_packages
    owner,        \* m_fileOwner: raw path -> package or ""
    asked,        \* history: the raw paths a query of which has ended, with the host
                  \* of then and whether it told the path's owner, or that there is none
    resolves,
    shown         \* the last report, with the list it was made for

vars == <<installed, loaded, packages, owner, asked, resolves, shown>>

\* A path of a replaced file ends in " (deleted)", which no package knows.
OwnerNow(path, host) ==
    IF ~path.deleted /\ PackageOf[path.file] \in host THEN PackageOf[path.file] ELSE ""

\* The places of a list whose path is not in m_fileOwner.
Unknown(paths) == {i \in DOMAIN paths : paths[i] \notin DOMAIN owner}

\* The paths of the first k chunks of them.
Queried(paths, k) ==
    {paths[i] : i \in {j \in Unknown(paths) : Cardinality(Unknown(paths) \cap 1..j) <= k * Chunk}}

\* A mutant: the paths of a chunk that failed are marked as well.
KnownAfterAll(paths, k, silent) ==
    [p \in DOMAIN owner \cup Range(paths) |->
        IF p \in DOMAIN owner THEN owner[p]
        ELSE IF p \in Queried(paths, k) \ silent THEN OwnerNow(p, installed) ELSE ""]

\* m_fileOwner after the first k chunks; a query that does not start or end in
\* time ends the loop.  One that has ended is an answer: a path it is silent on,
\* having crashed or given up before, is marked like one without a package.
KnownAfter(paths, k, silent) ==
    [p \in DOMAIN owner \cup Queried(paths, k) |->
        IF p \in DOMAIN owner THEN owner[p]
        ELSE IF p \in silent THEN "" ELSE OwnerNow(p, installed)]

\* buildSbom: the suffix is dropped, the owner looked up under what is left.
PackageIn(path, own, known) ==
    LET key == [path EXCEPT !.deleted = FALSE]
    IN  IF key \in DOMAIN own /\ own[key] \in known THEN {own[key]} ELSE {}

BuildSbom(paths, known, own) ==
    [libraryCount |-> Len(paths),
     entries |-> {[package |-> q, files |-> {p.file : p \in {r \in Range(paths) :
                                                 q \in PackageIn(r, own, known)}}]
                  : q \in UNION {PackageIn(p, own, known) : p \in Range(paths)}}]

Init ==
    /\ installed \in SUBSET Packages
    /\ loaded = FALSE /\ packages = {} /\ owner = <<>> /\ asked = {}
    /\ resolves = 0 /\ shown = {}

\* resolve, with ensureLoaded, which may fail to open the file, for good.
Resolve ==
    /\ resolves < MaxResolves /\ resolves' = resolves + 1
    /\ \E paths \in Loaded :
        \E k \in 0..((Cardinality(Unknown(paths)) + Chunk - 1) \div Chunk),
           known \in IF loaded THEN {packages} ELSE {installed, {}} :
        \E silent \in SUBSET Queried(paths, k) :
           /\ loaded' = TRUE /\ packages' = known
           /\ owner' = KnownAfter(paths, k, silent)
           /\ asked' = asked \cup {[path |-> p, host |-> installed, told |-> p \notin silent]
                                  : p \in Queried(paths, k)}
           /\ shown' = {[paths |-> paths, known |-> known,
                         report |-> BuildSbom(paths, known, owner')]}
    /\ UNCHANGED installed

\* The user installs or removes a package while the overlay runs.
Upgrade ==
    /\ \E host \in SUBSET Packages : installed' = host
    /\ UNCHANGED <<loaded, packages, owner, asked, resolves, shown>>

Next == Resolve \/ Upgrade

(***************************************************************************)
(* A report lists a library exactly when a query has told its package, at a *)
(* time when that was installed, and the package was in the list read at    *)
(* first; no library is listed under two packages.  A query that does not   *)
(* start or end in time settles nothing and will be repeated.  One that     *)
(* ended settles every path it was given, once and for ever, those it is    *)
(* silent on as well: such a library is not listed though it has a package. *)
(***************************************************************************)
SbomListsTheAsked ==
    \A s \in shown :
        /\ \A f \in {p.file : p \in Range(s.paths)} :
               LET hits == {e \in s.report.entries : f \in e.files}
               IN  /\ Cardinality(hits) <= 1
                   /\ hits # {} <=>
                        \E a \in asked : /\ a.path = [file |-> f, deleted |-> FALSE] /\ a.told
                                         /\ PackageOf[f] \in a.host \cap s.known
        /\ DOMAIN owner = {a.path : a \in asked}
        /\ \A a, b \in asked : a.path = b.path => a = b

Spec == Init /\ [][Next]_vars
=============================================================================
