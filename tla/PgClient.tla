------------------------------ MODULE PgClient ------------------------------
(***************************************************************************)
(* DbmSource asks PostgreSQL three questions per tick over the one          *)
(* connection PgClient keeps.  There are no request ids: query() writes its *)
(* question and takes every message of the socket up to the first           *)
(* ReadyForQuery or error for its answer.  After an error, and after the    *)
(* five seconds of a timeout, the rest of the reply stays in the socket.    *)
(* A message arrives whole or not at all.                                   *)
(***************************************************************************)
EXTENDS Integers, Sequences

CONSTANTS
    Commits,     \* the values of xact_commit the server can report
    MaxTicks     \* bound on the ticks of a behaviour

Columns == [stat |-> 10, states |-> 2, active |-> 4]
MostRows == [stat |-> 1, states |-> 2, active |-> 1]   \* bound on a reply

VARIABLES
    sock,        \* m_socket: "none", "open" or "shut" (closed by its peer)
    ready,       \* the server has accepted the user of this connection
    wire,        \* messages in m_socket or on their way to it
    asked,       \* what the server has not answered yet, oldest first
    step,        \* the call onTick waits in: "idle", "hello" or a question
    rows,        \* the rows this query has read, as a set of messages
    snap,        \* the snapshot onTick is filling: the rows used per question
    clean,       \* no call has failed on this connection
    baseline,    \* m_lastCommit, {} while m_haveBaseline is false
    ticks,
    shown        \* the last snapshot emitted

vars == <<sock, ready, wire, asked, step, rows, snap, clean, baseline, ticks, shown>>

Message(kind, q, commit) == [kind |-> kind, of |-> q, commit |-> commit]
CommitOf(q) == IF q = "stat" THEN Commits ELSE {0}
After == [stat |-> "states", states |-> "active"]
Empty == [stat |-> {}, states |-> {}, active |-> {}]

\* parseDatabaseStat, parseActivityStates, parseActiveQueries: a row with too
\* few columns is left out, one with more is read as if it were the answer.
Usable(q, read) == {r \in read : Columns[r.of] >= Columns[q]}

\* write() on a socket that is not connected is lost.
Write(q) == asked' = IF sock = "open" THEN Append(asked, q) ELSE asked

Init ==
    /\ sock = "none" /\ ready = FALSE /\ wire = <<>> /\ asked = <<>>
    /\ step = "idle" /\ rows = {} /\ snap = Empty /\ clean = TRUE
    /\ baseline = {} /\ ticks = 0 /\ shown = {}

Connect ==
    /\ ready' = FALSE /\ wire' = <<>>
    /\ \/ sock' = "open" /\ asked' = <<"hello">> /\ step' = "hello" /\ clean' = TRUE
          /\ UNCHANGED shown
       \/ sock' = "shut" /\ asked' = <<>> /\ step' = "idle" /\ clean' = FALSE
          /\ shown' = {[error |-> TRUE, data |-> Empty, clean |-> TRUE, rate |-> {}]}

\* onTick: isConnected() looks at the socket, not at the handshake.
OnTick ==
    /\ step = "idle" /\ ticks < MaxTicks
    /\ ticks' = ticks + 1
    /\ snap' = Empty /\ rows' = {}
    /\ IF sock = "open"
       THEN /\ step' = "stat" /\ Write("stat")
            /\ UNCHANGED <<sock, ready, wire, clean, shown>>
       ELSE Connect
    /\ UNCHANGED baseline

\* The end of a handshake, readUntilReady: onTick goes on or reports.
EndHello(ok) ==
    /\ IF ok THEN step' = "stat" /\ UNCHANGED shown
       ELSE /\ step' = "idle"
            /\ shown' = {[error |-> TRUE, data |-> Empty, clean |-> TRUE, rate |-> {}]}
    /\ IF ok THEN asked' = Append(asked, "stat") ELSE UNCHANGED asked
    /\ clean' = (clean /\ ok)
    /\ UNCHANGED <<sock, rows, snap, baseline>>

\* The snapshot of a tick: the rate is between two readings of the counter.
Emit(data, intact) ==
    LET commit == {r.commit : r \in data.stat}
        gains == {c - b : c \in commit, b \in baseline}
    IN  /\ shown' = {[error |-> FALSE, data |-> data, clean |-> intact,
                      rate |-> gains \cap Nat]}
        /\ baseline' = IF commit = {} THEN baseline ELSE commit

\* The end of query(): the next question is asked whatever became of this one.
EndQuery(ok, read) ==
    LET data == [snap EXCEPT ![step] = Usable(step, read)]
    IN  /\ clean' = (clean /\ ok)
        /\ snap' = data /\ rows' = {}
        /\ UNCHANGED <<sock, ready>>
        /\ IF step = "active"
           THEN step' = "idle" /\ Emit(data, clean /\ ok) /\ UNCHANGED asked
           ELSE /\ step' = After[step]
                /\ Write(After[step])
                /\ UNCHANGED <<shown, baseline>>

\* readMessage takes the oldest message.
Read(kind) == wire # <<>> /\ Head(wire).kind = kind /\ wire' = Tail(wire)

OnHelloReady ==
    /\ step = "hello" /\ Read("Z")
    /\ EndHello(TRUE)
    /\ UNCHANGED <<ready, ticks>>

\* An error, or a request for a password PgClient does not have.
OnHelloRefused ==
    /\ step = "hello" /\ (Read("E") \/ Read("R"))
    /\ EndHello(FALSE)
    /\ UNCHANGED <<ready, ticks>>

\* A mutant: the first row ends the query.
OnRowReturning ==
    /\ step \in DOMAIN Columns /\ Read("D")
    /\ EndQuery(TRUE, {Head(wire)})
    /\ UNCHANGED ticks

OnRow ==
    /\ step \in DOMAIN Columns /\ Read("D")
    /\ rows' = rows \cup {Head(wire)}
    /\ UNCHANGED <<sock, ready, asked, step, snap, clean, baseline, ticks, shown>>

OnReady ==
    /\ step \in DOMAIN Columns /\ Read("Z")
    /\ EndQuery(TRUE, rows)
    /\ UNCHANGED ticks

OnError ==
    /\ step \in DOMAIN Columns /\ Read("E")
    /\ EndQuery(FALSE, {})
    /\ UNCHANGED ticks

\* A message of another kind is passed over.
OnOther ==
    /\ step \in DOMAIN Columns /\ Read("R")
    /\ UNCHANGED <<sock, ready, asked, step, rows, snap, clean, baseline, ticks, shown>>

\* waitForReadyRead gave up, or the peer has closed; what is on its way arrives
\* later, the rest of a reply too.
OnTimeout ==
    /\ step # "idle"
    /\ IF step = "hello" THEN EndHello(FALSE) /\ UNCHANGED ready ELSE EndQuery(FALSE, {})
    /\ UNCHANGED <<wire, ticks>>

\* stop(), between two ticks: close() drops the socket and what is in it.
Stop ==
    /\ step = "idle" /\ sock # "none"
    /\ sock' = "none" /\ ready' = FALSE /\ wire' = <<>> /\ asked' = <<>> /\ clean' = TRUE
    /\ ticks' = MaxTicks
    /\ UNCHANGED <<step, rows, snap, baseline, shown>>

\* The server answers in the order it was asked, and may take any time.  It
\* closes a connection whose user it has not accepted.
ServerReplies ==
    /\ sock = "open" /\ asked # <<>>
    /\ asked' = Tail(asked)
    /\ LET q == Head(asked)
           Z == Message("Z", q, 0)  E == Message("E", q, 0)
       IN  IF q = "hello"
           THEN \/ wire' = wire \o <<Z>> /\ ready' = TRUE /\ UNCHANGED sock
                \/ wire' = wire \o <<Message("R", q, 0)>> /\ UNCHANGED <<ready, sock>>
                \/ wire' = wire \o <<E>> /\ sock' = "shut" /\ UNCHANGED ready
           ELSE IF ready
           THEN /\ \/ \E n \in 0..MostRows[q], c \in CommitOf(q) :
                          wire' = wire \o [i \in 1..n |-> Message("D", q, c)] \o <<Z>>
                   \/ wire' = wire \o <<E, Z>>
                /\ UNCHANGED <<ready, sock>>
           ELSE wire' = wire \o <<E>> /\ sock' = "shut" /\ UNCHANGED ready
    /\ UNCHANGED <<step, rows, snap, clean, baseline, ticks, shown>>

Next ==
    \/ OnTick \/ OnHelloReady \/ OnHelloRefused \/ OnRow \/ OnReady \/ OnError \/ OnOther
    \/ OnTimeout \/ Stop \/ ServerReplies

(***************************************************************************)
(* As long as no call has failed on this connection, every row of a         *)
(* snapshot was sent in answer to the question it is shown under, whatever  *)
(* the pace of the server.  A failed call puts the connection out of step   *)
(* until it is opened again, and its snapshots may show the answer to an    *)
(* earlier question under a later one; but even then all rows shown under a *)
(* question answer one and the same, however a timeout cut its reply, and    *)
(* only a row of pg_stat_database is ever read for the rate of the commits. *)
(***************************************************************************)
AnswersAreOwn ==
    \A s \in shown :
        /\ s.clean => \A q \in DOMAIN s.data : \A r \in s.data[q] : r.of = q
        /\ \A q \in DOMAIN s.data : \A r, t \in s.data[q] : r.of = t.of
        /\ \A r \in s.data["stat"] : r.of = "stat"

Spec == Init /\ [][Next]_vars
=============================================================================
