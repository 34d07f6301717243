---------------------------- MODULE ProcessTree ----------------------------
(***************************************************************************)
(* The process tree of the dashboard: buildSnapshot asks /proc for the      *)
(* parent of one pid of the group after the other, and orderedTree follows  *)
(* the links, level by level, without a set of visited pids.  Between two   *)
(* reads processes are forked, exit and leave their children to init, and   *)
(* their pids are given to others.  The tab of the dashboard then hangs the *)
(* rows into a tree again, by their depths alone.                           *)
(***************************************************************************)
EXTENDS Integers, Sequences, FiniteSets

CONSTANTS
    Pids,          \* a set of numbers; 1 is init
    RootPid,       \* group.rootPid
    MaxBirths      \* bound on the forks of a behaviour

VARIABLES
    parent,        \* the kernel: pid -> parent of the live processes
    births,        \* forks so far
    unread,        \* the pids of the group that are still to be read
    links,         \* parentOf: the links read
    reused,        \* a pid that a link names was given out again
    rows           \* the rows of the snapshot, {} before there is one

vars == <<parent, births, unread, links, reused, rows>>

\* table[pid] = ppid, for a pid with a link or a new one.
With(table, pid, ppid) ==
    [p \in DOMAIN table \cup {pid} |-> IF p = pid THEN ppid ELSE table[p]]

Node(pid, ppid, depth) == [pid |-> pid, ppid |-> ppid, depth |-> depth]

\* std::sort of pids.
Ascending(S) ==
    CHOOSE s \in [1..Cardinality(S) -> S] :
        \A i, j \in 1..Cardinality(S) : i < j => s[i] < s[j]

Children(n, table) ==
    LET kids == Ascending({p \in DOMAIN table : table[p] = n.pid})
    IN  [i \in DOMAIN kids |-> Node(kids[i], n.pid, n.depth + 1)]

\* One turn of the loop: the node at index gives its children to the end.
Visit(result, index, table) ==
    IF index <= Len(result) THEN result \o Children(result[index], table) ELSE result

\* orderedTree: the nodes in the order of the loop, and whether it ends.  There
\* is a link per pid, so more nodes than pids means a cycle that it never leaves.
OrderedTree(root, table) ==
    LET result[index \in 0..Cardinality(Pids)] ==
            IF index = 0 THEN <<Node(root, IF root \in DOMAIN table THEN table[root] ELSE -1, 0)>>
            ELSE Visit(result[index - 1], index, table)
        all == result[Cardinality(Pids)]
    IN  [nodes |-> all, ends |-> Len(all) <= Cardinality(Pids)]

\* A mutant: an item goes below the one before it, which is cut off afterwards.
HangBelowLast(tab, row) ==
    LET above == row.depth > 0 /\ Len(tab.byDepth) >= row.depth
        kept == IF Len(tab.byDepth) > row.depth THEN row.depth ELSE Len(tab.byDepth)
    IN  [nodes |-> Append(tab.nodes, row),
         byDepth |-> Append(SubSeq(tab.byDepth, 1, kept), row.pid),
         under |-> Append(tab.under, IF above THEN tab.byDepth[Len(tab.byDepth)] ELSE 0)]

\* DashboardPanel::setSnapshot: an item goes below the last one that was left
\* on the level above, or to the top.
Hang(tab, row) ==
    LET above == row.depth > 0 /\ Len(tab.byDepth) >= row.depth
        kept == IF Len(tab.byDepth) > row.depth THEN row.depth ELSE Len(tab.byDepth)
    IN  [nodes |-> Append(tab.nodes, row),
         byDepth |-> Append(SubSeq(tab.byDepth, 1, kept), row.pid),
         under |-> Append(tab.under, IF above THEN tab.byDepth[row.depth] ELSE 0)]

\* A row for every node that still has a /proc entry, and where the tab puts it.
Tab(nodes, alive) ==
    LET tab[i \in 0..Len(nodes)] ==
            IF i = 0 THEN [nodes |-> <<>>, byDepth |-> <<>>, under |-> <<>>]
            ELSE IF nodes[i].pid \in alive THEN Hang(tab[i - 1], nodes[i]) ELSE tab[i - 1]
    IN  tab[Len(nodes)]

Init ==
    /\ parent \in {[p \in {1, RootPid} \cup kin |-> IF p = 1 THEN 0 ELSE IF p = RootPid THEN 1 ELSE RootPid]
                   : kin \in SUBSET (Pids \ {1, RootPid})}
    /\ births = 0
    /\ unread = DOMAIN parent \ {1} /\ links = <<>> /\ reused = FALSE /\ rows = {}

\* A mutant: one that has gone is put below the root.
ReadParentAnyway(p) ==
    /\ p \in unread
    /\ unread' = unread \ {p}
    /\ links' = With(links, p, IF p \in DOMAIN parent THEN parent[p] ELSE RootPid)
    /\ UNCHANGED <<parent, births, reused, rows>>

\* linuxproc::parentPid of the next pid; one that has gone is left out.
ReadParent(p) ==
    /\ p \in unread
    /\ unread' = unread \ {p}
    /\ links' = IF p \in DOMAIN parent /\ parent[p] > 0 THEN With(links, p, parent[p]) ELSE links
    /\ UNCHANGED <<parent, births, reused, rows>>

\* All links are read: orderedTree, the rows, and what the tab makes of them.
Publish ==
    /\ unread = {} /\ rows = {}
    /\ LET tree == OrderedTree(RootPid, links)
           tab == Tab(tree.nodes, DOMAIN parent)
       IN  rows' = {[ends |-> tree.ends, nodes |-> tab.nodes, under |-> tab.under]}
    /\ UNCHANGED <<parent, births, unread, links, reused>>

\* The kernel.
Fork(p, child) ==
    /\ p \in DOMAIN parent /\ child \notin DOMAIN parent
    /\ rows = {} /\ births < MaxBirths
    /\ births' = births + 1
    /\ parent' = With(parent, child, p)
    /\ reused' = (reused \/ child \in DOMAIN links \cup {links[q] : q \in DOMAIN links})
    /\ UNCHANGED <<unread, links, rows>>

Exit(p) ==
    /\ p \in DOMAIN parent \ {1} /\ rows = {}
    /\ parent' = [q \in DOMAIN parent \ {p} |-> IF parent[q] = p THEN 1 ELSE parent[q]]
    /\ UNCHANGED <<births, unread, links, reused, rows>>

Next ==
    \/ Publish
    \/ \E p \in Pids : ReadParent(p) \/ Exit(p) \/ \E child \in Pids : Fork(p, child)

(***************************************************************************)
(* The tree is built, and shows every process once, from links that were    *)
(* never true at the same moment: children adopted by init between two      *)
(* reads, parents that are gone.  Only a pid given out again between two    *)
(* reads could close a cycle, which orderedTree would follow for ever.  On   *)
(* the tab a process is below one of the level above, as long as every      *)
(* level kept a row, and below its own parent if that is the only one there *)
(* (and not always if it has siblings: rows come level by level, and Hang    *)
(* expects every subtree in one piece).                                     *)
(***************************************************************************)
TreeIsShown ==
    \A r \in rows : ~reused =>
        /\ r.ends
        /\ \A i, j \in DOMAIN r.nodes : r.nodes[i].pid = r.nodes[j].pid => i = j
        /\ \A i \in DOMAIN r.nodes :
               LET on(d) == {j \in DOMAIN r.nodes : r.nodes[j].depth = d}
                   depth == r.nodes[i].depth
                   pidsAbove == {r.nodes[j].pid : j \in on(depth - 1)}
               IN  (\A d \in 0..(depth - 1) : on(d) # {}) =>
                       IF depth = 0 THEN r.under[i] = 0
                       ELSE /\ r.under[i] \in pidsAbove
                            /\ pidsAbove = {r.nodes[i].ppid} => r.under[i] = r.nodes[i].ppid

Spec == Init /\ [][Next]_vars
=============================================================================
