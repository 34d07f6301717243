---------------------------- MODULE DesktopProofs ----------------------------
(***************************************************************************)
(* Theorems about Desktop for any windows, any times to live and any        *)
(* contents and changes of the pid file: how old an answer of focusedPid()  *)
(* can be on each desktop, that no thread reaches an object of main() that  *)
(* is gone, and that the window's pages, badges and drags agree.  Each part *)
(* keeps an inductive invariant of its own.                                 *)
(***************************************************************************)
EXTENDS Desktop, Sequences, FiniteSetTheorems, TLAPS

-----------------------------------------------------------------------------
(* FocusBridge: what is typed, and what is known of every pid on its way.   *)

Call == [pid : Windows \cup {0}, made : Nat]

FocusTyped ==
    /\ active \in Windows \cup {0} /\ alive \subseteq Windows
    /\ lastActive \in [Windows -> Int] /\ now \in Nat /\ wall \in Int /\ back \in Int
    /\ calls \in Seq(Call) /\ half \subseteq Call /\ registered \in BOOLEAN /\ late \in Nat
    /\ state \in [pid : Windows \cup {Focus!NoPid}, stamp : Int]
    /\ loaded \subseteq [pid : Windows, at : Nat]
    /\ file \subseteq Windows /\ enabled \in BOOLEAN /\ unwritten \in BOOLEAN
    /\ printing \subseteq [pids : SUBSET (Windows \cup {0}), at : Nat]
    /\ cached \in [pid : Windows \cup {Focus!NoPid}, at : Int]

\* p has the active window, or had it at t or later.
Held(p, t) == p \in Windows => p = active \/ lastActive[p] >= t

\* The same in the next state, of terms that speak of that state themselves.
HeldNext(p, t) == p \in Windows => p = active' \/ lastActive'[p] >= t

\* The stamp in real time, less the longest wait of a call: no call that is
\* stored now or later was made before.
Floor == now - (wall - state.stamp) - back - late

\* What is known of a pid between its load and that of the time: it is active
\* still, or its successor was stamped since, or its successor comes next.
Kept(l) ==
    \/ l.pid = active
    \/ lastActive[l.pid] + late >= l.at
    \/ /\ calls # <<>> \/ half # {}
       /\ lastActive[l.pid] >= Floor
       /\ \A c \in half : lastActive[l.pid] >= c.made
       /\ half = {} => lastActive[l.pid] >= calls[1].made

\* Calls are stored in the order they were made, and every pid was active
\* until the next one's call; the last one is active still.
Queued ==
    /\ \A i \in 1 .. Len(calls) : Floor <= calls[i].made /\ calls[i].made <= now
    /\ \A i \in 1 .. Len(calls) : \A j \in 1 .. i : calls[j].made <= calls[i].made
    /\ \A c \in half : Floor <= c.made /\ c.made <= now
    /\ \A c \in half : \A i \in 1 .. Len(calls) : c.made <= calls[i].made

Chained ==
    /\ \A i \in 1 .. Len(calls) - 1 : Held(calls[i].pid, calls[i + 1].made)
    /\ calls # <<>> => calls[Len(calls)].pid = active /\ Held(state.pid, calls[1].made)
    /\ calls = <<>> => state.pid \in {Focus!NoPid, active}

Relayed ==
    /\ desktop # "kde" => ~ registered
    /\ ~ registered => calls = <<>> /\ half = {} /\ loaded = {} /\ state.pid = Focus!NoPid
    /\ desktop = "kde" => Floor <= now
    /\ Queued /\ Chained
    /\ \A l \in loaded : l.at <= now /\ Kept(l)

\* The pid file names the active window, unless a write failed.
Filed ==
    /\ ~ unwritten => file \subseteq {active} \ {0}
    /\ ~ enabled => file = {} /\ ~ unwritten

\* The stamp of the cached pid in real time.
Heard == now - (wall - cached.at) - back

\* What a command prints was active then, and the cached pid had the active
\* window at most the time of a command before it was stamped.
Printed ==
    /\ desktop \notin Focus!Commands => printing = {}
    /\ \A c \in printing : /\ c.at <= now /\ now - c.at <= CommandTime
                           /\ \A p \in c.pids : Held(p, c.at)

CachedLate ==
    desktop \in Focus!Commands => Heard <= now /\ Held(cached.pid, Heard - CommandTime)

-----------------------------------------------------------------------------
(* The answers of the commands.                                            *)

LEMMA SetToSeqElements ==
    ASSUME NEW S, IsFiniteSet(S)
    PROVE  Focus!SetToSeq(S) \in [1 .. Cardinality(S) -> S]
<1>0. Focus!Cardinality(S) = Cardinality(S)
  BY Zenon DEF Cardinality, Focus!Cardinality
<1>1. ExistsBijection(1 .. Cardinality(S), S)
  BY FS_CardinalityType
<1>2. \E f \in [1 .. Cardinality(S) -> S] : Focus!IsInjective(f)
  BY <1>1 DEF ExistsBijection, Bijection, Injection, IsInjective, Focus!IsInjective
<1>. QED  BY <1>0, <1>2 DEF Focus!SetToSeq

LEMMA FunctionIsSequence ==
    ASSUME NEW S, NEW n \in Nat, NEW f \in [1 .. n -> S]
    PROVE  f \in Seq(S)
<1>1. f = [i \in 1 .. n |-> f[i]]
  OBVIOUS
<1>2. \A i \in 1 .. n : f[i] \in S
  OBVIOUS
<1>3. [i \in 1 .. n |-> f[i]] \in Seq(S)
  BY <1>2
<1>. QED  BY <1>1, <1>3, Zenon

\* `swaymsg -t get_tree` leads to the active window or to none.
LEMMA SwayFindsActive ==
    ASSUME FocusTyped
    PROVE  Focus!FindFocusedPid(Focus!SwayTree) \subseteq {active}
<1> DEFINE Node == [p \in alive |-> [focused |-> p = active, pid |-> p]]
           Nodes == {[focused |-> p = active, pid |-> p] : p \in alive}
           Root == [focused |-> active = 0, pid |-> 0]
<1>1. IsFiniteSet(alive)
  BY FS_Subset, DesktopAssumption DEF FocusTyped
<1>2. Node \in Surjection(alive, Nodes)
  BY DEF Surjection
<1>3. IsFiniteSet(Nodes)
  BY <1>1, <1>2, FS_Surjection
<1>4. Focus!SetToSeq(Nodes) \in [1 .. Cardinality(Nodes) -> Nodes] /\ Cardinality(Nodes) \in Nat
  BY <1>3, SetToSeqElements, FS_CardinalityType
<1> DEFINE tree == Focus!SetToSeq(Nodes)
<1> HIDE DEF Node, tree
<1>5. tree \in Seq(Nodes)
  BY <1>4, FunctionIsSequence DEF tree
<1> HIDE DEF Nodes, Root
<1>6. \A i \in DOMAIN (<<Root>> \o tree) : (<<Root>> \o tree)[i] \in Nodes \cup {Root}
  BY <1>5
<1>7. ASSUME NEW node \in Nodes \cup {Root}, node.focused, node.pid > 0
      PROVE  node.pid = active
  <2>1. CASE node = Root
    BY <1>7, <2>1 DEF Root
  <2>2. CASE node \in Nodes
    <3>1. PICK p \in alive : node = [focused |-> p = active, pid |-> p]
      BY <2>2 DEF Nodes
    <3>. QED  BY <1>7, <3>1
  <2>. QED  BY <2>1, <2>2
<1>8. Focus!SwayTree = <<Root>> \o tree
  BY DEF Focus!SwayTree, Root, tree, Nodes
<1>. QED  BY <1>6, <1>7, <1>8 DEF Focus!FindFocusedPid

LEMMA AskedIsActive ==
    ASSUME FocusTyped, desktop \in Focus!Commands
    PROVE  Focus!Asked \subseteq {active}
<1>1. CASE desktop = "hyprland"
  BY <1>1, Zenon DEF Focus!Asked, Focus!AskHyprctl
<1>2. CASE desktop = "sway"
  <2>1. Focus!Asked = Focus!FindFocusedPid(Focus!SwayTree)
    BY <1>2, Zenon DEF Focus!Asked, Focus!AskSwaymsg
  <2>. QED  BY <2>1, SwayFindsActive
<1>3. CASE desktop = "niri"
  BY <1>3, Zenon DEF Focus!Asked, Focus!AskNiri
<1>4. CASE desktop = "xdotool"
  BY <1>4, Zenon DEF Focus!Asked, Focus!AskXdotool
<1>. QED  BY <1>1, <1>2, <1>3, <1>4 DEF Focus!Commands

-----------------------------------------------------------------------------
(* The invariant.                                                          *)

FocusInv ==
    /\ FocusTyped /\ Relayed /\ Filed /\ Printed /\ CachedLate
    /\ \A p \in Windows : lastActive[p] <= now

\* The numbers of the clock, for the steps that only need arithmetic.
LEMMA FocusNumbers ==
    ASSUME FocusTyped
    PROVE  /\ now \in Int /\ wall \in Int /\ back \in Int /\ late \in Int /\ now >= 0 /\ late >= 0
           /\ state.stamp \in Int /\ cached.at \in Int /\ Floor \in Int /\ Heard \in Int
           /\ state.pid \in Windows \cup {Focus!NoPid}
           /\ cached.pid \in Windows \cup {Focus!NoPid}
           /\ \A p \in Windows : lastActive[p] \in Int
           /\ \A i \in 1 .. Len(calls) : calls[i] \in Call
           /\ Len(calls) \in Nat
BY DEF FocusTyped, Floor, Heard

LEMMA NoPidIsNone == Focus!NoPid \notin Windows /\ 0 \notin Windows /\ Windows \subseteq Int
                     /\ Focus!NoPid \in Int /\ Focus!NoPid <= 0 /\ \A p \in Windows : p > 0
BY DesktopAssumption DEF Focus!NoPid

LEMMA CallNumbers ==
    ASSUME NEW c \in Call
    PROVE  c.made \in Int /\ c.pid \in Windows \cup {0} /\ c.pid \in Int
<1>1. c.made \in Nat /\ c.pid \in Windows \cup {0}
  BY DEF Call
<1>2. Nat \subseteq Int /\ Windows \cup {0} \subseteq Int
  BY NoPidIsNone
<1>. QED  BY <1>1, <1>2

LEMMA FocusInvInit ==
    ASSUME Focus!Init
    PROVE  FocusInv
<1>0. /\ active \in Windows \cup {0} /\ alive \subseteq Windows /\ now = 0 /\ back = 0 /\ late = 0
      /\ lastActive = [p \in Windows |-> IF p = active THEN 0 ELSE -100]
      /\ calls = <<>> /\ registered = FALSE /\ half = {} /\ loaded = {} /\ printing = {}
      /\ state = [pid |-> Focus!NoPid, stamp |-> Focus!LongAgo]
      /\ cached = [pid |-> Focus!NoPid, at |-> Focus!LongAgo]
      /\ file = {} /\ enabled = FALSE /\ unwritten = FALSE /\ wall \in (now - MaxOff) .. now
  BY DEF Focus!Init
<1>1. Focus!LongAgo \in Int /\ wall \in Int /\ 0 - (wall - Focus!LongAgo) - 0 - 0 <= 0
  BY <1>0, DesktopAssumption DEF Focus!LongAgo
<1>2. \A p \in Windows : (IF p = active THEN 0 ELSE -100) \in Int
                         /\ (IF p = active THEN 0 ELSE -100) <= 0
  OBVIOUS
<1>3. lastActive \in [Windows -> Int] /\ \A p \in Windows : lastActive[p] <= now
  BY <1>0, <1>2
<1>4. FocusTyped
  <2>1. /\ calls \in Seq(Call) /\ half \subseteq Call
        /\ loaded \subseteq [pid : Windows, at : Nat]
        /\ printing \subseteq [pids : SUBSET (Windows \cup {0}), at : Nat]
    BY <1>0
  <2>2. /\ state \in [pid : Windows \cup {Focus!NoPid}, stamp : Int]
        /\ cached \in [pid : Windows \cup {Focus!NoPid}, at : Int]
    BY <1>0, <1>1
  <2>3. now \in Nat /\ wall \in Int /\ back \in Int /\ late \in Nat
    BY <1>0, <1>1
  <2>4. /\ registered \in BOOLEAN /\ enabled \in BOOLEAN /\ unwritten \in BOOLEAN
        /\ file \subseteq Windows
    BY <1>0, Zenon
  <2>. QED  BY <1>0, <1>3, <2>1, <2>2, <2>3, <2>4, Zenon DEF FocusTyped
<1>5. Floor <= now
  BY <1>0, <1>1 DEF Floor
<1>6. Relayed
  BY <1>0, <1>5 DEF Relayed, Queued, Chained
<1>7. Filed /\ Printed /\ CachedLate
  BY <1>0, <1>1, NoPidIsNone DEF Filed, Printed, CachedLate, Held, Heard
<1>. QED  BY <1>3, <1>4, <1>6, <1>7 DEF FocusInv

\* Nothing is lost of what is known of the pids while neither the focus nor
\* what is on its way changes; the clock may be set.
LEMMA RelayedWaits ==
    ASSUME FocusInv, now' \in Nat, now' >= now,
           UNCHANGED <<desktop, active, lastActive, calls, registered, half, late, state, loaded>>,
           desktop = "kde" => Floor' = Floor
    PROVE  Relayed'
<1> USE DEF FocusInv
<1>0. now \in Int /\ Floor \in Int
  BY FocusNumbers
<1>1. CASE desktop # "kde"
  <2>1. calls = <<>> /\ half = {} /\ loaded = {} /\ ~ registered
    BY <1>1 DEF Relayed
  <2>. QED  BY <1>1, <2>1 DEF Relayed, Queued, Chained
<1>2. CASE desktop = "kde"
  <2>1. \A n \in Int : n <= now => n <= now'
    BY <1>0
  <2>2. Floor' = Floor /\ Floor' <= now'
    BY <1>0, <1>2, <2>1 DEF Relayed
  <2>3. Queued'
    <3>1. \A i \in 1 .. Len(calls) : calls[i].made \in Int
      BY FocusNumbers DEF Call
    <3>2. \A c \in half : c.made \in Int
      BY DEF FocusTyped, Call
    <3>. QED  BY <2>1, <2>2, <3>1, <3>2 DEF Relayed, Queued
  <2>4. Chained'
    BY DEF Relayed, Chained, Held
  <2>5. ASSUME NEW l \in loaded  PROVE l.at <= now' /\ Kept(l)'
    <3>1. l.at <= now /\ Kept(l) /\ l.at \in Int
      BY DEF Relayed, FocusTyped
    <3>2. Kept(l)'
      BY <2>2, <3>1, Zenon DEF Kept
    <3>. QED  BY <2>1, <3>1, <3>2
  <2>. QED  BY <2>2, <2>3, <2>4, <2>5 DEF Relayed
<1>. QED  BY <1>1, <1>2

\* The same of what the commands have said.
LEMMA CachedWaits ==
    ASSUME FocusInv, now' \in Nat, now' >= now,
           UNCHANGED <<desktop, active, lastActive, cached>>,
           desktop \in Focus!Commands => Heard' = Heard
    PROVE  CachedLate'
<1>1. now \in Int /\ Heard \in Int
  BY FocusNumbers DEF FocusInv
<1>2. \A n \in Int : n <= now => n <= now'
  BY <1>1
<1>3. CASE desktop \in Focus!Commands
  <2>1. Heard <= now /\ Held(cached.pid, Heard - CommandTime)
    BY <1>3 DEF FocusInv, CachedLate
  <2>2. Heard' <= now' /\ Held(cached.pid, Heard - CommandTime)'
    BY <1>1, <1>2, <1>3, <2>1 DEF Held
  <2>. QED  BY <2>2 DEF CachedLate
<1>4. CASE desktop \notin Focus!Commands
  BY <1>4 DEF CachedLate
<1>. QED  BY <1>3, <1>4

-----------------------------------------------------------------------------
(* A move of the focus.                                                     *)

LEMMA MovedHeld ==
    ASSUME FocusInv, NEW to \in Windows \cup {0}, Focus!Moved(to)
    PROVE  /\ lastActive' \in [Windows -> Int]
           /\ \A p \in Windows : lastActive[p] <= lastActive'[p] /\ lastActive'[p] <= now'
           /\ \A p \in Windows : p = active => lastActive'[p] = now
           /\ \A p, t \in Int : t <= now /\ Held(p, t) => HeldNext(p, t)
           /\ UNCHANGED <<now, wall, back, desktop, registered, half, late, state, loaded,
                          enabled, printing, cached>>
           /\ active' = to
<1>1. /\ active' = to
      /\ UNCHANGED <<now, wall, back, desktop, registered, half, late, state, loaded, enabled,
                     printing, cached>>
      /\ lastActive' = [p \in Windows |-> IF p = active THEN now ELSE lastActive[p]]
  BY DEF Focus!Moved, Focus!clock, Focus!command
<1>2. now \in Int /\ \A p \in Windows : lastActive[p] \in Int /\ lastActive[p] <= now
  BY FocusNumbers DEF FocusInv
<1>3. \A p \in Windows : /\ lastActive'[p] \in Int
                         /\ lastActive'[p] = IF p = active THEN now ELSE lastActive[p]
  BY <1>1, <1>2
<1>4. lastActive' \in [Windows -> Int]
  BY <1>1, <1>3
<1>5. ASSUME NEW p \in Int, NEW t \in Int, t <= now, Held(p, t)  PROVE HeldNext(p, t)
  BY <1>1, <1>2, <1>3, <1>5 DEF Held, HeldNext
<1>. QED  BY <1>1, <1>2, <1>3, <1>4, <1>5

\* The call of the move is queued behind the others, if anybody listens.
LEMMA MovedCalls ==
    ASSUME FocusInv, NEW to \in Windows \cup {0}, Focus!Moved(to)
    PROVE  IF registered THEN calls' = Append(calls, [pid |-> to, made |-> now])
           ELSE calls' = calls
<1>1. calls' = IF desktop = "kde" THEN Focus!Published(to) ELSE calls
  BY DEF Focus!Moved
<1>2. desktop # "kde" => ~ registered
  BY DEF FocusInv, Relayed
<1>. QED  BY <1>1, <1>2 DEF Focus!Published

LEMMA MovedRelayed ==
    ASSUME FocusInv, NEW to \in Windows \cup {0}, Focus!Moved(to)
    PROVE  Relayed' /\ calls' \in Seq(Call)
<1> USE DEF FocusInv
<1> DEFINE call == [pid |-> to, made |-> now]
<1>0. /\ now \in Int /\ late \in Int /\ late >= 0 /\ Floor \in Int /\ Len(calls) \in Nat
      /\ now \in Nat /\ state.pid \in Windows \cup {Focus!NoPid}
      /\ \A p \in Windows : lastActive[p] \in Int
  BY FocusNumbers DEF FocusTyped
<1>1. /\ \A p \in Windows : lastActive'[p] \in Int /\ lastActive[p] <= lastActive'[p]
      /\ \A p \in Windows : p = active => lastActive'[p] = now
      /\ \A p, t \in Int : t <= now /\ Held(p, t) => HeldNext(p, t)
      /\ UNCHANGED <<now, wall, back, desktop, registered, half, late, state, loaded>>
      /\ active' = to
  BY MovedHeld
<1>2. Floor' = Floor
  BY <1>1 DEF Floor
<1>3. CASE ~ registered
  <2>1. calls' = calls /\ calls = <<>> /\ half = {} /\ loaded = {} /\ state.pid = Focus!NoPid
    BY <1>3, MovedCalls DEF Relayed
  <2>2. Queued' /\ Chained'
    BY <1>1, <2>1 DEF Queued, Chained
  <2>3. desktop = "kde" => Floor' <= now'
    BY <1>1, <1>2 DEF Relayed
  <2>4. desktop' # "kde" => ~ registered'
    BY <1>1, <1>3
  <2>. QED  BY <1>1, <1>3, <2>1, <2>2, <2>3, <2>4 DEF Relayed, FocusTyped
<1>4. CASE registered
  <2>1. desktop = "kde" /\ calls' = Append(calls, call) /\ call \in Call
    BY <1>0, <1>4, MovedCalls DEF Relayed, Call
  <2>2. /\ Len(calls') = Len(calls) + 1 /\ calls' # <<>> /\ calls' \in Seq(Call)
        /\ \A i \in 1 .. Len(calls) : calls'[i] = calls[i]
        /\ calls'[Len(calls) + 1] = call
    BY <2>1 DEF FocusTyped
  <2>3. Floor <= now
    BY <2>1 DEF Relayed
  <2>4. \A i \in 1 .. Len(calls) : calls[i] \in Call /\ calls[i].made \in Int /\ calls[i].pid \in Int
    <3>1. \A i \in 1 .. Len(calls) : calls[i] \in Call
      BY FocusNumbers
    <3>. QED  BY <3>1, CallNumbers, Zenon
  <2>5. call.made = now /\ call.pid = to
    OBVIOUS
  <2> HIDE DEF call
  <2>6. ASSUME NEW i \in 1 .. Len(calls')
        PROVE  i = Len(calls) + 1 \/ i \in 1 .. Len(calls)
    BY <1>0, <2>2, <2>6
  <2>7. Queued'
    <3>1. ASSUME NEW i \in 1 .. Len(calls')
          PROVE  Floor <= calls'[i].made /\ calls'[i].made <= now
      BY <1>0, <2>2, <2>3, <2>5, <2>6, <3>1 DEF Relayed, Queued
    <3>2. ASSUME NEW i \in 1 .. Len(calls'), NEW j \in 1 .. i
          PROVE  calls'[j].made <= calls'[i].made
      <4>1. CASE i \in 1 .. Len(calls)
        <5>1. j \in 1 .. Len(calls)
          BY <1>0, <4>1
        <5>. QED  BY <2>2, <4>1, <5>1 DEF Relayed, Queued
      <4>2. CASE i = Len(calls) + 1
        <5>1. j \in 1 .. Len(calls')
          BY <1>0, <2>2, <4>2
        <5>2. calls'[j].made <= now
          BY <3>1, <5>1
        <5>. QED  BY <2>2, <2>5, <4>2, <5>2
      <4>. QED  BY <2>6, <4>1, <4>2
    <3>3. ASSUME NEW c \in half, NEW i \in 1 .. Len(calls')
          PROVE  c.made <= calls'[i].made
      BY <2>2, <2>5, <2>6, <3>3 DEF Relayed, Queued
    <3>4. \A c \in half : Floor <= c.made /\ c.made <= now
      BY DEF Relayed, Queued
    <3>. QED  BY <1>1, <1>2, <3>1, <3>2, <3>3, <3>4 DEF Queued
  <2>8. Chained'
    <3>1. ASSUME NEW i \in 1 .. Len(calls') - 1  PROVE HeldNext(calls'[i].pid, calls'[i + 1].made)
      <4>1. i \in 1 .. Len(calls) /\ calls'[i] = calls[i]
        BY <1>0, <2>2
      <4>2. CASE i = Len(calls)
        <5>1. calls[i].pid = active /\ calls'[i + 1].made = now
          BY <2>2, <2>5, <4>1, <4>2 DEF Relayed, Chained
        <5>2. active \in Windows => lastActive'[active] >= now
          BY <1>0, <1>1
        <5>. QED  BY <1>1, <4>1, <5>1, <5>2 DEF HeldNext
      <4>3. CASE i # Len(calls)
        <5>1. i \in 1 .. Len(calls) - 1 /\ i + 1 \in 1 .. Len(calls)
          BY <1>0, <4>1, <4>3
        <5>2. Held(calls[i].pid, calls[i + 1].made) /\ calls[i + 1].made <= now
          BY <5>1 DEF Relayed, Chained, Queued
        <5>3. HeldNext(calls[i].pid, calls[i + 1].made)
          BY <1>1, <2>4, <4>1, <5>1, <5>2
        <5>. QED  BY <2>2, <4>1, <5>1, <5>3
      <4>. QED  BY <4>2, <4>3
    <3>2. HeldNext(state.pid, calls'[1].made)
      <4>1. CASE calls = <<>>
        <5>1. state.pid \in {Focus!NoPid, active} /\ calls'[1].made = now
          BY <2>2, <2>5, <4>1 DEF Relayed, Chained
        <5>2. active \in Windows => lastActive'[active] >= now
          BY <1>0, <1>1
        <5>. QED  BY <1>1, <5>1, <5>2, NoPidIsNone DEF HeldNext
      <4>2. CASE calls # <<>>
        <5>1. 1 \in 1 .. Len(calls)
          BY <1>0, <4>2 DEF FocusTyped
        <5>2. calls'[1] = calls[1] /\ calls[1].made <= now /\ Held(state.pid, calls[1].made)
          BY <2>2, <4>2, <5>1 DEF Relayed, Chained, Queued
        <5>3. state.pid \in Int /\ calls[1].made \in Int
          BY <1>0, <2>4, <5>1, NoPidIsNone
        <5>4. HeldNext(state.pid, calls[1].made)
          BY <1>1, <5>2, <5>3
        <5>. QED  BY <5>2, <5>4
      <4>. QED  BY <4>1, <4>2
    <3>3. calls'[Len(calls')].pid = active'
      BY <1>0, <1>1, <2>2, <2>5
    <3>. QED  BY <1>1, <2>2, <3>1, <3>2, <3>3 DEF Chained, Held, HeldNext
  <2>9. ASSUME NEW l \in loaded  PROVE Kept(l)'
    <3>1. Kept(l) /\ l.pid \in Windows /\ l.at \in Int /\ l.at <= now
      BY DEF Relayed, FocusTyped
    <3>2. \A c \in half : c.made \in Int /\ c.made <= now
      BY DEF Relayed, Queued, FocusTyped, Call
    <3>3. calls'[1].made \in Int /\ calls'[1].made <= now
          /\ (calls # <<>> => calls'[1] = calls[1])
      <4>1. calls # <<>> => 1 \in 1 .. Len(calls)
        BY <1>0 DEF FocusTyped
      <4>. QED  BY <1>0, <2>2, <2>4, <2>5, <4>1 DEF Relayed, Queued
    <3> DEFINE p == l.pid
    <3>4. CASE p = active
      <4>1. lastActive'[p] = now
        BY <1>1, <3>1, <3>4
      <4>. QED  BY <1>0, <1>1, <1>2, <2>2, <2>3, <3>2, <3>3, <4>1 DEF Kept
    <3>5. CASE lastActive[p] + late >= l.at
      <4>1. lastActive'[p] + late >= l.at
        BY <1>0, <1>1, <3>1, <3>5
      <4>. QED  BY <1>1, <4>1 DEF Kept
    <3>6. CASE /\ calls # <<>> \/ half # {}
               /\ lastActive[p] >= Floor
               /\ \A c \in half : lastActive[p] >= c.made
               /\ half = {} => lastActive[p] >= calls[1].made
      <4>1. \A n \in Int : lastActive[p] >= n => lastActive'[p] >= n
        BY <1>0, <1>1, <3>1
      <4>2. lastActive'[p] >= Floor /\ \A c \in half : lastActive'[p] >= c.made
        BY <1>0, <3>2, <3>6, <4>1
      <4>3. half = {} => lastActive'[p] >= calls'[1].made
        BY <3>3, <3>6, <4>1
      <4>. QED  BY <1>1, <1>2, <2>2, <4>2, <4>3 DEF Kept
    <3>. QED  BY <3>1, <3>4, <3>5, <3>6 DEF Kept
  <2>10. \A l \in loaded : l.at <= now
    BY DEF Relayed
  <2>. QED  BY <1>1, <1>2, <1>4, <2>1, <2>2, <2>3, <2>7, <2>8, <2>9, <2>10 DEF Relayed
<1>. QED  BY <1>3, <1>4

\* A move of the focus: where the window went, and who was told.
LEMMA MovedStep ==
    ASSUME FocusInv, NEW to \in Windows \cup {0}, Focus!Moved(to), alive' \subseteq Windows
    PROVE  FocusInv'
<1> USE DEF FocusInv
<1>1. /\ lastActive' \in [Windows -> Int]
      /\ \A p \in Windows : lastActive[p] <= lastActive'[p] /\ lastActive'[p] <= now'
      /\ \A p, t \in Int : t <= now /\ Held(p, t) => HeldNext(p, t)
      /\ UNCHANGED <<now, wall, back, desktop, registered, half, late, state, loaded, enabled,
                     printing, cached>>
      /\ active' = to
  BY MovedHeld
<1>2. Relayed' /\ calls' \in Seq(Call)
  BY MovedRelayed
<1>3. file' \subseteq Windows /\ unwritten' \in BOOLEAN /\ Filed'
  <2>1. CASE enabled
    <3>1. Focus!WriteFocusedPid(to)
      BY <2>1 DEF Focus!Moved
    <3>2. CASE file' = (IF to > 0 THEN {to} ELSE {}) /\ unwritten' = FALSE
      <4>1. file' \subseteq {to} \ {0} /\ file' \subseteq Windows
        BY <3>2, DesktopAssumption
      <4>. QED  BY <1>1, <2>1, <3>2, <4>1 DEF Filed
    <3>3. CASE UNCHANGED file /\ unwritten' = TRUE
      BY <1>1, <2>1, <3>3 DEF Filed, FocusTyped
    <3>. QED  BY <3>1, <3>2, <3>3 DEF Focus!WriteFocusedPid
  <2>2. CASE ~ enabled
    BY <1>1, <2>2 DEF Focus!Moved, Filed, FocusTyped
  <2>. QED  BY <2>1, <2>2
<1>4. Printed'
  <2>1. ASSUME NEW c \in printing, NEW p \in c.pids  PROVE HeldNext(p, c.at)
    <3>1. p \in Int /\ c.at \in Int /\ c.at <= now /\ Held(p, c.at)
      BY NoPidIsNone DEF Printed, FocusTyped
    <3>. QED  BY <1>1, <3>1
  <2>. QED  BY <1>1, <2>1 DEF Printed, Held, HeldNext
<1>5. CachedLate'
  <2>1. cached.pid \in Int /\ now \in Int /\ Heard \in Int /\ CommandTime \in Nat
    BY FocusNumbers, NoPidIsNone, DesktopAssumption
  <2>2. Heard' = Heard /\ now' = now /\ desktop' = desktop /\ cached' = cached
    BY <1>1 DEF Heard
  <2>3. CASE desktop \in Focus!Commands
    <3>1. Heard <= now /\ Held(cached.pid, Heard - CommandTime)
      BY <2>3 DEF CachedLate
    <3>2. Heard - CommandTime \in Int /\ Heard - CommandTime <= now
      BY <2>1, <3>1
    <3>3. HeldNext(cached.pid, Heard - CommandTime)
      BY <1>1, <2>1, <3>1, <3>2
    <3>. QED  BY <2>2, <3>1, <3>3 DEF CachedLate, Held, HeldNext
  <2>4. CASE desktop \notin Focus!Commands
    BY <2>2, <2>4 DEF CachedLate
  <2>. QED  BY <2>3, <2>4
<1>6. FocusTyped'
  <2>1. FocusTyped /\ active' \in Windows \cup {0} /\ alive' \subseteq Windows
    BY <1>1
  <2>. QED  BY <1>1, <1>2, <1>3, <2>1, Zenon DEF FocusTyped
<1>. QED  BY <1>1, <1>2, <1>3, <1>4, <1>5, <1>6

-----------------------------------------------------------------------------
(* The steps of KdeFocusService.                                            *)

\* The pid of the first call is stored: the call is half served.
LEMMA StorePidRelays ==
    ASSUME FocusInv, Focus!StorePid
    PROVE  /\ Relayed' /\ calls' \in Seq(Call) /\ half' \subseteq Call
           /\ state' \in [pid : Windows \cup {Focus!NoPid}, stamp : Int]
<1> USE DEF FocusInv
<1>1. /\ calls # <<>> /\ half = {} /\ half' = {calls[1]} /\ calls' = Tail(calls)
      /\ UNCHANGED <<now, wall, back, late, desktop, active, lastActive, registered, loaded>>
      /\ state' = [state EXCEPT !.pid = IF calls[1].pid > 0 THEN calls[1].pid ELSE Focus!NoPid]
  <2>1. calls # <<>> /\ calls \in Seq(Call)
    BY DEF Focus!StorePid, FocusTyped
  <2>2. Head(calls) = calls[1]
    BY <2>1
  <2>3. half' = {calls[1]} /\ state' = [state EXCEPT !.pid = IF calls[1].pid > 0 THEN calls[1].pid
                                                            ELSE Focus!NoPid]
    BY <2>2, Zenon DEF Focus!StorePid
  <2>. QED  BY <2>1, <2>3, Zenon DEF Focus!StorePid, Focus!clock, Focus!world
<1>2. /\ calls' \in Seq(Call) /\ Len(calls') = Len(calls) - 1 /\ Len(calls) \in Nat \ {0}
      /\ \A i \in 1 .. Len(calls') : calls'[i] = calls[i + 1]
  BY <1>1 DEF FocusTyped
<1>3. \A i \in 1 .. Len(calls) : calls[i] \in Call
  BY FocusNumbers
<1>4. \A c \in Call : c.made \in Int /\ c.pid \in Windows \cup {0} /\ c.pid \in Int
  BY CallNumbers
<1>5. 1 \in 1 .. Len(calls)
  BY <1>2
<1>6. /\ state'.pid = IF calls[1].pid > 0 THEN calls[1].pid ELSE Focus!NoPid
      /\ state'.stamp = state.stamp
      /\ state' \in [pid : Windows \cup {Focus!NoPid}, stamp : Int]
  <2>1. calls[1].pid > 0 => calls[1].pid \in Windows
    BY <1>3, <1>4, <1>5
  <2>. QED  BY <1>1, <2>1 DEF FocusTyped
<1>7. \A t : Held(calls[1].pid, t) => Held(state'.pid, t)
  BY <1>6, NoPidIsNone DEF Held
<1>8. Floor' = Floor
  BY <1>1, <1>6 DEF Floor
<1>9. \A i \in 1 .. Len(calls') : i \in 1 .. Len(calls) /\ i + 1 \in 1 .. Len(calls)
  BY <1>2
<1>10. Queued'
  <2>1. \A i \in 1 .. Len(calls') : Floor <= calls'[i].made /\ calls'[i].made <= now
    BY <1>2, <1>9 DEF Relayed, Queued
  <2>2. ASSUME NEW i \in 1 .. Len(calls'), NEW j \in 1 .. i
        PROVE  calls'[j].made <= calls'[i].made
    <3>1. j \in 1 .. Len(calls') /\ j + 1 \in 1 .. i + 1 /\ i + 1 \in 1 .. Len(calls)
      BY <1>2
    <3>. QED  BY <1>2, <3>1 DEF Relayed, Queued
  <2>3. \A c \in half' : Floor <= c.made /\ c.made <= now
    BY <1>1, <1>5 DEF Relayed, Queued
  <2>4. ASSUME NEW c \in half', NEW i \in 1 .. Len(calls')  PROVE c.made <= calls'[i].made
    <3>1. 1 \in 1 .. i + 1 /\ i + 1 \in 1 .. Len(calls) /\ c = calls[1]
      BY <1>1, <1>2
    <3>. QED  BY <1>2, <3>1 DEF Relayed, Queued
  <2>. QED  BY <1>1, <1>8, <2>1, <2>2, <2>3, <2>4 DEF Queued
<1>11. Chained'
  <2>1. ASSUME NEW i \in 1 .. Len(calls') - 1  PROVE Held(calls'[i].pid, calls'[i + 1].made)
    <3>1. i + 1 \in 1 .. Len(calls) - 1 /\ i \in 1 .. Len(calls') /\ i + 1 \in 1 .. Len(calls')
      BY <1>2
    <3>2. Held(calls[i + 1].pid, calls[(i + 1) + 1].made)
      BY <3>1 DEF Relayed, Chained
    <3>. QED  BY <1>2, <3>1, <3>2
  <2>2. calls' # <<>> => calls'[Len(calls')].pid = active
    <3>1. calls' # <<>> => Len(calls') \in 1 .. Len(calls') /\ Len(calls') + 1 = Len(calls)
      BY <1>2
    <3>2. calls[Len(calls)].pid = active
      BY <1>1 DEF Relayed, Chained
    <3>. QED  BY <1>2, <3>1, <3>2
  <2>3. calls' # <<>> => Held(state'.pid, calls'[1].made)
    <3>1. calls' # <<>> => 1 \in 1 .. Len(calls) - 1 /\ calls'[1] = calls[1 + 1]
      BY <1>2
    <3>2. calls' # <<>> => Held(calls[1].pid, calls'[1].made)
      BY <3>1 DEF Relayed, Chained
    <3>. QED  BY <1>7, <3>2
  <2>4. calls' = <<>> => state'.pid \in {Focus!NoPid, active}
    <3>1. calls' = <<>> => calls[1].pid = active
      <4>1. calls' = <<>> => Len(calls) = 1
        BY <1>2
      <4>. QED  BY <1>1, <4>1 DEF Relayed, Chained
    <3>. QED  BY <1>6, <3>1
  <2>5. \A p, t : Held(p, t)' <=> Held(p, t)
    BY <1>1 DEF Held
  <2>6. active' = active
    BY <1>1
  <2>. QED  BY <2>1, <2>2, <2>3, <2>4, <2>6, <1>1 DEF Chained, Held
<1>12. ASSUME NEW l \in loaded  PROVE l.at <= now /\ Kept(l)'
  <2>1. Kept(l) /\ l.at <= now
    BY DEF Relayed
  <2>. QED  BY <1>1, <1>8, <2>1 DEF Kept
<1>13. Relayed'
  <2>1. registered /\ desktop = "kde" => Floor <= now
    BY DEF Relayed
  <2>2. registered
    BY <1>1 DEF Relayed
  <2>3. (desktop # "kde" => ~ registered) /\ (desktop = "kde" => Floor <= now)
    BY DEF Relayed
  <2>. QED  BY <1>1, <1>8, <1>10, <1>11, <1>12, <2>2, <2>3 DEF Relayed
<1>14. half' \subseteq Call
  BY <1>1, <1>3, <1>5
<1>. QED  BY <1>2, <1>6, <1>13, <1>14

\* The time of the call that is half served is stored: it is the time now.
LEMMA StoreStampRelays ==
    ASSUME FocusInv, Focus!StoreStamp
    PROVE  /\ Relayed' /\ late' \in Nat
           /\ state' \in [pid : Windows \cup {Focus!NoPid}, stamp : Int]
<1> USE DEF FocusInv
<1>1. PICK c \in half : late' = Focus!Max({late, now - c.made})
  BY Zenon DEF Focus!StoreStamp
<1>2. /\ half' = {} /\ state' = [state EXCEPT !.stamp = wall] /\ back' = 0
      /\ UNCHANGED <<now, wall, desktop, active, lastActive, calls, registered, loaded>>
  BY Zenon DEF Focus!StoreStamp, Focus!world
<1>3. c.made \in Int /\ c.made <= now
  BY CallNumbers DEF Relayed, Queued, FocusTyped
<1>4. now \in Int /\ late \in Int /\ late >= 0 /\ wall \in Int /\ Floor \in Int
      /\ \A p \in Windows : lastActive[p] \in Int
  BY FocusNumbers
<1>5. late' \in Int /\ late' >= late /\ late' >= now - c.made
  <2> DEFINE waits == {late, now - c.made}
  <2>1. \E w \in waits : \A v \in waits : w >= v
    BY <1>3, <1>4
  <2>2. late' \in waits /\ \A v \in waits : late' >= v
    BY <1>1, <2>1, Zenon DEF Focus!Max
  <2>. QED  BY <1>3, <1>4, <2>2
<1>6. late' \in Nat
  BY <1>4, <1>5
<1>7. /\ state'.pid = state.pid /\ state'.stamp = wall
      /\ state' \in [pid : Windows \cup {Focus!NoPid}, stamp : Int]
  BY <1>2, <1>4 DEF FocusTyped
<1>8. Floor' = now - late' /\ Floor' <= c.made /\ Floor' <= now
  <2>1. Floor' = now - (wall - wall) - 0 - late'
    BY <1>2, <1>7, Zenon DEF Floor
  <2>2. \A n, w, d \in Int : n - (w - w) - 0 - d = n - d
    OBVIOUS
  <2>3. Floor' = now - late'
    BY <1>4, <1>5, <2>1, <2>2
  <2>4. \A n, d, m \in Int : (d >= n - m => n - d <= m) /\ (d >= 0 => n - d <= n)
    OBVIOUS
  <2>5. now \in Int /\ late' \in Int /\ c.made \in Int /\ late' >= now - c.made
    BY <1>3, <1>4, <1>5
  <2>6. now - late' <= c.made
    BY <2>4, <2>5, Zenon
  <2>7. now - late' <= now
    <3>1. late' >= 0
      BY <1>6
    <3>. QED  BY <2>4, <2>5, <3>1, Zenon
  <2>. QED  BY <2>3, <2>6, <2>7
<1>9. \A i \in 1 .. Len(calls) : calls[i].made \in Int /\ c.made <= calls[i].made
  BY FocusNumbers, CallNumbers DEF Relayed, Queued
<1>10. Queued'
  <2>1. \A i \in 1 .. Len(calls) : Floor' <= calls[i].made /\ calls[i].made <= now
    <3>1. ASSUME NEW i \in 1 .. Len(calls)  PROVE Floor' <= calls[i].made
      <4>1. calls[i].made \in Int /\ c.made <= calls[i].made
        BY <1>9
      <4>. QED  BY <1>3, <1>4, <1>5, <1>8, <4>1
    <3>. QED  BY <3>1 DEF Relayed, Queued
  <2>. QED  BY <1>2, <2>1 DEF Relayed, Queued
<1>11. Chained'
  BY <1>2, <1>7 DEF Relayed, Chained, Held
<1>12. ASSUME NEW l \in loaded  PROVE l.at <= now /\ Kept(l)'
  <2>1. Kept(l) /\ l.at <= now /\ l.at \in Int /\ l.pid \in Windows
    BY DEF Relayed, FocusTyped
  <2>2. lastActive[l.pid] \in Int
    BY <1>4, <2>1
  <2>3. CASE l.pid = active
    BY <1>2, <2>1, <2>3 DEF Kept
  <2>4. CASE lastActive[l.pid] + late >= l.at
    <3>1. lastActive[l.pid] + late' >= l.at
      BY <1>4, <1>5, <2>1, <2>2, <2>4
    <3>. QED  BY <1>2, <2>1, <3>1 DEF Kept
  <2>5. CASE lastActive[l.pid] >= c.made
    <3>1. lastActive[l.pid] + late' >= l.at
      BY <1>3, <1>4, <1>5, <2>1, <2>2, <2>5
    <3>. QED  BY <1>2, <2>1, <3>1 DEF Kept
  <2>. QED  BY <2>1, <2>3, <2>4, <2>5 DEF Kept
<1>13. Relayed'
  <2>1. (desktop # "kde" => ~ registered) /\ registered
    BY DEF Relayed
  <2>. QED  BY <1>2, <1>8, <1>10, <1>11, <1>12, <2>1 DEF Relayed
<1>. QED  BY <1>6, <1>7, <1>13

\* What is known of the pid file and of the commands depends on neither.
LEMMA RestWaits ==
    ASSUME FocusInv, UNCHANGED <<now, wall, desktop, active, lastActive, file, enabled, unwritten,
                                 printing, cached>>,
           desktop \in Focus!Commands => back' = back
    PROVE  /\ Filed' /\ Printed' /\ CachedLate' /\ \A p \in Windows : lastActive'[p] <= now'
<1>1. Filed' /\ Printed' /\ \A p \in Windows : lastActive'[p] <= now'
  BY DEF FocusInv, Filed, Printed, Held
<1>2. now' \in Nat /\ now' >= now
  BY DEF FocusInv, FocusTyped
<1>3. desktop \in Focus!Commands => Heard' = Heard
  BY DEF Heard
<1>. QED  BY <1>1, <1>2, <1>3, CachedWaits

LEMMA ServiceStep ==
    ASSUME FocusInv, Focus!RegisterService \/ Focus!StorePid \/ Focus!StoreStamp
    PROVE  FocusInv'
<1> USE DEF FocusInv
<1>1. UNCHANGED <<desktop, active, alive, lastActive, now, wall, file, enabled, unwritten,
                  printing, cached, loaded>>
  BY Zenon DEF Focus!RegisterService, Focus!StorePid, Focus!StoreStamp, Focus!world,
               Focus!extension, Focus!clock, Focus!command
<1>2. CASE Focus!RegisterService
  <2>1. UNCHANGED <<calls, half, late, state, back>> /\ registered' = TRUE /\ desktop = "kde"
        /\ ~ registered
    BY <1>2, Zenon DEF Focus!RegisterService, Focus!clock
  <2>2. Floor' = Floor
    BY <1>1, <2>1 DEF Floor
  <2>3. Relayed'
    BY <1>1, <2>1, <2>2 DEF Relayed, Queued, Chained, Held
  <2>4. FocusTyped'
    BY <1>1, <2>1, Zenon DEF FocusTyped
  <2>. QED  BY <1>1, <2>1, <2>3, <2>4, RestWaits
<1>3. CASE Focus!StorePid
  <2>1. UNCHANGED <<late, registered, back>>
    BY <1>3, Zenon DEF Focus!StorePid, Focus!clock
  <2>2. FocusTyped'
    BY <1>1, <1>3, <2>1, StorePidRelays, Zenon DEF FocusTyped
  <2>. QED  BY <1>1, <1>3, <2>1, <2>2, StorePidRelays, RestWaits
<1>4. CASE Focus!StoreStamp
  <2>1. UNCHANGED <<calls, registered>> /\ half' = {} /\ back' = 0
    BY <1>4, Zenon DEF Focus!StoreStamp
  <2>2. half' \subseteq Call /\ back' \in Int
    BY <2>1
  <2>3. FocusTyped'
    BY <1>1, <1>4, <2>1, <2>2, StoreStampRelays, Zenon DEF FocusTyped
  <2>4. desktop \notin Focus!Commands
    <3>1. half # {}
      BY <1>4, Zenon DEF Focus!StoreStamp
    <3>2. desktop = "kde"
      BY <3>1 DEF Relayed
    <3>. QED  BY <3>2 DEF Focus!Commands
  <2>. QED  BY <1>1, <1>4, <2>3, <2>4, StoreStampRelays, RestWaits
<1>. QED  BY <1>2, <1>3, <1>4

\* The time passes, the clock is set, and the extension is switched.
LEMMA WorldStep ==
    ASSUME FocusInv,
           Focus!Enable \/ Focus!Disable \/ Focus!Elapse \/ Focus!SetClock
    PROVE  FocusInv'
<1> USE DEF FocusInv
<1>1. UNCHANGED <<desktop, active, alive, lastActive, calls, registered, half, late, state,
                  loaded, printing, cached>>
  BY Zenon DEF Focus!Enable, Focus!Disable, Focus!Elapse, Focus!SetClock, Focus!world, Focus!kde,
               Focus!command
<1>2. CASE Focus!Enable \/ Focus!Disable
  <2>1. UNCHANGED <<now, wall, back>>
    BY <1>2, Zenon DEF Focus!Enable, Focus!Disable, Focus!clock
  <2>2. file' \subseteq Windows /\ unwritten' \in BOOLEAN /\ enabled' \in BOOLEAN /\ Filed'
    <3>1. CASE Focus!Enable
      <4>1. enabled' = TRUE /\ Focus!WriteFocusedPid(active)
        BY <3>1 DEF Focus!Enable
      <4>2. CASE file' = (IF active > 0 THEN {active} ELSE {}) /\ unwritten' = FALSE
        <5>1. file' \subseteq {active} \ {0} /\ file' \subseteq Windows
          BY <4>2, DesktopAssumption DEF FocusTyped
        <5>. QED  BY <1>1, <4>1, <4>2, <5>1 DEF Filed
      <4>3. CASE UNCHANGED file /\ unwritten' = TRUE
        BY <4>1, <4>3 DEF Filed, FocusTyped
      <4>. QED  BY <4>1, <4>2, <4>3 DEF Focus!WriteFocusedPid
    <3>2. CASE Focus!Disable
      BY <3>2 DEF Focus!Disable, Filed
    <3>. QED  BY <1>2, <3>1, <3>2
  <2>3. Floor' = Floor /\ Heard' = Heard /\ now' \in Nat /\ now' >= now
    BY <1>1, <2>1 DEF Floor, Heard, FocusTyped
  <2>4. Relayed' /\ CachedLate'
    BY <1>1, <2>3, RelayedWaits, CachedWaits
  <2>5. FocusTyped'
    BY <1>1, <2>1, <2>2, Zenon DEF FocusTyped
  <2>6. Printed' /\ \A p \in Windows : lastActive'[p] <= now'
    BY <1>1, <2>1 DEF Printed, Held
  <2>. QED  BY <2>2, <2>4, <2>5, <2>6
<1>3. CASE Focus!Elapse \/ Focus!SetClock
  <2>1. UNCHANGED <<file, enabled, unwritten>>
    BY <1>3, Zenon DEF Focus!Elapse, Focus!SetClock, Focus!extension
  <2>2. now \in Int /\ now >= 0 /\ wall \in Int /\ back \in Int /\ late \in Int
        /\ state.stamp \in Int /\ cached.at \in Int
    BY FocusNumbers
  <2>3. /\ now' \in Nat /\ now' >= now /\ wall' \in Int /\ back' \in Int
        /\ Floor' = Floor /\ Heard' = Heard
        /\ \A c \in printing : now' - c.at <= CommandTime
    <3>0. \A c \in printing : c.at \in Int /\ now - c.at <= CommandTime
      BY DEF Printed, FocusTyped
    <3>1. CASE Focus!Elapse
      <4>1. now' = now + 1 /\ wall' = wall + 1 /\ back' = back
            /\ \A c \in printing : now - c.at < CommandTime
        BY <3>1 DEF Focus!Elapse
      <4>2. \A n, w, b, s, d \in Int :
               /\ (n + 1) - ((w + 1) - s) - b - d = n - (w - s) - b - d
               /\ (n + 1) - ((w + 1) - s) - b = n - (w - s) - b
        OBVIOUS
      <4>3. Floor' = Floor
        BY <1>1, <2>2, <4>1, <4>2 DEF Floor
      <4>4. Heard' = Heard
        BY <1>1, <2>2, <4>1, <4>2 DEF Heard
      <4>5. \A c \in printing : now' - c.at <= CommandTime
        BY <2>2, <3>0, <4>1, DesktopAssumption
      <4>. QED  BY <2>2, <4>1, <4>3, <4>4, <4>5
    <3>2. CASE Focus!SetClock
      <4>1. now' = now /\ wall' \in Int /\ back' = back + (wall - wall')
        BY <2>2, <3>2, DesktopAssumption DEF Focus!SetClock
      <4>2. \A n, w, v, b, s, d \in Int :
               /\ n - (v - s) - (b + (w - v)) - d = n - (w - s) - b - d
               /\ n - (v - s) - (b + (w - v)) = n - (w - s) - b
        OBVIOUS
      <4>3. Floor' = Floor
        <5>1. Floor' = now - (wall' - state.stamp) - (back + (wall - wall')) - late
          BY <1>1, <4>1, Zenon DEF Floor
        <5>2. now - (wall' - state.stamp) - (back + (wall - wall')) - late
              = now - (wall - state.stamp) - back - late
          BY <2>2, <4>1, <4>2
        <5>. QED  BY <5>1, <5>2, Zenon DEF Floor
      <4>4. Heard' = Heard
        <5>1. Heard' = now - (wall' - cached.at) - (back + (wall - wall'))
          BY <1>1, <4>1, Zenon DEF Heard
        <5>2. now - (wall' - cached.at) - (back + (wall - wall'))
              = now - (wall - cached.at) - back
          BY <2>2, <4>1, <4>2
        <5>. QED  BY <5>1, <5>2, Zenon DEF Heard
      <4>5. back' \in Int
        BY <2>2, <4>1
      <4>6. \A c \in printing : now' - c.at <= CommandTime
        BY <3>0, <4>1
      <4>7. now' \in Nat /\ now' >= now
        BY <2>2, <4>1
      <4>. QED  BY <4>1, <4>3, <4>4, <4>5, <4>6, <4>7
    <3>. QED  BY <1>3, <3>1, <3>2
  <2>4. Relayed' /\ CachedLate'
    BY <1>1, <2>3, RelayedWaits, CachedWaits
  <2>5. FocusTyped'
    BY <1>1, <2>1, <2>3, Zenon DEF FocusTyped
  <2>6. \A n \in Int : n <= now => n <= now'
    BY <2>2, <2>3
  <2>7. \A p \in Windows : lastActive'[p] <= now'
    BY <1>1, <2>6 DEF FocusTyped
  <2>8. Printed'
    <3>1. \A c \in printing : c.at \in Int /\ c.at <= now'
      BY <2>6 DEF Printed, FocusTyped
    <3>2. \A c \in printing : \A p \in c.pids : Held(p, c.at)'
      BY <1>1 DEF Printed, Held
    <3>3. desktop' \notin Focus!Commands => printing' = {}
      BY <1>1 DEF Printed
    <3>. QED  BY <1>1, <2>3, <3>1, <3>2, <3>3 DEF Printed
  <2>9. Filed'
    BY <1>1, <2>1 DEF Filed
  <2>. QED  BY <2>4, <2>5, <2>7, <2>8, <2>9
<1>. QED  BY <1>2, <1>3

-----------------------------------------------------------------------------
(* The steps of the sampler's thread.                                       *)

LEMMA LoadStep ==
    ASSUME FocusInv, Focus!LoadPid \/ Focus!LoadStamp \/ Focus!ReadPidFile
    PROVE  FocusInv'
<1> USE DEF FocusInv
<1>1. UNCHANGED <<desktop, active, alive, lastActive, now, wall, back, calls, registered, half,
                  late, state, file, enabled, unwritten, printing, cached>>
  BY Zenon DEF Focus!LoadPid, Focus!LoadStamp, Focus!ReadPidFile, Focus!world, Focus!kde,
               Focus!extension, Focus!clock, Focus!command
<1>2. ASSUME NEW l \in loaded'  PROVE l \in [pid : Windows, at : Nat] /\ l.at <= now /\ Kept(l)
  <2>1. CASE l \in loaded
    BY <2>1 DEF Relayed, FocusTyped
  <2>2. CASE l \notin loaded
    <3>1. /\ desktop = "kde" /\ ~ (state.pid <= 0)
          /\ loaded' = {[pid |-> state.pid, at |-> now]}
      <4>1. Focus!LoadPid
        BY <1>2, <2>2, Zenon DEF Focus!LoadPid, Focus!LoadStamp, Focus!ReadPidFile, Focus!kde
      <4>. QED  BY <1>2, <2>2, <4>1, Zenon DEF Focus!LoadPid
    <3>2. state.pid \in Windows /\ now \in Nat /\ l = [pid |-> state.pid, at |-> now]
      BY <1>2, <3>1, FocusNumbers, NoPidIsNone DEF FocusTyped
    <3>3. l \in [pid : Windows, at : Nat] /\ l.at = now /\ l.pid = state.pid
      BY <3>2
    <3>4. now \in Int /\ Floor \in Int /\ lastActive[state.pid] \in Int
      BY <3>2, FocusNumbers
    <3>5. Kept(l)
      <4>1. CASE calls = <<>>
        <5>1. state.pid = active
          BY <3>2, <4>1, NoPidIsNone DEF Relayed, Chained
        <5>. QED  BY <3>3, <5>1 DEF Kept
      <4>2. CASE calls # <<>>
        <5>1. Held(state.pid, calls[1].made)
          BY <4>2 DEF Relayed, Chained
        <5>2. CASE state.pid = active
          BY <3>3, <5>2 DEF Kept
        <5>3. CASE lastActive[state.pid] >= calls[1].made
          <6>1. 1 \in 1 .. Len(calls)
            BY <4>2 DEF FocusTyped
          <6>2. calls[1].made \in Int /\ Floor <= calls[1].made
                /\ \A c \in half : c.made \in Int /\ c.made <= calls[1].made
            BY <6>1, FocusNumbers, CallNumbers DEF Relayed, Queued, FocusTyped
          <6>3. lastActive[state.pid] >= Floor /\ \A c \in half : lastActive[state.pid] >= c.made
            BY <3>4, <5>3, <6>2
          <6>. QED  BY <3>3, <4>2, <5>3, <6>3 DEF Kept
        <5>. QED  BY <3>2, <5>1, <5>2, <5>3 DEF Held
      <4>. QED  BY <4>1, <4>2
    <3>. QED  BY <3>3, <3>4, <3>5
  <2>. QED  BY <2>1, <2>2
<1>3. loaded' \subseteq [pid : Windows, at : Nat] /\ \A l \in loaded' : l.at <= now /\ Kept(l)
  BY <1>2
<1>4. FocusTyped'
  BY <1>1, <1>3, Zenon DEF FocusTyped
<1>5. ~ registered => loaded' = {}
  <2>1. ~ registered => state.pid <= 0 /\ loaded = {}
    BY NoPidIsNone DEF Relayed
  <2>. QED  BY <2>1, Zenon DEF Focus!LoadPid, Focus!LoadStamp, Focus!ReadPidFile, Focus!kde
<1>6. Floor' = Floor
  BY <1>1 DEF Floor
<1>7. \A l : Kept(l)' <=> Kept(l)
  BY <1>1, <1>6 DEF Kept
<1>8. Queued' /\ Chained'
  BY <1>1, <1>6 DEF Relayed, Queued, Chained, Held
<1>9. Relayed'
  BY <1>1, <1>3, <1>5, <1>6, <1>7, <1>8 DEF Relayed
<1>. QED  BY <1>1, <1>4, <1>9, RestWaits

\* A command prints what is active; its answer is stamped when it has ended.
LEMMA CommandStep ==
    ASSUME FocusInv, Focus!AskCommand \/ Focus!CommandEnds
    PROVE  FocusInv'
<1> USE DEF FocusInv
<1>1. UNCHANGED <<desktop, active, alive, lastActive, now, wall, calls, registered, half, late,
                  state, loaded, file, enabled, unwritten>>
  BY Zenon DEF Focus!AskCommand, Focus!CommandEnds, Focus!world, Focus!kde, Focus!extension,
               Focus!clock
<1>2. Filed' /\ \A p \in Windows : lastActive'[p] <= now'
  BY <1>1 DEF Filed
<1>3. desktop \in Focus!Commands
  BY Zenon DEF Focus!AskCommand, Focus!CommandEnds, Printed
<1>4. desktop # "kde"
  BY <1>3 DEF Focus!Commands
<1>5. Relayed'
  <2>1. now' \in Nat /\ now' >= now
    BY <1>1 DEF FocusTyped
  <2>. QED  BY <1>1, <1>4, <2>1, RelayedWaits
<1>6. CASE Focus!AskCommand
  <2>1. UNCHANGED <<back, cached>> /\ printing' = {[pids |-> Focus!Asked, at |-> now]}
    BY <1>6, Zenon DEF Focus!AskCommand, Focus!clock
  <2>2. Focus!Asked \subseteq {active}
    BY <1>3, AskedIsActive
  <2>3. now \in Nat /\ now \in Int /\ active \in Windows \cup {0} /\ CommandTime \in Nat
    BY DesktopAssumption DEF FocusTyped
  <2> HIDE DEF FocusInv
  <2>4. /\ [pids |-> Focus!Asked, at |-> now] \in [pids : SUBSET (Windows \cup {0}), at : Nat]
        /\ printing' \subseteq [pids : SUBSET (Windows \cup {0}), at : Nat]
    BY <2>1, <2>2, <2>3
  <2>5. FocusTyped'
    BY <1>1, <2>1, <2>4, Zenon DEF FocusTyped, FocusInv
  <2>6. ASSUME NEW c \in printing'
        PROVE  c.at <= now /\ now - c.at <= CommandTime /\ \A p \in c.pids : Held(p, c.at)
    <3>1. c.at = now /\ c.pids \subseteq {active}
      BY <2>1, <2>2
    <3>. QED  BY <2>3, <3>1 DEF Held
  <2>7. Printed'
    BY <1>1, <1>3, <2>6 DEF Printed, Held
  <2>8. CachedLate'
    BY <1>1, <2>1 DEF CachedLate, Heard, Held, FocusInv
  <2>. QED  BY <1>2, <1>5, <2>5, <2>7, <2>8 DEF FocusInv
<1>7. CASE Focus!CommandEnds
  <2>0. PICK c \in printing : \E p \in Focus!Run(c.pids) :
           /\ cached' = Focus!Cached(p)
           /\ back' = IF p > 0 THEN 0 ELSE back
    BY <1>7, Zenon DEF Focus!CommandEnds
  <2>1. PICK p \in Focus!Run(c.pids) : /\ cached' = Focus!Cached(p)
                                       /\ back' = IF p > 0 THEN 0 ELSE back
    BY <2>0
  <2>2. printing' = {}
    BY <1>7, Zenon DEF Focus!CommandEnds
  <2>3. /\ now \in Int /\ wall \in Int /\ back \in Int /\ cached.at \in Int /\ c.at \in Int
        /\ CommandTime \in Nat /\ \A q \in Windows : lastActive[q] \in Int
    BY FocusNumbers, DesktopAssumption DEF FocusTyped
  <2>4. Heard <= now /\ Held(cached.pid, Heard - CommandTime)
    BY <1>3 DEF CachedLate
  <2>5. cached.pid \in Windows \cup {Focus!NoPid}
    BY FocusNumbers
  <2>6. CASE p > 0
    <3>1. cached' = [pid |-> p, at |-> wall] /\ back' = 0
      BY <2>1, <2>6, Zenon DEF Focus!Cached
    <3>2. p \in c.pids /\ p \in Windows
      BY <2>1, <2>6, NoPidIsNone DEF Focus!Run, FocusTyped
    <3>3. c.at <= now /\ now - c.at <= CommandTime /\ Held(p, c.at)
      BY <3>2 DEF Printed
    <3>4. cached'.pid = p /\ cached'.at = wall
          /\ cached' \in [pid : Windows \cup {Focus!NoPid}, at : Int]
      BY <2>3, <3>1, <3>2
    <3>5. Heard' = now
      <4>1. Heard' = now - (wall - wall) - 0
        BY <1>1, <3>1, <3>4, Zenon DEF Heard
      <4>. QED  BY <2>3, <4>1
    <3>6. Held(p, now - CommandTime)
      <4>1. now - CommandTime <= c.at
        BY <2>3, <3>3
      <4>. QED  BY <2>3, <3>3, <4>1 DEF Held
    <3>7. CachedLate'
      <4>1. now <= now
        BY <2>3
      <4>. QED  BY <1>1, <3>4, <3>5, <3>6, <4>1 DEF CachedLate, Held
    <3>8. back' \in Int
      BY <3>1
    <3>9. FocusTyped'
      BY <1>1, <2>2, <3>4, <3>8, Zenon DEF FocusTyped
    <3>10. Printed'
      BY <2>2 DEF Printed
    <3>. QED  BY <1>2, <1>5, <3>7, <3>9, <3>10
  <2>7. CASE ~ (p > 0)
    <3>1. back' = back
      BY <2>1, <2>7
    <3>2. \/ cached' = [pid |-> cached.pid, at |-> cached.at]
          \/ cached' = [pid |-> Focus!NoPid, at |-> cached.at]
      BY <2>1, <2>7 DEF Focus!Cached
    <3>3. /\ cached'.at = cached.at /\ cached'.pid \in {cached.pid, Focus!NoPid}
          /\ cached' \in [pid : Windows \cup {Focus!NoPid}, at : Int]
      BY <2>3, <2>5, <3>2
    <3>4. Heard' = Heard
      BY <1>1, <3>1, <3>3 DEF Heard
    <3>5. CachedLate'
      <4>1. Held(cached'.pid, Heard - CommandTime)
        BY <2>4, <3>3, NoPidIsNone DEF Held
      <4>. QED  BY <1>1, <2>4, <3>4, <4>1 DEF CachedLate, Held
    <3>6. FocusTyped'
      BY <1>1, <2>2, <3>1, <3>3, Zenon DEF FocusTyped
    <3>7. Printed'
      BY <2>2 DEF Printed
    <3>. QED  BY <1>2, <1>5, <3>5, <3>6, <3>7
  <2>. QED  BY <2>6, <2>7
<1>. QED  BY <1>6, <1>7

LEMMA FocusInvStep ==
    ASSUME FocusInv, [Focus!Next]_(Focus!vars)
    PROVE  FocusInv'
<1>1. ASSUME NEW p \in Windows \cup {0}, Focus!Activate(p)  PROVE FocusInv'
  <2>1. Focus!Moved(p) /\ alive' \subseteq Windows
    BY <1>1 DEF Focus!Activate, FocusInv, FocusTyped
  <2>. QED  BY <2>1, MovedStep
<1>2. ASSUME NEW p \in Windows, Focus!Exit(p)  PROVE FocusInv'
  <2>1. alive' \subseteq Windows
    BY <1>2 DEF Focus!Exit, FocusInv, FocusTyped
  <2>2. CASE p = active
    BY <1>2, <2>1, <2>2, MovedStep DEF Focus!Exit
  <2>3. CASE p # active
    <3>1. UNCHANGED <<now, wall, back, desktop, active, lastActive, calls, registered, half, late,
                      state, loaded, file, enabled, unwritten, printing, cached>>
      BY <1>2, <2>3, Zenon DEF Focus!Exit, Focus!clock, Focus!kde, Focus!extension, Focus!command
    <3>2. Floor' = Floor /\ now' \in Nat /\ now' >= now
      BY <3>1 DEF Floor, FocusInv, FocusTyped
    <3>3. FocusTyped'
      BY <2>1, <3>1, Zenon DEF FocusInv, FocusTyped
    <3>4. Relayed'
      BY <3>1, <3>2, RelayedWaits
    <3>. QED  BY <3>1, <3>3, <3>4, RestWaits DEF FocusInv
  <2>. QED  BY <2>2, <2>3
<1>3. CASE UNCHANGED Focus!vars
  <2>1. UNCHANGED <<now, wall, back, desktop, active, alive, lastActive, calls, registered, half,
                    late, state, loaded, file, enabled, unwritten, printing, cached>>
    BY <1>3, Zenon DEF Focus!vars, Focus!world, Focus!clock, Focus!kde, Focus!extension,
                       Focus!command
  <2>2. Floor' = Floor /\ now' \in Nat /\ now' >= now
    BY <2>1 DEF Floor, FocusInv, FocusTyped
  <2>3. FocusTyped'
    BY <2>1, Zenon DEF FocusInv, FocusTyped
  <2>4. Relayed'
    BY <2>1, <2>2, RelayedWaits
  <2>. QED  BY <2>1, <2>3, <2>4, RestWaits DEF FocusInv
<1>. QED  BY <1>1, <1>2, <1>3, ServiceStep, WorldStep, LoadStep, CommandStep DEF Focus!Next

-----------------------------------------------------------------------------
(* The answers.                                                            *)

Age(p) == IF p \in Windows \ {active} THEN now - lastActive[p] ELSE 0

\* KdeFocusProvider::focusedPid: the stamp bounds the age, or the read does.
LEMMA KdeAnswerIsRecent ==
    ASSUME FocusInv, Focus!LoadPid \/ Focus!LoadStamp
    PROVE  Focus!FocusAnswersAreRecent'
<1> USE DEF FocusInv
<1>1. UNCHANGED <<desktop, active, lastActive, now, back, late>>
  BY Zenon DEF Focus!LoadPid, Focus!LoadStamp, Focus!world, Focus!clock
<1>2. desktop = "kde"
  <2>1. CASE Focus!LoadPid
    BY <2>1 DEF Focus!LoadPid
  <2>2. CASE Focus!LoadStamp
    <3>1. loaded # {}
      BY <2>2, Zenon DEF Focus!LoadStamp
    <3>. QED  BY <3>1 DEF Relayed
  <2>. QED  BY <2>1, <2>2
<1>3. /\ now \in Int /\ wall \in Int /\ back \in Int /\ late \in Int /\ late >= 0
      /\ state.stamp \in Int /\ \A p \in Windows : lastActive[p] \in Int
      /\ KdeTtl \in Int
  BY FocusNumbers, DesktopAssumption
<1>4. ASSUME NEW a \in answer'
      PROVE  a.age <= KdeTtl + back + late \/ a.age <= a.read + late
  <2>1. CASE Focus!LoadPid
    <3>1. answer' # {} => Focus!Answer(Focus!NoPid, 0)
      BY <2>1, Zenon DEF Focus!LoadPid
    <3>2. a.age = 0 /\ a.read = 0
      BY <1>4, <3>1, NoPidIsNone DEF Focus!Answer
    <3>. QED  BY <1>3, <3>2
  <2>2. CASE Focus!LoadStamp
    <3>1. PICK l \in loaded :
             Focus!Answer(IF wall - state.stamp > KdeTtl THEN Focus!NoPid ELSE l.pid, now - l.at)
      BY <2>2, Zenon DEF Focus!LoadStamp
    <3>2. l.pid \in Windows /\ l.at \in Int /\ l.at <= now /\ Kept(l)
      BY DEF Relayed, FocusTyped
    <3>3. \/ a.age = 0 /\ a.read = now - l.at
          \/ /\ a.age = now - lastActive[l.pid] /\ a.read = now - l.at
             /\ l.pid # active /\ ~ (wall - state.stamp > KdeTtl)
      BY <1>4, <3>1, NoPidIsNone DEF Focus!Answer
    <3>4. CASE a.age = 0 /\ a.read = now - l.at
      BY <1>3, <3>2, <3>4
    <3>5. CASE /\ a.age = now - lastActive[l.pid] /\ a.read = now - l.at
               /\ l.pid # active /\ ~ (wall - state.stamp > KdeTtl)
      <4>0. lastActive[l.pid] \in Int
        BY <1>3, <3>2
      <4>1. CASE lastActive[l.pid] + late >= l.at
        BY <1>3, <3>2, <3>5, <4>0, <4>1
      <4>2. CASE lastActive[l.pid] >= Floor
        <5>1. lastActive[l.pid] >= now - (wall - state.stamp) - back - late
          BY <4>2 DEF Floor
        <5>. QED  BY <1>3, <3>5, <4>0, <5>1
      <4>. QED  BY <3>2, <3>5, <4>1, <4>2 DEF Kept
    <3>. QED  BY <3>3, <3>4, <3>5
  <2>. QED  BY <2>1, <2>2
<1>. QED  BY <1>1, <1>2, <1>4 DEF Focus!FocusAnswersAreRecent, Focus!Commands

\* GnomePidFileProvider::focusedPid: the file names the active window.
LEMMA GnomeAnswerIsRecent ==
    ASSUME FocusInv, Focus!ReadPidFile
    PROVE  Focus!FocusAnswersAreRecent'
<1> USE DEF FocusInv
<1>1. desktop = "gnome" /\ desktop' = desktop
  BY Zenon DEF Focus!ReadPidFile, Focus!world
<1>2. ASSUME NEW a \in answer', a.written  PROVE a.age = 0
  <2>1. PICK p : Focus!Answer(p, 0) /\ p = IF file \subseteq alive /\ file # {} THEN Focus!Max(file)
                                          ELSE Focus!NoPid
    BY Zenon DEF Focus!ReadPidFile
  <2>2. /\ a.written = ~ unwritten
        /\ a.age = IF p \in Windows \ {active} THEN now - lastActive[p] ELSE 0
    <3>1. a = [pid |-> p, age |-> IF p \in Windows \ {active} THEN now - lastActive[p] ELSE 0,
               read |-> 0, written |-> ~ unwritten,
               known |-> half = {} /\ active > 0 /\ state.pid = active]
      BY <1>2, <2>1 DEF Focus!Answer
    <3>. QED  BY <3>1
  <2>3. ~ unwritten
    BY <1>2, <2>2
  <2>4. CASE file # {}
    <3>1. active \in Int /\ file \subseteq {active}
      BY <2>3, DesktopAssumption DEF Filed, FocusTyped
    <3>2. file = {active}
      BY <2>4, <3>1
    <3>3. Focus!Max(file) = active
      BY <3>1, <3>2 DEF Focus!Max
    <3>. QED  BY <2>1, <2>2, <3>3, NoPidIsNone
  <2>5. CASE file = {}
    BY <2>1, <2>2, <2>5, NoPidIsNone
  <2>. QED  BY <2>4, <2>5
<1>. QED  BY <1>1, <1>2 DEF Focus!FocusAnswersAreRecent, Focus!Commands

\* CachingFocusProvider::focusedPid: what is answered is what is cached now.
LEMMA CommandAnswerIsRecent ==
    ASSUME FocusInv, Focus!CommandEnds
    PROVE  Focus!FocusAnswersAreRecent'
<1> USE DEF FocusInv
<1>1. UNCHANGED <<desktop, active, lastActive, now, wall>>
  BY Zenon DEF Focus!CommandEnds, Focus!world
<1>2. desktop \in Focus!Commands /\ desktop # "kde" /\ desktop # "gnome"
  <2>1. printing # {}
    BY Zenon DEF Focus!CommandEnds
  <2>. QED  BY <2>1 DEF Printed, Focus!Commands
<1>3. Focus!Answer(cached'.pid, 0)
  BY Zenon DEF Focus!CommandEnds
<1>4. CachedLate' /\ FocusTyped'
  BY CommandStep
<1>5. PICK p : cached' = Focus!Cached(p)
  BY Zenon DEF Focus!CommandEnds
<1>6. /\ now \in Int /\ wall \in Int /\ back' \in Int /\ cached'.at \in Int /\ CommandTime \in Nat
      /\ CacheTtl \in Nat /\ \A q \in Windows : lastActive[q] \in Int
      /\ cached'.pid \in Windows \cup {Focus!NoPid}
  BY <1>4, FocusNumbers, DesktopAssumption DEF FocusTyped
<1>7. cached'.pid \in Windows => wall - cached'.at <= CacheTtl
  <2>1. CASE p > 0
    <3>1. cached' = [pid |-> p, at |-> wall]
      BY <1>5, <2>1, Zenon DEF Focus!Cached
    <3>. QED  BY <1>6, <3>1
  <2>2. CASE ~ (p > 0)
    <3>1. \/ cached' = [pid |-> cached.pid, at |-> cached.at] /\ wall - cached.at <= CacheTtl
          \/ cached' = [pid |-> Focus!NoPid, at |-> cached.at]
      BY <1>5, <2>2 DEF Focus!Cached
    <3>. QED  BY <3>1, NoPidIsNone
  <2>. QED  BY <2>1, <2>2
<1> DEFINE q == cached'.pid
           at == cached'.at
<1>8. q \in Windows => /\ q = active \/ lastActive[q] >= now - (wall - at) - back' - CommandTime
                       /\ now - (wall - at) - back' <= now
  BY <1>1, <1>2, <1>4 DEF CachedLate, Held, Heard
<1>9. ASSUME q \in Windows
      PROVE  Age(q) <= CacheTtl + CommandTime + back'
  <2>1. lastActive[q] \in Int /\ at \in Int
    BY <1>6, <1>9
  <2>2. /\ q = active \/ lastActive[q] >= now - (wall - at) - back' - CommandTime
        /\ now - (wall - at) - back' <= now /\ wall - at <= CacheTtl
    BY <1>7, <1>8, <1>9
  <2> HIDE DEF q, at
  <2>3. CASE q = active
    <3>1. \A n, w, t, b, d, k \in Int :
             (n - (w - t) - b <= n /\ w - t <= k /\ d >= 0) => 0 <= k + d + b
      OBVIOUS
    <3>2. CommandTime >= 0 /\ CommandTime \in Int /\ CacheTtl \in Int
      BY <1>6
    <3>3. 0 <= CacheTtl + CommandTime + back'
      BY <1>6, <2>1, <2>2, <3>1, <3>2, Zenon
    <3>. QED  BY <2>3, <3>3 DEF Age
  <2>4. CASE q # active
    <3>1. \A n, w, t, b, d, k, m \in Int :
             (m >= n - (w - t) - b - d /\ w - t <= k) => n - m <= k + d + b
      OBVIOUS
    <3>. QED  BY <1>6, <1>9, <2>1, <2>2, <2>4, <3>1 DEF Age
  <2>. QED  BY <2>3, <2>4
<1>10. \A a \in answer' : a.pid # Focus!NoPid => a.pid \in Windows /\ a.age = Age(a.pid)
                                                /\ a.pid = q
  BY <1>3, <1>6 DEF Focus!Answer, Age
<1> HIDE DEF q
<1>. QED  BY <1>1, <1>2, <1>9, <1>10 DEF Focus!FocusAnswersAreRecent

\* An answer made now is recent.
LEMMA AnswerIsRecent ==
    ASSUME FocusInv, [Focus!Next]_(Focus!vars), Focus!FocusAnswersAreRecent
    PROVE  Focus!FocusAnswersAreRecent'
<1>1. CASE \/ Focus!Enable \/ Focus!Disable \/ Focus!Elapse \/ Focus!SetClock
           \/ Focus!RegisterService \/ Focus!StorePid \/ Focus!StoreStamp \/ Focus!AskCommand
           \/ Focus!Activate(0) \/ \E p \in Windows : Focus!Activate(p) \/ Focus!Exit(p)
  <2>1. answer' = {}
    BY <1>1, Zenon DEF Focus!Enable, Focus!Disable, Focus!Elapse, Focus!SetClock,
                       Focus!RegisterService, Focus!StorePid, Focus!StoreStamp, Focus!AskCommand,
                       Focus!Activate, Focus!Exit
  <2>. QED  BY <2>1 DEF Focus!FocusAnswersAreRecent
<1>2. CASE UNCHANGED Focus!vars
  BY <1>2 DEF Focus!vars, Focus!clock, Focus!world, Focus!kde, Focus!FocusAnswersAreRecent
<1>. QED
  BY <1>1, <1>2, KdeAnswerIsRecent, GnomeAnswerIsRecent, CommandAnswerIsRecent, Zenon
  DEF Focus!Next

-----------------------------------------------------------------------------
(* Wiring: what main() has joined in a phase.                              *)

Objects == {"app", "hud", "provider"}
ThreadNames == {"docker", "kube", "sampler"}
ThreadStates == {"running", "asked", "stopped", "quitting", "finished"}
Phases == {"boot", "exec", "docker", "kube", "sampler", "destroy", "gone"}

\* The threads main() has joined when it is in a phase.
Joined(ph) ==
    {t \in ThreadNames : \/ ph \in {"destroy", "gone"}
                         \/ ph = "sampler" /\ t # "sampler"
                         \/ ph = "kube" /\ t = "docker"}

\* A sample keeps its thread from finishing, a phase implies the joins before
\* it, and the objects are all there until the last join.
Ordered ==
    /\ phase \in Phases
    /\ threads \in [ThreadNames -> ThreadStates]
    /\ reading # {} => threads["sampler"] # "finished"
    /\ \A t \in Joined(phase) : threads[t] = "finished"
    /\ phase \notin {"destroy", "gone"} => objects = Objects
    /\ inbox # <<>> => "hud" \in objects

LEMMA OrderedInit == Main!Init => Ordered
BY DEF Main!Init, Ordered, Phases, ThreadNames, ThreadStates, Joined, Objects

\* A thread that finished makes no step and is not asked again.
LEMMA ThreadStep ==
    ASSUME Ordered, NEW t \in ThreadNames,
           Main!AskStop(t) \/ Main!Quit(t) \/ Main!StopReturns(t) \/ Main!Finish(t)
    PROVE  Ordered'
<1>1. /\ threads' \in [ThreadNames -> ThreadStates]
      /\ \A u \in ThreadNames : threads[u] = "finished" => threads'[u] = "finished"
  BY DEF Ordered, Main!AskStop, Main!Quit, Main!StopReturns, Main!Finish, ThreadStates
<1>2. UNCHANGED <<phase, objects, inbox, reading>>
  BY DEF Main!AskStop, Main!Quit, Main!StopReturns, Main!Finish, Main!watcher, Main!sampling,
         Main!window
<1>3. \A u \in Joined(phase) : threads'[u] = "finished"
  BY <1>1 DEF Ordered, Joined, ThreadNames, Phases
<1>4. ASSUME reading # {}  PROVE threads'["sampler"] # "finished"
  BY <1>4, Zenon DEF Ordered, Main!AskStop, Main!Quit, Main!StopReturns, Main!Finish, ThreadNames
<1>. QED  BY <1>1, <1>2, <1>3, <1>4 DEF Ordered

\* main() goes on only with one thread more that has finished.
LEMMA JoinStep ==
    ASSUME Ordered, NEW t \in ThreadNames, Main!Join(t)
    PROVE  Ordered'
<1>1. UNCHANGED <<objects, inbox, reading, threads>> /\ phase = t /\ phase' = Main!After[t]
  BY DEF Main!Join, Main!watcher, Main!sampling, Main!window
<1>2. threads[t] = "finished"
  BY DEF Main!Join
<1>3. phase' \in Phases /\ Joined(phase') = Joined(phase) \cup {t}
  BY <1>1 DEF Main!After, Phases, Joined, ThreadNames
<1>4. phase \notin {"destroy", "gone"}
  BY <1>1 DEF ThreadNames
<1>. QED  BY <1>1, <1>2, <1>3, <1>4 DEF Ordered

LEMMA OrderedStep == Ordered /\ [Main!Next]_(Main!vars) => Ordered'
<1> SUFFICES ASSUME Ordered, [Main!Next]_(Main!vars)  PROVE Ordered'
  OBVIOUS
<1>1. CASE Main!Write
  BY <1>1 DEF Main!Write, Ordered, Main!process, Main!sampling, Main!window
<1>2. CASE Main!OnChange
  BY <1>2 DEF Main!OnChange, Ordered, Main!process, Main!window
<1>3. CASE Main!SampleNow
  BY <1>3 DEF Main!SampleNow, Main!SamplerFree, Ordered, Main!process, Main!watcher, Main!window
<1>4. CASE Main!SnapshotReady
  <2>1. UNCHANGED <<phase, objects, threads>> /\ reading' = {}
    BY <1>4 DEF Main!SnapshotReady, Main!process
  <2>2. "hud" \notin objects => inbox' = inbox
    BY <1>4 DEF Main!SnapshotReady
  <2>. QED  BY <2>1, <2>2 DEF Ordered
<1>5. CASE Main!Apply
  BY <1>5 DEF Main!Apply, Ordered, Main!process, Main!sampling
<1>6. CASE Main!Signal
  BY <1>6 DEF Main!Signal, Ordered, Main!watcher, Main!sampling, Main!window
<1>7. CASE Main!Exec
  BY <1>7 DEF Main!Exec, Ordered, Joined, Phases, Main!watcher, Main!sampling, Main!window
<1>8. CASE Main!OnSignal
  BY <1>8 DEF Main!OnSignal, Ordered, Joined, Phases, Main!watcher, Main!sampling, Main!window
<1>9. CASE Main!Destroy
  <2>1. UNCHANGED <<threads, reading>> /\ phase = "destroy" /\ phase' \in {"destroy", "gone"}
    BY <1>9 DEF Main!Destroy, Main!sampling
  <2>2. inbox' # <<>> => "hud" \in objects'
    BY <1>9 DEF Main!Destroy
  <2>3. Joined(phase') = Joined(phase)
    BY <2>1 DEF Joined
  <2>. QED  BY <2>1, <2>2, <2>3 DEF Ordered, Phases
<1>10. CASE \E t \in DOMAIN threads :
              Main!AskStop(t) \/ Main!Quit(t) \/ Main!Join(t) \/ Main!StopReturns(t) \/ Main!Finish(t)
  <2>1. DOMAIN threads = ThreadNames
    BY DEF Ordered
  <2>. QED  BY <1>10, <2>1, ThreadStep, JoinStep
<1>11. CASE UNCHANGED Main!vars
  BY <1>11 DEF Main!vars, Main!process, Main!watcher, Main!sampling, Main!window, Ordered
<1>. QED
  BY <1>1, <1>2, <1>3, <1>4, <1>5, <1>6, <1>7, <1>8, <1>9, <1>10, <1>11 DEF Main!Next,
      Main!Shutdown

\* What the phases promise is what the property asks.
LEMMA OrderedIsAlive == Ordered => Main!UsesAreAlive
<1> SUFFICES ASSUME Ordered  PROVE Main!UsesAreAlive
  OBVIOUS
<1>1. phase \in {"destroy", "gone"} => \A t \in ThreadNames : threads[t] = "finished"
  BY DEF Ordered, Joined
<1>2. reading # {} => phase \notin {"destroy", "gone"}
  BY <1>1 DEF Ordered, ThreadNames
<1>. QED  BY <1>1, <1>2 DEF Ordered, Main!UsesAreAlive, Objects

-----------------------------------------------------------------------------
(* HudPages: a badge, the pages and the press of a button.                  *)

Summaries == {"", "up"}
Details == {"", "no issues", "issues"}

Badge == [text : Summaries, visible : BOOLEAN, open : BOOLEAN, details : Details,
          label : Details, labelVisible : BOOLEAN]

\* What HudPagesAgree asks of one badge.
BadgeAgrees(badge, isBlind) ==
    /\ badge.labelVisible = badge.open
    /\ badge.open => badge.label = badge.details
    /\ badge.text # "" => badge.visible
    /\ (badge.visible /\ badge.text = "") => isBlind

PagesShown ==
    /\ expanded \in BOOLEAN /\ compact \in BOOLEAN
    /\ panel = expanded /\ compactPage = ~ expanded
    /\ metrics = ~ compact /\ compactText = compact /\ more = metrics
    /\ expanded => ~ compact

BadgesAgree ==
    /\ badges \in [Pages!Sources -> Badge]
    /\ \A s \in Pages!Sources : BadgeAgrees(badges[s], s \in blind)

\* A press of a button is pending until its release, and drags since the
\* pointer left it; the window is not moved by itself and by the window manager.
PressesAgree ==
    /\ far \in BOOLEAN /\ grabbed \in BOOLEAN /\ dragging \in BOOLEAN
    /\ drag \in [pending : BOOLEAN, active : BOOLEAN, manual : BOOLEAN]
    /\ pressed \in Pages!Buttons => (drag.pending /\ (drag.active <=> far))
    /\ last.clicked = ~ last.far
    /\ dragging => pressed = "body" /\ ~ grabbed

PagesInv == PagesShown /\ BadgesAgree /\ PressesAgree

LEMMA PagesInvInit == Pages!Init => PagesInv
<1> SUFFICES ASSUME Pages!Init  PROVE PagesInv
  OBVIOUS
<1>1. PagesShown
  BY DEF Pages!Init, PagesShown
<1>2. BadgesAgree
  BY DEF Pages!Init, BadgesAgree, BadgeAgrees, Badge, Summaries, Details
<1>3. last.clicked = ~ last.far
  BY DEF Pages!Init
<1>4. PressesAgree
  BY <1>3 DEF Pages!Init, PressesAgree, Pages!NoDrag, Pages!Buttons, Pages!Sources
<1>. QED  BY <1>1, <1>2, <1>4 DEF PagesInv

\* A snapshot leaves its badge in agreement; it stays visible without a
\* summary only when it was so, or when the dashboard hid it.
LEMMA SnapshotAgrees ==
    ASSUME PagesShown, NEW badge \in Badge, NEW isBlind, BadgeAgrees(badge, isBlind),
           NEW snapshot \in Pages!Snapshots
    PROVE  /\ Pages!WithSnapshot(badge, snapshot) \in Badge
           /\ BadgeAgrees(Pages!WithSnapshot(badge, snapshot),
                          expanded /\ badge.visible /\ snapshot.summary = "")
<1> DEFINE new == Pages!WithSnapshot(badge, snapshot)
           now_ == snapshot.summary # ""
           told == (badge.visible /\ compactPage) # now_
           open == badge.open /\ ~ (told /\ ~ now_)
<1>1. snapshot.summary \in Summaries /\ snapshot.details \in Details
  <2>1. CASE snapshot = [summary |-> "", details |-> "no issues"]
    BY <2>1 DEF Summaries, Details
  <2>2. CASE snapshot = [summary |-> "up", details |-> "no issues"]
    BY <2>2 DEF Summaries, Details
  <2>3. CASE snapshot = [summary |-> "up", details |-> "issues"]
    BY <2>3 DEF Summaries, Details
  <2>. QED  BY <2>1, <2>2, <2>3, Zenon DEF Pages!Snapshots
<1>2. /\ new.text = snapshot.summary /\ new.details = snapshot.details
      /\ new.label = IF open THEN snapshot.details ELSE badge.label
  BY DEF Pages!WithSnapshot
<1>3. /\ new.open = open
      /\ new.visible = IF told THEN now_ ELSE badge.visible
      /\ new.labelVisible = IF open THEN TRUE ELSE badge.labelVisible /\ ~ (told /\ ~ now_)
  BY DEF Pages!WithSnapshot
<1>4. new = [text |-> new.text, details |-> new.details, open |-> new.open,
             visible |-> new.visible, label |-> new.label, labelVisible |-> new.labelVisible]
  BY DEF Pages!WithSnapshot
<1>5. /\ badge.visible \in BOOLEAN /\ badge.open \in BOOLEAN /\ badge.labelVisible \in BOOLEAN
      /\ badge.label \in Details
  BY DEF Badge
<1>6. compactPage = ~ expanded /\ expanded \in BOOLEAN
  BY DEF PagesShown
<1> HIDE DEF new, open, told, now_
<1>7. now_ \in BOOLEAN /\ told \in BOOLEAN /\ open \in BOOLEAN
  BY Zenon DEF now_, told, open
<1>8. new.open \in BOOLEAN /\ new.visible \in BOOLEAN /\ new.labelVisible \in BOOLEAN
  BY <1>3, <1>5, <1>7, Zenon
<1>9. new \in Badge
  BY <1>1, <1>2, <1>4, <1>5, <1>8 DEF Badge
<1>10. BadgeAgrees(new, expanded /\ badge.visible /\ snapshot.summary = "")
  <2>1. new.labelVisible = new.open
    BY <1>3, <1>5, <1>7, Zenon DEF BadgeAgrees, open
  <2>2. new.open => new.label = new.details
    BY <1>2, <1>3, Zenon
  <2>3. new.text # "" => new.visible
    BY <1>2, <1>3, <1>5, <1>6, <1>7, Zenon DEF now_, told
  <2>4. (new.visible /\ new.text = "") => (expanded /\ badge.visible /\ snapshot.summary = "")
    BY <1>2, <1>3, <1>5, <1>6, <1>7, Zenon DEF now_, told
  <2>. QED  BY <2>1, <2>2, <2>3, <2>4, Zenon DEF BadgeAgrees
<1>. QED  BY <1>9, <1>10 DEF new

\* Snap changes one badge and remembers whether the dashboard hid it.
LEMMA SnapStep ==
    ASSUME PagesInv, NEW s \in Pages!Sources, Pages!Snap(s)
    PROVE  PagesInv'
<1>1. PICK snapshot \in Pages!Snapshots :
         /\ badges' = [badges EXCEPT ![s] = Pages!WithSnapshot(badges[s], snapshot)]
         /\ blind' = IF expanded /\ badges[s].visible /\ snapshot.summary = ""
                     THEN blind \cup {s} ELSE blind \ {s}
         /\ UNCHANGED <<Pages!pages, Pages!mouse>>
  BY Zenon DEF Pages!Snap
<1> DEFINE new == Pages!WithSnapshot(badges[s], snapshot)
<1>2. badges \in [Pages!Sources -> Badge] /\ PagesShown
  BY DEF PagesInv, BadgesAgree
<1>3. badges[s] \in Badge /\ BadgeAgrees(badges[s], s \in blind)
  BY <1>2 DEF PagesInv, BadgesAgree
<1>4. new \in Badge /\ BadgeAgrees(new, expanded /\ badges[s].visible /\ snapshot.summary = "")
  BY <1>2, <1>3, SnapshotAgrees
<1> HIDE DEF new
<1>5. /\ badges' \in [Pages!Sources -> Badge] /\ badges'[s] = new
      /\ \A t \in Pages!Sources \ {s} : badges'[t] = badges[t]
  BY <1>1, <1>2, <1>4 DEF new
<1>6. ((expanded /\ badges[s].visible /\ snapshot.summary = "") => s \in blind')
      /\ \A t \in Pages!Sources \ {s} : t \in blind => t \in blind'
  BY <1>1
<1>7. \A t \in Pages!Sources : BadgeAgrees(badges'[t], t \in blind')
  <2> SUFFICES ASSUME NEW t \in Pages!Sources  PROVE BadgeAgrees(badges'[t], t \in blind')
    OBVIOUS
  <2>1. CASE t = s
    BY <1>4, <1>5, <1>6, <2>1, Zenon DEF BadgeAgrees
  <2>2. CASE t # s
    <3>1. BadgeAgrees(badges[t], t \in blind)
      BY DEF PagesInv, BadgesAgree
    <3>2. badges'[t] = badges[t] /\ (t \in blind => t \in blind')
      BY <1>5, <1>6, <2>2
    <3>. QED  BY <3>1, <3>2, Zenon DEF BadgeAgrees
  <2>. QED  BY <2>1, <2>2
<1>8. PagesShown' /\ PressesAgree'
  BY <1>1 DEF PagesInv, PagesShown, PressesAgree, Pages!pages, Pages!mouse
<1>. QED  BY <1>5, <1>7, <1>8 DEF PagesInv, BadgesAgree

\* toggleDockerDetails, toggleKubeDetails
LEMMA ToggleDetailsOfStep ==
    ASSUME PagesInv, NEW s \in Pages!Sources, Pages!ToggleDetailsOf(s), UNCHANGED blind
    PROVE  PagesShown' /\ BadgesAgree'
<1> DEFINE old == badges[s]
           open == ~ old.open
           new == IF open /\ old.details = "" THEN old
                  ELSE [old EXCEPT !.open = open, !.labelVisible = open,
                                   !.label = IF open THEN old.details ELSE old.label]
<1>1. badges \in [Pages!Sources -> Badge]
  BY DEF PagesInv, BadgesAgree
<1>2. badges' = [badges EXCEPT ![s] = new] /\ UNCHANGED Pages!pages
  BY <1>1 DEF Pages!ToggleDetailsOf
<1>3. old \in Badge /\ BadgeAgrees(old, s \in blind)
  BY <1>1 DEF PagesInv, BadgesAgree
<1>4. new \in Badge
  BY <1>3 DEF Badge
<1>5. \/ new = old
      \/ /\ new.open = open /\ new.labelVisible = open
         /\ new.label = (IF open THEN old.details ELSE old.label)
         /\ new.details = old.details /\ new.text = old.text /\ new.visible = old.visible
  BY <1>3 DEF Badge
<1> HIDE DEF new, open, old
<1>6. BadgeAgrees(new, s \in blind)
  BY <1>3, <1>5, Zenon DEF BadgeAgrees
<1>7. badges' \in [Pages!Sources -> Badge] /\ badges'[s] = new
      /\ \A t \in Pages!Sources \ {s} : badges'[t] = badges[t]
  BY <1>1, <1>2, <1>4
<1>8. \A t \in Pages!Sources : BadgeAgrees(badges'[t], t \in blind')
  BY <1>6, <1>7, Zenon DEF PagesInv, BadgesAgree
<1>9. PagesShown'
  BY <1>2 DEF PagesInv, PagesShown, Pages!pages
<1>. QED  BY <1>7, <1>8, <1>9 DEF BadgesAgree

\* toggleDetails and toggleCompact: the page follows its flag.
LEMMA ToggleStep ==
    ASSUME PagesInv, UNCHANGED blind,
           \/ Pages!ToggleDetails /\ (more \/ panel)
           \/ Pages!ToggleCompact
    PROVE  PagesShown' /\ BadgesAgree'
<1>1. UNCHANGED badges
  BY DEF Pages!ToggleDetails, Pages!ToggleCompact
<1>2. BadgesAgree'
  BY <1>1 DEF PagesInv, BadgesAgree
<1>3. /\ expanded \in BOOLEAN /\ compact \in BOOLEAN /\ (expanded => ~ compact)
      /\ panel = expanded /\ compactPage = ~ expanded /\ more = ~ compact
      /\ metrics = ~ compact /\ compactText = compact
  BY Zenon DEF PagesInv, PagesShown
<1>4. CASE Pages!ToggleDetails /\ (more \/ panel)
  <2>1. /\ expanded' = ~ expanded /\ compactPage' = expanded /\ panel' = ~ expanded
        /\ UNCHANGED <<compact, metrics, compactText, more>>
    BY <1>4 DEF Pages!ToggleDetails
  <2>. QED  BY <1>2, <1>3, <1>4, <2>1, Zenon DEF PagesShown
<1>5. CASE Pages!ToggleCompact
  <2>1. /\ expanded' = FALSE /\ compact' = ~ compact
        /\ metrics' = compact /\ compactText' = ~ compact /\ more' = compact
    BY <1>5 DEF Pages!ToggleCompact
  <2>2. compactPage' = TRUE
    BY <1>3, <1>5 DEF Pages!ToggleCompact
  <2>3. panel' = FALSE
    BY <1>3, <1>5 DEF Pages!ToggleCompact
  <2>4. PagesShown'
    <3>1. compact' \in BOOLEAN /\ metrics' = ~ compact' /\ compactText' = compact'
          /\ more' = metrics'
      BY <1>3, <2>1
    <3>. QED  BY <2>1, <2>2, <2>3, <3>1 DEF PagesShown
  <2>. QED  BY <1>2, <2>4
<1>. QED  BY <1>4, <1>5

LEMMA ReleaseStep ==
    ASSUME PagesInv, Pages!Release
    PROVE  PagesInv'
<1>1. /\ pressed \in Pages!Buttons /\ Pages!Shown(pressed) /\ pressed' = "none"
      /\ drag' = Pages!NoDrag /\ UNCHANGED <<blind, far, grabbed, dragging>>
      /\ last' = [far |-> far, clicked |-> ~ drag.active]
  BY DEF Pages!Release
<1>2. last'.far = far /\ last'.clicked = ~ drag.active
  BY <1>1
<1>3. drag.active <=> far
  BY <1>1, Zenon DEF PagesInv, PressesAgree
<1>4. far \in BOOLEAN /\ drag.active \in BOOLEAN
  BY DEF PagesInv, PressesAgree
<1>5. last'.clicked = ~ last'.far
  BY <1>2, <1>3, <1>4, Zenon
<1>6. pressed' \notin Pages!Buttons
  BY <1>1 DEF Pages!Buttons, Pages!Sources
<1>7. dragging = FALSE
  BY <1>1 DEF PagesInv, PressesAgree, Pages!Buttons, Pages!Sources
<1>8. PressesAgree'
  BY <1>1, <1>5, <1>6, <1>7 DEF PagesInv, PressesAgree, Pages!NoDrag
<1>9. PagesShown' /\ BadgesAgree'
  <2>1. CASE drag.active
    <3>1. UNCHANGED <<Pages!pages, badges>>
      BY <2>1, Zenon DEF Pages!Release
    <3>. QED  BY <1>1, <3>1 DEF PagesInv, PagesShown, BadgesAgree, Pages!pages
  <2>2. CASE ~ drag.active
    <3>0. Pages!Clicked(pressed)
      BY <2>2, Zenon DEF Pages!Release
    <3>1. CASE pressed \in Pages!Sources
      <4>1. Pages!ToggleDetailsOf(pressed)
        BY <3>0, <3>1, Zenon DEF Pages!Clicked, Pages!Sources
      <4>. QED  BY <1>1, <3>1, <4>1, ToggleDetailsOfStep
    <3>2. CASE pressed = "more"
      <4>1. Pages!ToggleDetails
        BY <3>0, <3>2, Zenon DEF Pages!Clicked, Pages!Sources
      <4>2. more
        BY <1>1, <3>2 DEF Pages!Shown
      <4>. QED  BY <1>1, <4>1, <4>2, ToggleStep
    <3>3. CASE pressed = "showHide"
      <4>1. Pages!ToggleCompact
        BY <3>0, <3>3, Zenon DEF Pages!Clicked, Pages!Sources
      <4>. QED  BY <1>1, <4>1, ToggleStep
    <3>. QED  BY <1>1, <3>1, <3>2, <3>3 DEF Pages!Buttons
  <2>. QED  BY <2>1, <2>2
<1>. QED  BY <1>8, <1>9 DEF PagesInv

\* A press, and the steps of the pointer that click nothing.
LEMMA PointerStep ==
    ASSUME PagesInv,
           \/ \E b \in Pages!Buttons : Pages!Press(b)
           \/ Pages!MoveFar \/ Pages!ReleaseElsewhere \/ Pages!PressBody \/ Pages!ReleaseBody
    PROVE  PagesInv'
<1>1. UNCHANGED <<Pages!pages, badges, blind, last>>
  BY DEF Pages!Press, Pages!MoveFar, Pages!ReleaseElsewhere, Pages!PressBody, Pages!ReleaseBody
<1>2. PagesShown' /\ BadgesAgree'
  BY <1>1 DEF PagesInv, PagesShown, BadgesAgree, Pages!pages
<1>3. last'.clicked = ~ last'.far
  BY <1>1 DEF PagesInv, PressesAgree
<1> USE DEF PagesInv, PressesAgree
<1>4. ASSUME NEW b \in Pages!Buttons, Pages!Press(b)  PROVE PressesAgree'
  <2>1. drag'.pending /\ ~ drag'.active /\ far' = FALSE
        /\ drag' \in [pending : BOOLEAN, active : BOOLEAN, manual : BOOLEAN]
    BY <1>4 DEF Pages!Press
  <2>2. pressed = "none" /\ UNCHANGED <<grabbed, dragging>>
    BY <1>4 DEF Pages!Press
  <2>. QED  BY <1>3, <2>1, <2>2
<1>5. CASE Pages!MoveFar
  <2>1. pressed \in Pages!Buttons /\ far' = TRUE /\ UNCHANGED <<pressed, dragging>>
    BY <1>5 DEF Pages!MoveFar
  <2>2. drag.pending /\ (drag.active <=> far) /\ far \in BOOLEAN
    BY <2>1
  <2>3. CASE drag.active
    <3>1. UNCHANGED <<drag, grabbed>>
      BY <1>5, <2>3 DEF Pages!MoveFar
    <3>. QED  BY <1>2, <1>3, <2>1, <2>2, <2>3, <3>1
  <2>4. CASE ~ drag.active
    <3>1. PICK taken \in BOOLEAN :
             drag' = [drag EXCEPT !.active = TRUE, !.manual = ~ taken] /\ grabbed' = taken
      BY <1>5, <2>2, <2>4, Zenon DEF Pages!MoveFar
    <3>2. drag'.pending = drag.pending /\ drag'.active = TRUE
          /\ drag' \in [pending : BOOLEAN, active : BOOLEAN, manual : BOOLEAN]
      BY <3>1
    <3>3. dragging = FALSE
      BY <2>1 DEF Pages!Buttons, Pages!Sources
    <3>. QED  BY <1>2, <1>3, <2>1, <2>2, <3>1, <3>2, <3>3
  <2>. QED  BY <2>3, <2>4
<1>6. CASE Pages!ReleaseElsewhere
  BY <1>2, <1>3, <1>6 DEF Pages!ReleaseElsewhere, Pages!Buttons, Pages!Sources
<1>7. CASE Pages!PressBody
  BY <1>2, <1>3, <1>7 DEF Pages!PressBody, Pages!Buttons, Pages!Sources
<1>8. CASE Pages!ReleaseBody
  BY <1>2, <1>3, <1>8 DEF Pages!ReleaseBody, Pages!Buttons, Pages!Sources
<1>. QED  BY <1>2, <1>4, <1>5, <1>6, <1>7, <1>8

LEMMA PagesInvStep == PagesInv /\ [Pages!Next]_(Pages!vars) => PagesInv'
<1> SUFFICES ASSUME PagesInv, [Pages!Next]_(Pages!vars)  PROVE PagesInv'
  OBVIOUS
<1>1. CASE Pages!CollapseRequested
  <2>1. Pages!ToggleDetails /\ panel /\ UNCHANGED <<blind, Pages!mouse>>
    BY <1>1 DEF Pages!CollapseRequested
  <2>2. PagesShown' /\ BadgesAgree'
    BY <2>1, ToggleStep
  <2>3. PressesAgree'
    BY <2>1 DEF PagesInv, PressesAgree, Pages!mouse
  <2>. QED  BY <2>2, <2>3 DEF PagesInv
<1>2. CASE UNCHANGED Pages!vars
  BY <1>2 DEF PagesInv, PagesShown, BadgesAgree, PressesAgree, Pages!vars, Pages!pages,
              Pages!mouse
<1>. QED  BY <1>1, <1>2, SnapStep, ReleaseStep, PointerStep DEF Pages!Next

\* What holds between two steps is what the property asks.
LEMMA PagesInvAgrees == PagesInv => Pages!HudPagesAgree
BY Zenon DEF PagesInv, PagesShown, BadgesAgree, BadgeAgrees, PressesAgree, Pages!HudPagesAgree

-----------------------------------------------------------------------------
(* Desktop: the part a behaviour follows takes its steps, the rest rests.   *)

PartInv ==
    /\ which = "focus" => FocusInv /\ Focus!FocusAnswersAreRecent
    /\ which = "wiring" => Ordered
    /\ which = "pages" => PagesInv

LEMMA PartInit == Init => PartInv
<1> SUFFICES ASSUME Init  PROVE PartInv
  OBVIOUS
<1>1. which = "focus" => Focus!Init
  BY Zenon DEF Init
<1>2. which = "wiring" => Main!Init
  BY Zenon DEF Init
<1>3. which = "pages" => Pages!Init
  BY Zenon DEF Init
<1>4. Focus!Init => FocusInv /\ Focus!FocusAnswersAreRecent
  BY FocusInvInit DEF Focus!Init, Focus!FocusAnswersAreRecent
<1>. QED  BY <1>1, <1>2, <1>3, <1>4, OrderedInit, PagesInvInit, Zenon DEF PartInv

LEMMA PartStep == PartInv /\ [Next]_vars => PartInv'
<1> SUFFICES ASSUME PartInv, [Next]_vars  PROVE PartInv'
  OBVIOUS
<1>1. which' = which
  BY Zenon DEF Next, vars
<1>2. which = "focus" => [Focus!Next]_(Focus!vars)
  BY Zenon DEF Next, vars, focusVars, Focus!vars, Focus!clock, Focus!world, Focus!kde,
               Focus!extension, Focus!command
<1>3. which = "wiring" => [Main!Next]_(Main!vars)
  BY Zenon DEF Next, vars, wiringVars, Main!vars, Main!process, Main!watcher, Main!sampling,
               Main!window
<1>4. which = "focus" => (FocusInv /\ Focus!FocusAnswersAreRecent)'
  BY <1>2, FocusInvStep, AnswerIsRecent, Zenon DEF PartInv
<1>5. which = "wiring" => Ordered'
  BY <1>3, OrderedStep, Zenon DEF PartInv
<1>6. which = "pages" => [Pages!Next]_(Pages!vars)
  BY Zenon DEF Next, vars, pagesVars, Pages!vars, Pages!pages, Pages!mouse
<1>7. which = "pages" => PagesInv'
  BY <1>6, PagesInvStep, Zenon DEF PartInv
<1>. QED  BY <1>1, <1>4, <1>5, <1>7, Zenon DEF PartInv

\* On every desktop, for any windows, any times to live and any time a command
\* may take, while the clock is set at will: an answer of focusedPid() names a
\* window that was active as long ago as FocusAnswersAreRecent allows.
THEOREM AnswersAlwaysRecent == Spec => []FocusAnswersAreRecent
<1>1. PartInv => FocusAnswersAreRecent
  BY Zenon DEF PartInv, FocusAnswersAreRecent
<1>. QED  BY <1>1, PartInit, PartStep, PTL DEF Spec

(***************************************************************************)
(* No sample reads through a provider that is gone, no snapshot waits for a *)
(* window that is gone, and nothing of the three threads outlives main().   *)
(***************************************************************************)
THEOREM UsesAlwaysAlive == Spec => []UsesAreAlive
<1>1. PartInv => UsesAreAlive
  BY OrderedIsAlive, Zenon DEF PartInv, UsesAreAlive
<1>. QED  BY <1>1, PartInit, PartStep, PTL DEF Spec

(***************************************************************************)
(* One page, its badges and its details agree, and a press clicks or drags, *)
(* after any series of snapshots, clicks, drags and lost releases.          *)
(***************************************************************************)
THEOREM HudPagesAlwaysAgree == Spec => []HudPagesAgree
<1>1. PartInv => HudPagesAgree
  BY PagesInvAgrees, Zenon DEF PartInv, HudPagesAgree
<1>. QED  BY <1>1, PartInit, PartStep, PTL DEF Spec
=============================================================================
