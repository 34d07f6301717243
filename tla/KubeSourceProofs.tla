--------------------------- MODULE KubeSourceProofs ---------------------------
(***************************************************************************)
(* Theorems about KubeSource for any pods and deployments, any size of the *)
(* timeline and any number of start() calls.  The first ones rest on the   *)
(* flags, the timers and the child only; those about the timeline rest on  *)
(* what kubeDiff finds between two listings, which is a concatenation of   *)
(* sequences that FlattenRange turns into a set.                           *)
(***************************************************************************)
EXTENDS KubeSource, TLAPS, WellFoundedInduction

\* The part of the types that the supervision needs.
FlagsTyped ==
    /\ started \in BOOLEAN /\ stopping \in BOOLEAN /\ have \in BOOLEAN
    /\ running \in BOOLEAN /\ aborting \in BOOLEAN /\ refresh \in BOOLEAN
    /\ proc \in {"NotRunning", "Starting", "Running"}
    /\ abortState \in AbortStates

\* What every start and end of a query must leave: a child with a deadline, or
\* no child and a poll timer.
Attended ==
    /\ running \in BOOLEAN
    /\ refresh = FALSE /\ aborting = FALSE
    /\ running => proc = "Starting" /\ "deadline" \in armed
    /\ ~ running => proc = "NotRunning" /\ "poll" \in armed

-----------------------------------------------------------------------------
(* The helpers.                                                            *)

\* emitSnapshot never shows a failure as fresh.
LEMMA FailureNotOk ==
    ASSUME NEW state \in AbortStates \cup Failures
    PROVE  FailureShown(state) # "Ok"
BY DEF FailureShown, AbortStates, Failures

\* beginQuery, whichever of its three ends it takes.
LEMMA BeginQueryEffect ==
    ASSUME NEW ts, NEW s, BeginQuery(ts, s)
    PROVE  /\ Attended'
           /\ shown' = s \/ shown' # "Ok"
<1>1. FailureShown("CommandFailed") # "Ok"
  BY FailureNotOk DEF Failures
<1>. QED
  BY <1>1 DEF BeginQuery, Attended

\* scheduleNext after a query, with and without a pending refresh.
LEMMA EndQueryEffect ==
    ASSUME NEW ts, NEW s, FlagsTyped, EndQuery(ts, s)
    PROVE  /\ Attended'
           /\ shown' = s \/ shown' # "Ok"
<1>1. CASE refresh = TRUE
  BY <1>1, BeginQueryEffect DEF EndQuery
<1>2. CASE refresh = FALSE
  BY <1>2 DEF EndQuery, Attended
<1>. QED  BY <1>1, <1>2 DEF FlagsTyped

\* A failed query adds nothing to what is known and shows nothing fresh.
LEMMA FailQueryEffect ==
    ASSUME NEW ts, NEW state \in AbortStates \cup Failures, FlagsTyped,
           FailQuery(ts, state)
    PROVE  Attended' /\ UNCHANGED data /\ shown' # "Ok"
<1>1. EndQuery(ts, FailureShown(state)) /\ UNCHANGED data
  BY DEF FailQuery
<1>2. Attended' /\ (shown' = FailureShown(state) \/ shown' # "Ok")
  BY <1>1, EndQueryEffect
<1>3. FailureShown(state) # "Ok"
  BY FailureNotOk
<1>. QED  BY <1>1, <1>2, <1>3

\* The slots that may begin or end a query either leave the flags to stop() or
\* leave the source attended; Start may also find a query under way.
LEMMA QuerySlots ==
    ASSUME FlagsTyped, Supervised, ~ stopping,
           \/ OnFinished
           \/ OnStartFailure
           \/ OnPollTimeout /\ ~ running
           \/ Start /\ ~ running
    PROVE  Attended' /\ UNCHANGED <<stopping, abortState>>
<1>1. CASE OnFinished
  <2>1. UNCHANGED <<stopping, abortState>>
    BY <1>1 DEF OnFinished, life
  <2>2. \/ \E ts, state : state \in AbortStates \cup Failures /\ FailQuery(ts, state)
        \/ \E ts, new : SucceedQuery(ts, new)
    BY <1>1 DEF OnFinished, FlagsTyped
  <2>3. ASSUME NEW ts, NEW new, SucceedQuery(ts, new)  PROVE Attended'
    BY <2>3, EndQueryEffect DEF SucceedQuery
  <2>. QED  BY <2>1, <2>2, <2>3, FailQueryEffect
<1>2. CASE OnStartFailure
  <2>1. FailQuery(armed \ {"deadline"}, "CommandFailed")
        /\ UNCHANGED <<stopping, abortState>>
    BY <1>2 DEF OnStartFailure, life
  <2>. QED  BY <2>1, FailQueryEffect DEF Failures
<1>3. CASE OnPollTimeout /\ ~ running
  BY <1>3, BeginQueryEffect DEF OnPollTimeout, life
<1>4. CASE Start /\ ~ running
  BY <1>4, BeginQueryEffect DEF Start
<1>. QED  BY <1>1, <1>2, <1>3, <1>4

-----------------------------------------------------------------------------
(* The invariant.                                                          *)

IInv == FlagsTyped /\ Supervised

LEMMA SupervisedInit == Init => IInv
BY DEF Init, IInv, FlagsTyped, Supervised, AbortStates

\* The flags keep their types.
LEMMA FlagsStep ==
    ASSUME IInv, [Next]_vars
    PROVE  FlagsTyped'
<1>1. /\ FlagsTyped /\ Supervised
      /\ {"TimedOut", "CommandFailed"} \subseteq AbortStates
  BY DEF IInv, AbortStates
<1>2. CASE Start
  <2>1. started' = TRUE /\ UNCHANGED <<stopping, abortState, have>>
    BY <1>2 DEF Start, data
  <2>2. CASE stopping
    BY <1>1, <1>2, <2>1, <2>2 DEF Start, FlagsTyped, query, child
  <2>3. CASE ~ stopping /\ running
    BY <1>1, <1>2, <2>1, <2>3 DEF Start, FlagsTyped, child
  <2>4. CASE ~ stopping /\ ~ running
    <3>1. Attended'
      BY <1>1, <1>2, <2>4, QuerySlots
    <3>. QED  BY <1>1, <2>1, <3>1 DEF FlagsTyped, Attended
  <2>. QED  BY <2>2, <2>3, <2>4
<1>3. CASE Stop
  BY <1>1, <1>3 DEF Stop, FlagsTyped, data, child
<1>4. CASE OnPollTimeout
  <2>1. UNCHANGED <<started, stopping, abortState, have>>
    BY <1>4 DEF OnPollTimeout, life, data
  <2>2. CASE running
    BY <1>1, <1>4, <2>1, <2>2 DEF OnPollTimeout, FlagsTyped, child
  <2>3. CASE ~ running
    <3>1. Attended'
      BY <1>4, <2>3, BeginQueryEffect DEF OnPollTimeout
    <3>. QED  BY <1>1, <2>1, <3>1 DEF FlagsTyped, Attended
  <2>. QED  BY <2>2, <2>3
<1>5. CASE OnDeadlineTimeout
  BY <1>1, <1>5 DEF OnDeadlineTimeout, Abort, FlagsTyped, life, data
<1>6. CASE OnKillTimeout
  BY <1>1, <1>6 DEF OnKillTimeout, FlagsTyped, life, data
<1>7. CASE OnStarted
  BY <1>1, <1>7 DEF OnStarted, FlagsTyped, life, data
<1>8. CASE OnOverflow
  BY <1>1, <1>8 DEF OnOverflow, Abort, FlagsTyped, life, data
<1>9. CASE OnStartFailure
  <2>1. UNCHANGED <<started, stopping, abortState>>
    BY <1>9 DEF OnStartFailure, life
  <2>2. CASE stopping
    BY <1>1, <1>9, <2>1, <2>2 DEF OnStartFailure, FlagsTyped, data
  <2>3. CASE ~ stopping
    <3>1. FailQuery(armed \ {"deadline"}, "CommandFailed")
      BY <1>9, <2>3 DEF OnStartFailure
    <3>2. Attended' /\ UNCHANGED data
      BY <1>1, <3>1, FailQueryEffect DEF Failures
    <3>. QED  BY <1>1, <2>1, <3>2 DEF FlagsTyped, Attended, data
  <2>. QED  BY <2>2, <2>3
<1>10. CASE OnFinished
  <2>1. UNCHANGED <<started, stopping, abortState>>
    BY <1>10 DEF OnFinished, life
  <2>2. CASE stopping
    BY <1>1, <1>10, <2>1, <2>2 DEF OnFinished, FlagsTyped, data
  <2>3. CASE ~ stopping
    <3>1. Attended'
      BY <1>1, <1>10, <2>3, QuerySlots
    <3>2. have' \in BOOLEAN
      BY <1>1, <1>10 DEF OnFinished, FailQuery, SucceedQuery, FlagsTyped, data
    <3>. QED  BY <1>1, <2>1, <3>1, <3>2 DEF FlagsTyped, Attended
  <2>. QED  BY <2>2, <2>3
<1>11. CASE UNCHANGED vars
  BY <1>1, <1>11 DEF vars, life, query, child, data, FlagsTyped
<1>. QED
  BY <1>2, <1>3, <1>4, <1>5, <1>6, <1>7, <1>8, <1>9, <1>10, <1>11 DEF Next

\* Every step keeps the supervision.
LEMMA SupervisedStep ==
    ASSUME IInv, [Next]_vars
    PROVE  Supervised'
<1>1. FlagsTyped /\ Supervised
  BY DEF IInv
<1>2. ASSUME Attended', started'  PROVE Supervised'
  BY <1>2 DEF Attended, Supervised
<1>3. CASE Start
  <2>1. started' = TRUE /\ UNCHANGED stopping
    BY <1>3 DEF Start
  <2>2. CASE stopping
    BY <2>1, <2>2 DEF Supervised
  <2>3. CASE ~ stopping /\ running
    BY <1>1, <1>3, <2>1, <2>3 DEF Start, Supervised, child
  <2>4. CASE ~ stopping /\ ~ running
    BY <1>1, <1>2, <1>3, <2>1, <2>4, QuerySlots
  <2>. QED  BY <2>2, <2>3, <2>4
<1>4. CASE Stop
  BY <1>1, <1>4 DEF Stop, Supervised, child
<1>5. CASE OnPollTimeout
  <2>1. started /\ UNCHANGED <<started, stopping>>
    BY <1>1, <1>5 DEF OnPollTimeout, Supervised, life, FlagsTyped
  <2>2. CASE stopping
    BY <2>1, <2>2 DEF Supervised
  <2>3. CASE ~ stopping /\ running
    BY <1>1, <1>5, <2>1, <2>3 DEF OnPollTimeout, Supervised, child
  <2>4. CASE ~ stopping /\ ~ running
    BY <1>1, <1>2, <1>5, <2>1, <2>4, QuerySlots
  <2>. QED  BY <2>2, <2>3, <2>4
<1>6. CASE OnDeadlineTimeout
  BY <1>1, <1>6 DEF OnDeadlineTimeout, Abort, Supervised, life, FlagsTyped
<1>7. CASE OnKillTimeout
  BY <1>1, <1>7 DEF OnKillTimeout, Supervised, life, FlagsTyped
<1>8. CASE OnStarted
  BY <1>1, <1>8 DEF OnStarted, Supervised, life
<1>9. CASE OnOverflow
  BY <1>1, <1>9 DEF OnOverflow, Abort, Supervised, life
<1>10. CASE OnStartFailure \/ OnFinished
  <2>1. started /\ UNCHANGED <<started, stopping>>
    BY <1>1, <1>10 DEF OnStartFailure, OnFinished, Supervised, life, FlagsTyped
  <2>2. CASE stopping
    BY <2>1, <2>2 DEF Supervised
  <2>3. CASE ~ stopping
    BY <1>1, <1>2, <1>10, <2>1, <2>3, QuerySlots
  <2>. QED  BY <2>2, <2>3
<1>11. CASE UNCHANGED vars
  BY <1>1, <1>11 DEF vars, life, query, child, Supervised
<1>. QED
  BY <1>3, <1>4, <1>5, <1>6, <1>7, <1>8, <1>9, <1>10, <1>11 DEF Next

LEMMA InvariantHolds == Spec => []IInv
<1>1. IInv /\ [Next]_vars => IInv'
  BY FlagsStep, SupervisedStep DEF IInv
<1>. QED
  BY <1>1, SupervisedInit, PTL DEF Spec

\* Once started and until stopped, the source always has a poll timer, or a
\* query whose child has an end in sight, and forgets no refresh (beginQuery,
\* scheduleNext, onErrorOccurred, onFinished).
THEOREM AlwaysSupervised == Spec => []Supervised
<1>1. IInv => Supervised
  BY DEF IInv
<1>. QED  BY <1>1, InvariantHolds, PTL

\* A query that was aborted never becomes a listing: neither the screen nor the
\* timeline nor the listing kept for the next comparison takes its output.
THEOREM AbortedIsNeverFresh == Spec => AbortedNeverFresh
<1>1. ASSUME IInv, [Next]_vars, aborting, ~ aborting', ~ stopping'
      PROVE  shown' # "Ok" /\ UNCHANGED data
  <2>1. FlagsTyped /\ Supervised
    BY <1>1 DEF IInv
  <2>2. ~ OnDeadlineTimeout /\ ~ OnOverflow /\ ~ OnKillTimeout /\ ~ OnStarted /\ ~ Stop
    BY <1>1 DEF OnDeadlineTimeout, OnOverflow, Abort, OnKillTimeout, OnStarted, Stop
  <2>3. ~ UNCHANGED vars
    BY <1>1 DEF vars, query
  <2>4. started /\ (~ stopping => running)
    BY <1>1, <2>1 DEF Supervised, FlagsTyped
  <2>5. ~ Start /\ ~ OnPollTimeout
    BY <1>1, <2>4 DEF Start, OnPollTimeout, life, query
  <2>6. CASE OnStartFailure
    <3>1. FailQuery(armed \ {"deadline"}, "CommandFailed")
      BY <1>1, <2>6 DEF OnStartFailure, life
    <3>. QED  BY <2>1, <3>1, FailQueryEffect DEF Failures
  <2>7. CASE OnFinished
    <3>1. FailQuery(armed \ {"deadline", "kill"}, abortState)
      BY <1>1, <2>7 DEF OnFinished, life
    <3>2. abortState \in AbortStates \cup Failures
      BY <2>1 DEF FlagsTyped
    <3>. QED  BY <2>1, <3>1, <3>2, FailQueryEffect
  <2>. QED
    BY <1>1, <2>2, <2>3, <2>5, <2>6, <2>7 DEF Next
<1>2. IInv /\ [Next]_vars
        => [aborting /\ ~ aborting' /\ ~ stopping' => shown' # "Ok" /\ UNCHANGED data]_vars
  BY <1>1
<1>. QED
  BY <1>2, InvariantHolds, PTL DEF Spec, AbortedNeverFresh

-----------------------------------------------------------------------------
(* Induction up to a number, and the concatenation of many sequences.      *)

\* A set that holds 0 and, with a number below n, the next one holds n.
LEMMA UpTo ==
    ASSUME NEW n \in Nat, NEW K, 0 \in K, \A k \in 0 .. n - 1 : k \in K => k + 1 \in K
    PROVE  n \in K
<1>. SUFFICES ASSUME n \notin K  PROVE FALSE
  OBVIOUS
<1>. DEFINE rest == (0 .. n) \ K
<1>1. rest \subseteq Nat /\ rest # {}
  OBVIOUS
<1>. DEFINE less == {p \in Nat \X Nat : p[1] < p[2]}
<1>2. IsWellFoundedOn(less, Nat)
  BY NatLessThanWellFounded, Zenon DEF OpToRel
<1>2a. PICK m \in rest : \A k \in rest : ~ (<<k, m>> \in less)
  <2>. HIDE DEF rest, less
  <2>. QED  BY <1>1, <1>2, WFMin
<1>3. m \in 1 .. n /\ m - 1 \in 0 .. n
  OBVIOUS
<1>4. m - 1 \in K
  <2>1. <<m - 1, m>> \in less
    BY <1>3
  <2>2. m - 1 \notin rest
    <3>. HIDE DEF rest, less
    <3>. QED  BY <1>2a, <2>1
  <2>. QED  BY <1>3, <2>2
<1>. QED  BY <1>3, <1>4

\* The recursive function in FlattenSeq exists and does what it says.
LEMMA FlattenSteps ==
    ASSUME NEW T, NEW ss \in Seq(Seq(T)), Len(ss) > 0
    PROVE  \E f \in [1 .. Len(ss) -> Seq(T)] :
               /\ FlattenSeq(ss) = f[Len(ss)]
               /\ f[1] = ss[1]
               /\ \A i \in 2 .. Len(ss) : f[i] = f[i - 1] \o ss[i]
<1>. DEFINE n == Len(ss)
            Step(g, i) == IF i = 1 THEN ss[i] ELSE g[i - 1] \o ss[i]
            IsFlat(k, g) == g \in [1 .. k -> Seq(T)] /\ g = [i \in 1 .. k |-> Step(g, i)]
            K == {k \in 0 .. n : \E g \in [1 .. k -> Seq(T)] : IsFlat(k, g)}
<1>1. n \in Nat /\ n > 0 /\ \A i \in 1 .. n : ss[i] \in Seq(T)
  OBVIOUS
<1>2. 0 \in K
  <2>. DEFINE g == [i \in 1 .. 0 |-> <<>>]
  <2>1. g \in [1 .. 0 -> Seq(T)] /\ g = [i \in 1 .. 0 |-> Step(g, i)]
    OBVIOUS
  <2>. HIDE DEF g
  <2>2. IsFlat(0, g)
    BY <2>1
  <2>3. 0 \in 0 .. n
    BY <1>1
  <2>. HIDE DEF IsFlat
  <2>. QED  BY <2>1, <2>2, <2>3
<1>3. ASSUME NEW k \in 0 .. n - 1, k \in K  PROVE k + 1 \in K
  <2>1. PICK g \in [1 .. k -> Seq(T)] : IsFlat(k, g)
    BY <1>3
  <2>2. k \in Nat /\ k + 1 \in 1 .. n /\ ss[k + 1] \in Seq(T)
    BY <1>1
  <2>. DEFINE last == IF k = 0 THEN ss[1] ELSE g[k] \o ss[k + 1]
              h == [i \in 1 .. k + 1 |-> IF i <= k THEN g[i] ELSE last]
  <2>3. last \in Seq(T)
    <3>1. CASE k = 0
      BY <3>1, <2>2
    <3>2. CASE k # 0
      <4>1. g[k] \in Seq(T)
        BY <3>2, <2>2
      <4>. QED  BY <4>1, <3>2, <2>2
    <3>. QED  BY <3>1, <3>2
  <2>4. h \in [1 .. k + 1 -> Seq(T)]
    BY <2>2, <2>3
  <2>5. ASSUME NEW i \in 1 .. k + 1  PROVE h[i] = Step(h, i)
    <3>. HIDE DEF last
    <3>1. CASE i <= k
      <4>0. i \in 1 .. k
        BY <3>1, <2>2
      <4>1a. g[i] = Step(g, i)
        BY <4>0, <2>1
      <4>1. h[i] = g[i] /\ g[i] = Step(g, i)
        BY <3>1, <4>1a
      <4>2. i # 1 => h[i - 1] = g[i - 1]
        BY <3>1, <2>2
      <4>. QED  BY <4>1, <4>2
    <3>2. CASE i = k + 1
      <4>1. h[i] = last
        BY <3>2, <2>2
      <4>2. k # 0 => h[i - 1] = g[k]
        BY <3>2, <2>2
      <4>3. i = 1 <=> k = 0
        BY <3>2, <2>2
      <4>. HIDE DEF h
      <4>. QED  BY <4>1, <4>2, <4>3, <3>2 DEF last
    <3>. QED  BY <3>1, <3>2, <2>2
  <2>6. IsFlat(k + 1, h)
    <3>1. h = [i \in 1 .. k + 1 |-> h[i]]
      OBVIOUS
    <3>. HIDE DEF h
    <3>. QED  BY <2>4, <2>5, <3>1 
  <2>. HIDE DEF h, IsFlat
  <2>. QED  BY <2>2, <2>4, <2>6
<1>4. n \in K
  <2>. HIDE DEF K, n
  <2>. QED  BY <1>1, <1>2, <1>3, UpTo
<1>5. PICK g \in [1 .. n -> Seq(T)] : IsFlat(n, g)
  BY <1>4
<1>. DEFINE f == CHOOSE f : f = [i \in 1 .. n |-> Step(f, i)]
<1>6. f = [i \in 1 .. n |-> Step(f, i)]
  <2>1. g = [i \in 1 .. n |-> Step(g, i)]
    BY <1>5
  <2>. QED  BY <2>1
<1>7. FlattenSeq(ss) = f[n]
  BY <1>1 DEF FlattenSeq
<1>8. f \in [1 .. n -> Seq(T)]
  <2>. DEFINE typed == {k \in 0 .. n : \A i \in 1 .. k : f[i] \in Seq(T)}
  <2>1. 0 \in typed
    <3>. HIDE DEF f
    <3>1. 0 \in 0 .. n /\ \A i \in 1 .. 0 : f[i] \in Seq(T)
      BY <1>1
    <3>. QED  BY <3>1
  <2>2. ASSUME NEW k \in 0 .. n - 1, k \in typed  PROVE k + 1 \in typed
    <3>1. k + 1 \in 1 .. n /\ ss[k + 1] \in Seq(T)
      BY <1>1
    <3>2. f[k + 1] = Step(f, k + 1)
      <4>. HIDE DEF f
      <4>. QED  BY <1>6, <3>1
    <3>3. k # 0 => f[k] \in Seq(T) /\ f[k + 1] = f[k] \o ss[k + 1]
      <4>. HIDE DEF f
      <4>1. k # 0 => k \in 1 .. k /\ (k + 1) - 1 = k /\ k + 1 # 1
        BY <1>1
      <4>2. k # 0 => f[k] \in Seq(T)
        BY <2>2, <4>1
      <4>3. k # 0 => f[k + 1] = f[(k + 1) - 1] \o ss[k + 1]
        BY <3>2, <4>1, Zenon
      <4>. QED  BY <4>1, <4>2, <4>3, Zenon
    <3>4. k = 0 => f[k + 1] = ss[k + 1]
      BY <3>2
    <3>5. f[k + 1] \in Seq(T)
      <4>. HIDE DEF f
      <4>1. CASE k = 0
        BY <4>1, <3>1, <3>4
      <4>2. CASE k # 0
        <5>1. f[k] \in Seq(T) /\ f[k + 1] = f[k] \o ss[k + 1]
          BY <4>2, <3>3
        <5>. DEFINE a == f[k]
                    b == ss[k + 1]
        <5>2. a \in Seq(T) /\ b \in Seq(T) /\ f[k + 1] = a \o b
          BY <5>1, <3>1
        <5>. HIDE DEF a, b
        <5>. QED  BY <5>2
      <4>. QED  BY <4>1, <4>2
    <3>. HIDE DEF f
    <3>. QED  BY <2>2, <3>1, <3>5
  <2>3. n \in typed
    <3>. HIDE DEF typed, n
    <3>. QED  BY <1>1, <2>1, <2>2, UpTo
  <2>. HIDE DEF f
  <2>. QED  BY <1>1, <1>6, <2>3
<1>9. f[1] = ss[1] /\ \A i \in 2 .. n : f[i] = f[i - 1] \o ss[i]
  <2>. HIDE DEF f
  <2>1. \A i \in 1 .. n : f[i] = Step(f, i)
    BY <1>6
  <2>2. 1 \in 1 .. n /\ \A i \in 2 .. n : i \in 1 .. n /\ i # 1
    BY <1>1
  <2>. QED  BY <2>1, <2>2
<1>. HIDE DEF f
<1>. QED  BY <1>7, <1>8, <1>9

\* What two sequences in a row are made of.
LEMMA RangeConcat ==
    ASSUME NEW T, NEW s \in Seq(T), NEW t \in Seq(T)
    PROVE  Range(s \o t) = Range(s) \cup Range(t)
<1>1. \A e \in Range(s) : e \in Range(s \o t)
  BY DEF Range
<1>2. \A e \in Range(t) : e \in Range(s \o t)
  <2>1. ASSUME NEW i \in DOMAIN t
        PROVE  t[i] = (s \o t)[Len(s) + i] /\ Len(s) + i \in DOMAIN (s \o t)
    OBVIOUS
  <2>. QED  BY <2>1 DEF Range
<1>3. \A e \in Range(s \o t) : e \in Range(s) \cup Range(t)
  <2>1. ASSUME NEW i \in DOMAIN (s \o t)
        PROVE (s \o t)[i] \in Range(s) \cup Range(t)
    <3>1. CASE i <= Len(s)
      BY <3>1 DEF Range
    <3>2. CASE i > Len(s)
      <4>1. i - Len(s) \in DOMAIN t /\ (s \o t)[i] = t[i - Len(s)]
        BY <3>2
      <4>. QED  BY <4>1 DEF Range
    <3>. QED  BY <3>1, <3>2
  <2>. QED  BY <2>1 DEF Range
<1>. QED  BY <1>1, <1>2, <1>3

\* What the concatenation of some sequences is made of.
LEMMA FlattenRange ==
    ASSUME NEW T, NEW ss \in Seq(Seq(T))
    PROVE  /\ FlattenSeq(ss) \in Seq(T)
           /\ \A e : e \in Range(FlattenSeq(ss))
                  <=> \E i \in 1 .. Len(ss) : e \in Range(ss[i])
<1>1. CASE Len(ss) = 0
  <2>1. FlattenSeq(ss) = <<>>
    BY <1>1 DEF FlattenSeq
  <2>. QED  BY <1>1, <2>1 DEF Range
<1>2. CASE Len(ss) > 0
  <2>. DEFINE n == Len(ss)
              IsMade(f, k) ==
                  \A e : e \in Range(f[k]) <=> \E i \in 1 .. k : e \in Range(ss[i])
  <2>1. n \in Nat /\ n > 0 /\ \A i \in 1 .. n : ss[i] \in Seq(T)
    BY <1>2
  <2>2. PICK f \in [1 .. n -> Seq(T)] :
               /\ FlattenSeq(ss) = f[n]
               /\ f[1] = ss[1]
               /\ \A i \in 2 .. n : f[i] = f[i - 1] \o ss[i]
    BY <1>2, FlattenSteps
  <2>. DEFINE K == {k \in 0 .. n : k # 0 => IsMade(f, k)}
  <2>3. 0 \in K
    BY <2>1
  <2>4. ASSUME NEW k \in 0 .. n - 1, k \in K  PROVE k + 1 \in K
    <3>1. k \in Nat /\ k + 1 \in 1 .. n
      BY <2>1
    <3>2. CASE k = 0
      <4>1. IsMade(f, 1)
        BY <2>2
      <4>. QED  BY <4>1, <3>1, <3>2
    <3>3. CASE k # 0
      <4>1. IsMade(f, k) /\ k + 1 \in 2 .. n /\ k \in 1 .. n
        BY <3>1, <3>3, <2>4
      <4>2. f[k + 1] = f[k] \o ss[k + 1] /\ f[k] \in Seq(T) /\ ss[k + 1] \in Seq(T)
        <5>1. (k + 1) - 1 = k
          BY <3>1
        <5>2. f[k + 1] = f[(k + 1) - 1] \o ss[k + 1]
          BY <2>2, <4>1, Zenon
        <5>3. f[k] \in Seq(T)
          BY <2>2, <4>1
        <5>4. ss[k + 1] \in Seq(T)
          BY <2>1, <3>1
        <5>. QED  BY <5>1, <5>2, <5>3, <5>4
      <4>3. Range(f[k + 1]) = Range(f[k]) \cup Range(ss[k + 1])
        BY <4>2, RangeConcat
      <4>4. 1 .. k + 1 = 1 .. k \cup {k + 1}
        BY <3>1
      <4>5. IsMade(f, k + 1)
        BY <4>1, <4>3, <4>4
      <4>. HIDE DEF IsMade
      <4>. QED  BY <4>5, <3>1
    <3>. QED  BY <3>2, <3>3
  <2>5. n \in K
    <3>. HIDE DEF K, n
    <3>. QED  BY <2>1, <2>3, <2>4, UpTo
  <2>. QED  BY <2>1, <2>2, <2>5
<1>. QED  BY <1>1, <1>2

-----------------------------------------------------------------------------
(* What kubeDiff finds.                                                    *)

\* A listing gives states of the right kind to pods and to deployments.
LEMMA ListingTypes ==
    ASSUME NEW l \in Listings
    PROVE  /\ DOMAIN l.pods \subseteq Pods
           /\ \A p \in DOMAIN l.pods : l.pods[p] \in Pod
           /\ DOMAIN l.deployments \subseteq Deployments
           /\ \A d \in DOMAIN l.deployments : l.deployments[d] \in Deployment
<1>1. l.pods \in UNION {[S -> PodStates] : S \in SUBSET Pods}
  BY DEF Listings
<1>2. l.deployments \in UNION {[S -> DeploymentStates] : S \in SUBSET Deployments}
  BY DEF Listings
<1>3. PICK S \in SUBSET Pods : l.pods \in [S -> PodStates]
  BY <1>1
<1>4. PICK D \in SUBSET Deployments : l.deployments \in [D -> DeploymentStates]
  BY <1>2
<1>. QED  BY <1>3, <1>4, StatesAssumption

\* One entry, or none.
LEMMA OnlyRange ==
    ASSUME NEW condition \in BOOLEAN, NEW c \in Changes
    PROVE  /\ Only(condition, c) \in Seq(Changes)
           /\ \A e : e \in Range(Only(condition, c)) <=> condition /\ e = c
<1>1. CASE condition
  BY <1>1 DEF Only, Range
<1>2. CASE ~ condition
  BY <1>2 DEF Only, Range
<1>. QED  BY <1>1, <1>2

\* The sequences of one change and of none.
LEMMA OneOrNone ==
    /\ \A c \in Changes : /\ <<c>> \in Seq(Changes)
                          /\ \A e : e \in Range(<<c>>) <=> e = c
    /\ <<>> \in Seq(Changes)
    /\ \A e : e \notin Range(<<>>)
BY DEF Range

\* Every entry has the type of a change.
LEMMA ChangeTyped ==
    ASSUME NEW o \in Pods \cup Deployments, NEW n \in Nat,
           NEW what \in {"created", "deleted", "phase", "reason", "restarted",
                         "rollout", "ready"},
           NEW word \in Phases \cup Reasons
    PROVE  /\ Change(o, what, word, n) \in Changes
           /\ Change(o, what, word, n).object = o
           /\ Change(o, what, word, n).what = what
           /\ Change(o, what, word, n).word = word
           /\ Change(o, what, word, n).number = n
BY DEF Change, Changes

\* e is what the first loop says of the pod p.
PodFound(was, now, p, e) ==
    \/ p \in DOMAIN now \ DOMAIN was /\ e = Change(p, "created", None, 0)
    \/ /\ p \in DOMAIN now \cap DOMAIN was
       /\ \/ now[p].phase # was[p].phase /\ e = Change(p, "phase", now[p].phase, 0)
          \/ /\ now[p].reason \notin {was[p].reason, None}
             /\ e = Change(p, "reason", now[p].reason, 0)
          \/ now[p].restarts > was[p].restarts /\ e = Change(p, "restarted", None, 0)

\* e is what the third loop says of the deployment d.
DeploymentFound(was, now, d, e) ==
    \/ d \in DOMAIN now \ DOMAIN was /\ e = Change(d, "created", None, 0)
    \/ /\ d \in DOMAIN now \cap DOMAIN was
       /\ \/ /\ now[d].generation \notin {was[d].generation, 0}
             /\ e = Change(d, "rollout", None, 0)
          \/ /\ now[d].available # was[d].available
             /\ e = Change(d, "ready", None, now[d].available)

\* The first loop.
LEMMA PodChangesRange ==
    ASSUME NEW prev \in Listings, NEW cur \in Listings, NEW p \in Pods
    PROVE  /\ PodChanges(prev.pods, cur.pods, p) \in Seq(Changes)
           /\ \A e : e \in Range(PodChanges(prev.pods, cur.pods, p))
                     <=> PodFound(prev.pods, cur.pods, p, e)
<1>. DEFINE was == prev.pods
            now == cur.pods
            created == Change(p, "created", None, 0)
            phase == Change(p, "phase", now[p].phase, 0)
            reason == Change(p, "reason", now[p].reason, 0)
            restarted == Change(p, "restarted", None, 0)
<1>1. None \in Reasons
  BY DEF Reasons
<1>2. p \in DOMAIN now => now[p].phase \in Phases /\ now[p].reason \in Reasons
  BY ListingTypes DEF Pod
<1>3. created \in Changes /\ restarted \in Changes
  BY <1>1, ChangeTyped
<1>4. p \in DOMAIN now => phase \in Changes /\ reason \in Changes
  BY <1>2, ChangeTyped
<1>. HIDE DEF PodFound, was, now, created, phase, reason, restarted
<1>5. CASE p \notin DOMAIN now
  <2>1. PodChanges(was, now, p) = <<>>
    BY <1>5 DEF PodChanges
  <2>. QED  BY <2>1, <1>5 DEF Range, was, now, PodFound
<1>6. CASE p \in DOMAIN now \ DOMAIN was
  <2>1. PodChanges(was, now, p) = <<created>>
    BY <1>6 DEF PodChanges, created
  <2>2. <<created>> \in Seq(Changes) /\ \A e : e \in Range(<<created>>) <=> e = created
    BY <1>3 DEF Range
  <2>. QED  BY <2>1, <2>2, <1>6 DEF PodFound, was, now, created
<1>7. CASE p \in DOMAIN now \cap DOMAIN was
  <2>. DEFINE a == Only(now[p].phase # was[p].phase, phase)
              b == Only(now[p].reason \notin {was[p].reason, None}, reason)
              c == Only(now[p].restarts > was[p].restarts, restarted)
  <2>1. PodChanges(was, now, p) = a \o b \o c
    BY <1>7 DEF PodChanges, phase, reason, restarted
  <2>2. a \in Seq(Changes)
        /\ \A e : e \in Range(a) <=> now[p].phase # was[p].phase /\ e = phase
    BY <1>4, <1>7, OnlyRange
  <2>3. b \in Seq(Changes)
        /\ \A e : e \in Range(b) <=> now[p].reason \notin {was[p].reason, None} /\ e = reason
    BY <1>4, <1>7, OnlyRange
  <2>4. c \in Seq(Changes)
        /\ \A e : e \in Range(c) <=> now[p].restarts > was[p].restarts /\ e = restarted
    BY <1>3, OneOrNone DEF Only
  <2>. HIDE DEF a, b, c
  <2>5. a \o b \in Seq(Changes) /\ Range(a \o b) = Range(a) \cup Range(b)
    BY <2>2, <2>3, RangeConcat
  <2>6. a \o b \o c \in Seq(Changes)
        /\ Range(a \o b \o c) = Range(a) \cup Range(b) \cup Range(c)
    <3>. DEFINE ab == a \o b
    <3>. HIDE DEF ab
    <3>1. ab \in Seq(Changes) /\ Range(ab) = Range(a) \cup Range(b)
      BY <2>5 DEF ab
    <3>2. ab \o c \in Seq(Changes) /\ Range(ab \o c) = Range(ab) \cup Range(c)
      BY <2>4, <3>1, RangeConcat
    <3>. QED  BY <3>1, <3>2 DEF ab
  <2>. QED
    BY <1>7, <2>1, <2>2, <2>3, <2>4, <2>6 DEF PodFound, was, now, phase, reason, restarted
<1>. QED  BY <1>5, <1>6, <1>7

\* The third loop.
LEMMA DeploymentChangesRange ==
    ASSUME NEW prev \in Listings, NEW cur \in Listings, NEW d \in Deployments
    PROVE  /\ DeploymentChanges(prev.deployments, cur.deployments, d) \in Seq(Changes)
           /\ \A e : e \in Range(DeploymentChanges(prev.deployments, cur.deployments, d))
                     <=> DeploymentFound(prev.deployments, cur.deployments, d, e)
<1>. DEFINE was == prev.deployments
            now == cur.deployments
            created == Change(d, "created", None, 0)
            rollout == Change(d, "rollout", None, 0)
            ready == Change(d, "ready", None, now[d].available)
<1>1. None \in Reasons
  BY DEF Reasons
<1>2. d \in DOMAIN now => now[d].available \in Nat
  BY ListingTypes DEF Deployment
<1>3. created \in Changes /\ rollout \in Changes
  BY <1>1, ChangeTyped
<1>4. d \in DOMAIN now => ready \in Changes
  BY <1>1, <1>2, ChangeTyped
<1>. HIDE DEF DeploymentFound, was, now, created, rollout, ready
<1>5. CASE d \notin DOMAIN now
  <2>1. DeploymentChanges(was, now, d) = <<>>
    BY <1>5 DEF DeploymentChanges
  <2>. QED  BY <2>1, <1>5 DEF Range, was, now, DeploymentFound
<1>6. CASE d \in DOMAIN now \ DOMAIN was
  <2>1. DeploymentChanges(was, now, d) = <<created>>
    BY <1>6 DEF DeploymentChanges, created
  <2>2. <<created>> \in Seq(Changes) /\ \A e : e \in Range(<<created>>) <=> e = created
    BY <1>3 DEF Range
  <2>. QED  BY <2>1, <2>2, <1>6 DEF DeploymentFound, was, now, created
<1>7. CASE d \in DOMAIN now \cap DOMAIN was
  <2>. DEFINE a == Only(now[d].generation \notin {was[d].generation, 0}, rollout)
              b == Only(now[d].available # was[d].available, ready)
  <2>1. DeploymentChanges(was, now, d) = a \o b
    BY <1>7 DEF DeploymentChanges, rollout, ready
  <2>2. a \in Seq(Changes)
        /\ \A e : e \in Range(a) <=> now[d].generation \notin {was[d].generation, 0} /\ e = rollout
    BY <1>3, OnlyRange
  <2>3. b \in Seq(Changes)
        /\ \A e : e \in Range(b) <=> now[d].available # was[d].available /\ e = ready
    BY <1>4, <1>7, OnlyRange
  <2>. HIDE DEF a, b
  <2>4. a \o b \in Seq(Changes) /\ Range(a \o b) = Range(a) \cup Range(b)
    BY <2>2, <2>3, RangeConcat
  <2>. QED
    BY <1>7, <2>1, <2>2, <2>3, <2>4 DEF DeploymentFound, was, now, rollout, ready
<1>. QED  BY <1>5, <1>6, <1>7

\* The second loop and the fourth.
LEMMA DeletedRange ==
    ASSUME NEW was, NEW now, NEW o \in Pods \cup Deployments
    PROVE  /\ Deleted(was, now, o) \in Seq(Changes)
           /\ \A e : e \in Range(Deleted(was, now, o)) <=>
                 o \in DOMAIN was /\ o \notin DOMAIN now
                 /\ e = Change(o, "deleted", None, 0)
<1>1. Change(o, "deleted", None, 0) \in Changes
  BY ChangeTyped DEF Reasons
<1>. DEFINE c == Change(o, "deleted", None, 0)
<1>2. c \in Changes
  BY <1>1
<1>. HIDE DEF c
<1>3. Deleted(was, now, o) = IF o \in DOMAIN was \ DOMAIN now THEN <<c>> ELSE <<>>
  BY DEF Deleted, Only, c
<1>4. /\ Deleted(was, now, o) \in Seq(Changes)
      /\ \A e : e \in Range(Deleted(was, now, o)) <=>
            o \in DOMAIN was /\ o \notin DOMAIN now /\ e = c
  BY <1>2, <1>3, OneOrNone
<1>. QED  BY <1>4 DEF c

\* kubeDiff says of every object what the loops find of it, and nothing else.
LEMMA DiffRange ==
    ASSUME NEW prev \in Listings, NEW cur \in Listings
    PROVE  /\ KubeDiff(prev, cur) \in Seq(Changes)
           /\ \A e : e \in Range(KubeDiff(prev, cur)) <=>
                 \/ \E p \in Pods : e \in Range(PodChanges(prev.pods, cur.pods, p))
                 \/ \E p \in Pods : e \in Range(Deleted(prev.pods, cur.pods, p))
                 \/ \E d \in Deployments :
                       e \in Range(DeploymentChanges(prev.deployments, cur.deployments, d))
                 \/ \E d \in Deployments :
                       e \in Range(Deleted(prev.deployments, cur.deployments, d))
<1>. DEFINE f1 == [i \in DOMAIN PodOrder |-> PodChanges(prev.pods, cur.pods, PodOrder[i])]
            f2 == [i \in DOMAIN PodOrder |-> Deleted(prev.pods, cur.pods, PodOrder[i])]
            f3 == [i \in DOMAIN DeploymentOrder |->
                     DeploymentChanges(prev.deployments, cur.deployments, DeploymentOrder[i])]
            f4 == [i \in DOMAIN DeploymentOrder |->
                     Deleted(prev.deployments, cur.deployments, DeploymentOrder[i])]
            s1 == FlattenSeq(f1)
            s2 == FlattenSeq(f2)
            s3 == FlattenSeq(f3)
            s4 == FlattenSeq(f4)
<1>1. /\ DOMAIN PodOrder = 1 .. Len(PodOrder) /\ Len(PodOrder) \in Nat
      /\ DOMAIN DeploymentOrder = 1 .. Len(DeploymentOrder) /\ Len(DeploymentOrder) \in Nat
      /\ \A i \in DOMAIN PodOrder : PodOrder[i] \in Pods
      /\ \A i \in DOMAIN DeploymentOrder : DeploymentOrder[i] \in Deployments
      /\ \A p \in Pods : \E i \in DOMAIN PodOrder : p = PodOrder[i]
      /\ \A d \in Deployments : \E i \in DOMAIN DeploymentOrder : d = DeploymentOrder[i]
  BY StatesAssumption DEF Pods, Deployments
<1>2. /\ f1 \in Seq(Seq(Changes)) /\ Len(f1) = Len(PodOrder)
      /\ f2 \in Seq(Seq(Changes)) /\ Len(f2) = Len(PodOrder)
  BY <1>1, PodChangesRange, DeletedRange
<1>3. /\ f3 \in Seq(Seq(Changes)) /\ Len(f3) = Len(DeploymentOrder)
      /\ f4 \in Seq(Seq(Changes)) /\ Len(f4) = Len(DeploymentOrder)
  BY <1>1, DeploymentChangesRange, DeletedRange
<1>4. s1 \in Seq(Changes)
      /\ \A e : e \in Range(s1)
            <=> \E p \in Pods : e \in Range(PodChanges(prev.pods, cur.pods, p))
  <2>. HIDE DEF f1
  <2>1. s1 \in Seq(Changes)
        /\ \A e : e \in Range(s1)
              <=> \E i \in 1 .. Len(f1) : e \in Range(f1[i])
    BY <1>2, FlattenRange
  <2>2. \A i \in DOMAIN PodOrder : f1[i] = PodChanges(prev.pods, cur.pods, PodOrder[i])
    BY DEF f1
  <2>. HIDE DEF s1
  <2>3. ASSUME NEW p \in Pods
        PROVE  \E i \in 1 .. Len(f1) : f1[i] = PodChanges(prev.pods, cur.pods, p)
    <3>1. PICK i \in DOMAIN PodOrder : p = PodOrder[i]
      BY <1>1
    <3>. QED  BY <1>1, <1>2, <2>2, <3>1
  <2>4. ASSUME NEW i \in 1 .. Len(f1)
        PROVE  \E p \in Pods : f1[i] = PodChanges(prev.pods, cur.pods, p)
    <3>1. i \in DOMAIN PodOrder
      BY <1>1, <1>2
    <3>. QED  BY <1>1, <2>2, <3>1
  <2>. QED  BY <2>1, <2>3, <2>4, Zenon
<1>5. s2 \in Seq(Changes)
      /\ \A e : e \in Range(s2)
            <=> \E p \in Pods : e \in Range(Deleted(prev.pods, cur.pods, p))
  <2>. HIDE DEF f2
  <2>1. s2 \in Seq(Changes)
        /\ \A e : e \in Range(s2)
              <=> \E i \in 1 .. Len(f2) : e \in Range(f2[i])
    BY <1>2, FlattenRange
  <2>2. \A i \in DOMAIN PodOrder : f2[i] = Deleted(prev.pods, cur.pods, PodOrder[i])
    BY DEF f2
  <2>. HIDE DEF s2
  <2>3. ASSUME NEW p \in Pods
        PROVE  \E i \in 1 .. Len(f2) : f2[i] = Deleted(prev.pods, cur.pods, p)
    <3>1. PICK i \in DOMAIN PodOrder : p = PodOrder[i]
      BY <1>1
    <3>. QED  BY <1>1, <1>2, <2>2, <3>1
  <2>4. ASSUME NEW i \in 1 .. Len(f2)
        PROVE  \E p \in Pods : f2[i] = Deleted(prev.pods, cur.pods, p)
    <3>1. i \in DOMAIN PodOrder
      BY <1>1, <1>2
    <3>. QED  BY <1>1, <2>2, <3>1
  <2>. QED  BY <2>1, <2>3, <2>4, Zenon
<1>6. s3 \in Seq(Changes)
      /\ \A e : e \in Range(s3)
            <=> \E d \in Deployments :
                e \in Range(DeploymentChanges(prev.deployments, cur.deployments, d))
  <2>. HIDE DEF f3
  <2>1. s3 \in Seq(Changes)
        /\ \A e : e \in Range(s3)
              <=> \E i \in 1 .. Len(f3) : e \in Range(f3[i])
    BY <1>3, FlattenRange
  <2>2. \A i \in DOMAIN DeploymentOrder :
           f3[i] = DeploymentChanges(prev.deployments, cur.deployments, DeploymentOrder[i])
    BY DEF f3
  <2>. HIDE DEF s3
  <2>3. ASSUME NEW d \in Deployments
        PROVE  \E i \in 1 .. Len(f3) :
                   f3[i] = DeploymentChanges(prev.deployments, cur.deployments, d)
    BY <1>1, <1>3, <2>2
  <2>4. ASSUME NEW i \in 1 .. Len(f3)
        PROVE  \E d \in Deployments :
                   f3[i] = DeploymentChanges(prev.deployments, cur.deployments, d)
    BY <1>1, <1>3, <2>2
  <2>. QED  BY <2>1, <2>3, <2>4, Zenon
<1>7. s4 \in Seq(Changes)
      /\ \A e : e \in Range(s4)
            <=> \E d \in Deployments :
                e \in Range(Deleted(prev.deployments, cur.deployments, d))
  <2>. HIDE DEF f4
  <2>1. s4 \in Seq(Changes)
        /\ \A e : e \in Range(s4)
              <=> \E i \in 1 .. Len(f4) : e \in Range(f4[i])
    BY <1>3, FlattenRange
  <2>2. \A i \in DOMAIN DeploymentOrder :
           f4[i] = Deleted(prev.deployments, cur.deployments, DeploymentOrder[i])
    BY DEF f4
  <2>. HIDE DEF s4
  <2>3. ASSUME NEW d \in Deployments
        PROVE  \E i \in 1 .. Len(f4) : f4[i] = Deleted(prev.deployments, cur.deployments, d)
    BY <1>1, <1>3, <2>2
  <2>4. ASSUME NEW i \in 1 .. Len(f4)
        PROVE  \E d \in Deployments : f4[i] = Deleted(prev.deployments, cur.deployments, d)
    BY <1>1, <1>3, <2>2
  <2>. QED  BY <2>1, <2>3, <2>4, Zenon
<1>8. KubeDiff(prev, cur) = s1 \o s2 \o s3 \o s4
  BY DEF KubeDiff
<1>. HIDE DEF s1, s2, s3, s4
<1>9. s1 \o s2 \in Seq(Changes) /\ Range(s1 \o s2) = Range(s1) \cup Range(s2)
  BY <1>4, <1>5, RangeConcat
<1>10. /\ s1 \o s2 \o s3 \in Seq(Changes)
       /\ Range(s1 \o s2 \o s3) = Range(s1) \cup Range(s2) \cup Range(s3)
  <2>. DEFINE a == s1 \o s2
  <2>. HIDE DEF a
  <2>1. a \in Seq(Changes) /\ Range(a) = Range(s1) \cup Range(s2)
    BY <1>9 DEF a
  <2>2. a \o s3 \in Seq(Changes) /\ Range(a \o s3) = Range(a) \cup Range(s3)
    BY <1>6, <2>1, RangeConcat
  <2>. QED  BY <2>1, <2>2 DEF a
<1>11. /\ s1 \o s2 \o s3 \o s4 \in Seq(Changes)
       /\ Range(s1 \o s2 \o s3 \o s4)
             = Range(s1) \cup Range(s2) \cup Range(s3) \cup Range(s4)
  <2>. DEFINE a == s1 \o s2 \o s3
  <2>. HIDE DEF a
  <2>1. a \in Seq(Changes) /\ Range(a) = Range(s1) \cup Range(s2) \cup Range(s3)
    BY <1>10 DEF a
  <2>2. a \o s4 \in Seq(Changes) /\ Range(a \o s4) = Range(a) \cup Range(s4)
    BY <1>7, <2>1, RangeConcat
  <2>. QED  BY <2>1, <2>2 DEF a
<1>. QED  BY <1>4, <1>5, <1>6, <1>7, <1>8, <1>11

-----------------------------------------------------------------------------
(* What the timeline tells of the listing.                                 *)

\* The entry c is true of the listing l, and what it tells still exists.
Holds(c, l) ==
    /\ c.what = "created" => c.object \in DOMAIN l.pods \cup DOMAIN l.deployments
    /\ c.what = "deleted" => c.object \notin DOMAIN l.pods \cup DOMAIN l.deployments
    /\ c.what = "phase" => c.object \in DOMAIN l.pods /\ l.pods[c.object].phase = c.word
    /\ c.what = "ready" => /\ c.object \in DOMAIN l.deployments
                           /\ l.deployments[c.object].available = c.number

Presence == {"created", "deleted"}
Telling  == Presence \cup {"phase", "ready"}

\* Everything kubeDiff finds is true of the newer listing.
LEMMA FoundHolds ==
    ASSUME NEW prev \in Listings, NEW cur \in Listings,
           NEW e \in Range(KubeDiff(prev, cur))
    PROVE  Holds(e, cur)
<1>1. \A p \in Pods : p \notin Deployments
  BY StatesAssumption
<1>2. None \in Phases \cup Reasons /\ 0 \in Nat
  BY DEF Reasons
<1>3. CASE \E p \in Pods : e \in Range(PodChanges(prev.pods, cur.pods, p))
  <2>1. PICK p \in Pods : e \in Range(PodChanges(prev.pods, cur.pods, p))
    BY <1>3
  <2>2. /\ \/ e = Change(p, "created", None, 0)
           \/ e = Change(p, "phase", cur.pods[p].phase, 0)
           \/ e = Change(p, "reason", cur.pods[p].reason, 0)
           \/ e = Change(p, "restarted", None, 0)
        /\ p \in DOMAIN cur.pods
    <3>1. \/ p \in DOMAIN cur.pods /\ e = Change(p, "created", None, 0)
          \/ p \in DOMAIN cur.pods /\ e = Change(p, "phase", cur.pods[p].phase, 0)
          \/ p \in DOMAIN cur.pods /\ e = Change(p, "reason", cur.pods[p].reason, 0)
          \/ p \in DOMAIN cur.pods /\ e = Change(p, "restarted", None, 0)
      <4>1. PodFound(prev.pods, cur.pods, p, e)
        BY <2>1, PodChangesRange
      <4>. QED  BY <4>1, Zenon DEF PodFound
    <3>. QED  BY <3>1, Zenon
  <2>. QED  BY <2>2 DEF Holds, Change
<1>4. CASE \E p \in Pods : e \in Range(Deleted(prev.pods, cur.pods, p))
  <2>1. PICK p \in Pods : e \in Range(Deleted(prev.pods, cur.pods, p))
    BY <1>4
  <2>2. p \notin DOMAIN cur.pods /\ e = Change(p, "deleted", None, 0)
    BY <2>1, DeletedRange
  <2>3. p \notin DOMAIN cur.deployments
    BY <1>1, ListingTypes
  <2>. QED  BY <2>2, <2>3 DEF Holds, Change
<1>5. CASE \E d \in Deployments :
              e \in Range(DeploymentChanges(prev.deployments, cur.deployments, d))
  <2>1. PICK d \in Deployments :
               e \in Range(DeploymentChanges(prev.deployments, cur.deployments, d))
    BY <1>5
  <2>2. /\ \/ e = Change(d, "created", None, 0)
           \/ e = Change(d, "rollout", None, 0)
           \/ e = Change(d, "ready", None, cur.deployments[d].available)
        /\ d \in DOMAIN cur.deployments
    <3>1. \/ d \in DOMAIN cur.deployments /\ e = Change(d, "created", None, 0)
          \/ d \in DOMAIN cur.deployments /\ e = Change(d, "rollout", None, 0)
          \/ /\ d \in DOMAIN cur.deployments
             /\ e = Change(d, "ready", None, cur.deployments[d].available)
      <4>1. DeploymentFound(prev.deployments, cur.deployments, d, e)
        BY <2>1, DeploymentChangesRange
      <4>. QED  BY <4>1, Zenon DEF DeploymentFound
    <3>. QED  BY <3>1, Zenon
  <2>. QED  BY <2>2 DEF Holds, Change
<1>6. CASE \E d \in Deployments : e \in Range(Deleted(prev.deployments, cur.deployments, d))
  <2>1. PICK d \in Deployments : e \in Range(Deleted(prev.deployments, cur.deployments, d))
    BY <1>6
  <2>2. d \notin DOMAIN cur.deployments /\ e = Change(d, "deleted", None, 0)
    BY <2>1, DeletedRange
  <2>3. d \notin DOMAIN cur.pods
    BY <1>1, ListingTypes
  <2>. QED  BY <2>2, <2>3 DEF Holds, Change
<1>. QED  BY <1>3, <1>4, <1>5, <1>6, DiffRange

\* Whatever changed about an object is found: its appearance, its end, the
\* phase of a pod and the readiness of a deployment.
LEMMA ChangeFound ==
    ASSUME NEW prev \in Listings, NEW cur \in Listings
    PROVE  LET found(o, what) ==
                   \E e \in Range(KubeDiff(prev, cur)) : e.object = o /\ e.what = what
           IN  /\ \A p \in DOMAIN cur.pods : p \notin DOMAIN prev.pods => found(p, "created")
               /\ \A p \in DOMAIN prev.pods : p \notin DOMAIN cur.pods => found(p, "deleted")
               /\ \A p \in DOMAIN prev.pods \cap DOMAIN cur.pods :
                     cur.pods[p].phase # prev.pods[p].phase => found(p, "phase")
               /\ \A d \in DOMAIN cur.deployments :
                     d \notin DOMAIN prev.deployments => found(d, "created")
               /\ \A d \in DOMAIN prev.deployments :
                     d \notin DOMAIN cur.deployments => found(d, "deleted")
               /\ \A d \in DOMAIN prev.deployments \cap DOMAIN cur.deployments :
                     cur.deployments[d].available # prev.deployments[d].available
                        => found(d, "ready")
<1>. DEFINE found(o, what) ==
                \E e \in Range(KubeDiff(prev, cur)) : e.object = o /\ e.what = what
<1>0. /\ DOMAIN prev.pods \subseteq Pods /\ DOMAIN cur.pods \subseteq Pods
      /\ DOMAIN prev.deployments \subseteq Deployments
      /\ DOMAIN cur.deployments \subseteq Deployments
  BY ListingTypes
<1>1. ASSUME NEW p \in DOMAIN cur.pods, p \notin DOMAIN prev.pods
      PROVE  found(p, "created")
  <2>1. Change(p, "created", None, 0) \in Range(PodChanges(prev.pods, cur.pods, p))
    BY <1>0, <1>1, PodChangesRange DEF PodFound
  <2>2. Change(p, "created", None, 0) \in Range(KubeDiff(prev, cur))
    BY <1>0, <2>1, DiffRange
  <2>. QED  BY <2>2 DEF Change
<1>2. ASSUME NEW p \in DOMAIN prev.pods, p \notin DOMAIN cur.pods
      PROVE  found(p, "deleted")
  <2>1. Change(p, "deleted", None, 0) \in Range(Deleted(prev.pods, cur.pods, p))
    BY <1>0, <1>2, DeletedRange
  <2>2. Change(p, "deleted", None, 0) \in Range(KubeDiff(prev, cur))
    BY <1>0, <2>1, DiffRange
  <2>. QED  BY <2>2 DEF Change
<1>3. ASSUME NEW p \in DOMAIN prev.pods \cap DOMAIN cur.pods,
             cur.pods[p].phase # prev.pods[p].phase
      PROVE  found(p, "phase")
  <2>1. Change(p, "phase", cur.pods[p].phase, 0)
           \in Range(PodChanges(prev.pods, cur.pods, p))
    BY <1>0, <1>3, PodChangesRange DEF PodFound
  <2>2. Change(p, "phase", cur.pods[p].phase, 0) \in Range(KubeDiff(prev, cur))
    BY <1>0, <2>1, DiffRange
  <2>. QED  BY <2>2 DEF Change
<1>4. ASSUME NEW d \in DOMAIN cur.deployments, d \notin DOMAIN prev.deployments
      PROVE  found(d, "created")
  <2>1. Change(d, "created", None, 0)
           \in Range(DeploymentChanges(prev.deployments, cur.deployments, d))
    BY <1>0, <1>4, DeploymentChangesRange DEF DeploymentFound
  <2>2. Change(d, "created", None, 0) \in Range(KubeDiff(prev, cur))
    BY <1>0, <2>1, DiffRange
  <2>. QED  BY <2>2 DEF Change
<1>5. ASSUME NEW d \in DOMAIN prev.deployments, d \notin DOMAIN cur.deployments
      PROVE  found(d, "deleted")
  <2>1. Change(d, "deleted", None, 0)
           \in Range(Deleted(prev.deployments, cur.deployments, d))
    BY <1>0, <1>5, DeletedRange
  <2>2. Change(d, "deleted", None, 0) \in Range(KubeDiff(prev, cur))
    BY <1>0, <2>1, DiffRange
  <2>. QED  BY <2>2 DEF Change
<1>6. ASSUME NEW d \in DOMAIN prev.deployments \cap DOMAIN cur.deployments,
             cur.deployments[d].available # prev.deployments[d].available
      PROVE  found(d, "ready")
  <2>1. Change(d, "ready", None, cur.deployments[d].available)
           \in Range(DeploymentChanges(prev.deployments, cur.deployments, d))
    <3>1. d \in Deployments /\ d \in DOMAIN cur.deployments /\ d \in DOMAIN prev.deployments
      BY <1>0, <1>6
    <3>. QED  BY <3>1, <1>6, DeploymentChangesRange DEF DeploymentFound
  <2>2. Change(d, "ready", None, cur.deployments[d].available) \in Range(KubeDiff(prev, cur))
    BY <1>0, <2>1, DiffRange
  <2>. QED  BY <2>2 DEF Change
<1>. HIDE DEF found
<1>. QED  BY <1>1, <1>2, <1>3, <1>4, <1>5, <1>6 DEF found

\* What was true of the older listing, and which nothing found contradicts, is
\* true of the newer one.
LEMMA StillHolds ==
    ASSUME NEW prev \in Listings, NEW cur \in Listings, NEW c, c.what \in Telling,
           Holds(c, prev),
           \A e \in Range(KubeDiff(prev, cur)) :
               e.object = c.object => e.what \notin Presence /\ e.what # c.what
    PROVE  Holds(c, cur)
<1>. DEFINE found(o, what) ==
                \E e \in Range(KubeDiff(prev, cur)) : e.object = o /\ e.what = what
<1>1. ~ found(c.object, "created") /\ ~ found(c.object, "deleted") /\ ~ found(c.object, c.what)
  BY DEF Presence
<1>2. /\ \A p \in DOMAIN cur.pods : p \notin DOMAIN prev.pods => found(p, "created")
      /\ \A p \in DOMAIN prev.pods : p \notin DOMAIN cur.pods => found(p, "deleted")
      /\ \A p \in DOMAIN prev.pods \cap DOMAIN cur.pods :
            cur.pods[p].phase # prev.pods[p].phase => found(p, "phase")
      /\ \A d \in DOMAIN cur.deployments :
            d \notin DOMAIN prev.deployments => found(d, "created")
      /\ \A d \in DOMAIN prev.deployments :
            d \notin DOMAIN cur.deployments => found(d, "deleted")
      /\ \A d \in DOMAIN prev.deployments \cap DOMAIN cur.deployments :
            cur.deployments[d].available # prev.deployments[d].available
               => found(d, "ready")
  BY ChangeFound
<1>. HIDE DEF found
<1>3. CASE c.what = "created"
  BY <1>1, <1>2, <1>3 DEF Holds
<1>4. CASE c.what = "deleted"
  BY <1>1, <1>2, <1>4 DEF Holds
<1>5. CASE c.what = "phase"
  BY <1>1, <1>2, <1>5 DEF Holds
<1>6. CASE c.what = "ready"
  BY <1>1, <1>2, <1>6 DEF Holds
<1>. QED  BY <1>3, <1>4, <1>5, <1>6 DEF Telling, Presence

\* emitSnapshot puts the changes in front, the last one first, and drops the
\* oldest entries.
LEMMA RecordedEntries ==
    ASSUME NEW T, NEW old \in Seq(T), NEW changes \in Seq(T)
    PROVE  LET new == Recorded(old, changes)
               n == Len(changes)
           IN  /\ new \in Seq(T) /\ Len(new) <= MaxTimeline
               /\ n <= MaxTimeline => n <= Len(new)
               /\ \A i \in DOMAIN new :
                     IF i <= n THEN new[i] = changes[n + 1 - i]
                     ELSE i - n \in DOMAIN old /\ new[i] = old[i - n]
<1>. DEFINE n == Len(changes)
            first == Reverse(changes)
            all == first \o old
            new == Recorded(old, changes)
<1>1. n \in Nat /\ Len(old) \in Nat /\ MaxTimeline \in Nat
  BY TimelineAssumption
<1>2. first \in Seq(T) /\ Len(first) = n /\ \A i \in 1 .. n : first[i] = changes[n + 1 - i]
  <2>1. first = [i \in 1 .. n |-> changes[(n - i) + 1]]
    BY DEF Reverse
  <2>2. \A i \in 1 .. n : (n - i) + 1 \in 1 .. n /\ (n - i) + 1 = n + 1 - i
    BY <1>1
  <2>. HIDE DEF first, n
  <2>3. \A i \in 1 .. n : changes[(n - i) + 1] \in T
    BY <2>2 DEF n
  <2>. QED  BY <1>1, <2>1, <2>2, <2>3
<1>. HIDE DEF first, n
<1>3. /\ all \in Seq(T) /\ Len(all) = n + Len(old)
      /\ \A i \in 1 .. n : all[i] = changes[n + 1 - i]
      /\ \A i \in n + 1 .. n + Len(old) : all[i] = old[i - n]
  BY <1>1, <1>2
<1>4. new = IF Len(all) <= MaxTimeline THEN all ELSE SubSeq(all, 1, MaxTimeline)
  BY DEF Recorded, first
<1>. HIDE DEF all
<1>5. /\ new \in Seq(T) /\ Len(new) <= MaxTimeline /\ Len(new) <= Len(all)
      /\ Len(new) = Len(all) \/ Len(new) = MaxTimeline
      /\ \A i \in DOMAIN new : i \in DOMAIN all /\ new[i] = all[i]
  <2>1. CASE Len(all) <= MaxTimeline
    BY <1>1, <1>3, <1>4, <2>1
  <2>2. CASE Len(all) > MaxTimeline
    <3>1. new = SubSeq(all, 1, MaxTimeline)
      BY <1>1, <1>3, <1>4, <2>2
    <3>. QED  BY <1>1, <1>3, <2>2, <3>1
  <2>. QED  BY <1>1, <1>3, <2>1, <2>2
<1>. HIDE DEF new
<1>6. n <= MaxTimeline => n <= Len(new)
  BY <1>1, <1>3, <1>5
<1>7. ASSUME NEW i \in DOMAIN new
      PROVE  IF i <= n THEN new[i] = changes[n + 1 - i]
             ELSE i - n \in DOMAIN old /\ new[i] = old[i - n]
  <2>1. i \in 1 .. n + Len(old) /\ new[i] = all[i]
    BY <1>1, <1>3, <1>5
  <2>. QED  BY <1>1, <1>3, <2>1
<1>. QED  BY <1>5, <1>6, <1>7 DEF new, n

-----------------------------------------------------------------------------
(* The data.                                                               *)

\* The entry t[i] still tells of its object: nothing newer says otherwise.
Newest(t, i) ==
    /\ t[i].what \in Telling
    /\ \A j \in 1 .. i - 1 : t[j].object = t[i].object
          => t[j].what \notin Presence /\ t[j].what # t[i].what

\* The invariant of the data.  Stronger than TimelineTellsListing where an entry
\* of a phase or of a readiness also says that its object is still listed, and
\* no timeline is kept before there is a listing.
DataInv ==
    /\ listing \in Listings
    /\ timeline \in Seq(Changes) /\ Len(timeline) <= MaxTimeline
    /\ ~ have => timeline = <<>>
    /\ \A i \in DOMAIN timeline : Newest(timeline, i) => Holds(timeline[i], listing)

\* The data change when a query succeeds, and only then.
Succeeded(new) ==
    /\ have' = TRUE /\ listing' = new
    /\ timeline' = IF have THEN Recorded(timeline, KubeDiff(listing, new)) ELSE timeline

\* Every other step leaves the data alone.
LEMMA DataSteps ==
    ASSUME [Next]_vars
    PROVE  UNCHANGED data \/ \E new \in Listings : Succeeded(new)
<1>1. CASE OnFinished
  <2>1. CASE stopping
    BY <1>1, <2>1 DEF OnFinished
  <2>2. CASE \E ts, state : FailQuery(ts, state)
    BY <2>2 DEF FailQuery
  <2>3. CASE \E ts : \E new \in Listings : SucceedQuery(ts, new)
    BY <2>3 DEF SucceedQuery, Succeeded
  <2>. QED  BY <1>1, <2>1, <2>2, <2>3 DEF OnFinished
<1>2. CASE OnStartFailure
  BY <1>2 DEF OnStartFailure, FailQuery
<1>3. CASE Start \/ Stop
  BY <1>3 DEF Start, Stop
<1>4. CASE OnPollTimeout \/ OnDeadlineTimeout \/ OnKillTimeout \/ OnStarted \/ OnOverflow
  BY <1>4 DEF OnPollTimeout, OnDeadlineTimeout, OnKillTimeout, OnStarted, OnOverflow
<1>5. CASE UNCHANGED vars
  BY <1>5 DEF vars
<1>. QED  BY <1>1, <1>2, <1>3, <1>4, <1>5 DEF Next

\* An empty listing is a listing.
LEMMA EmptyListing == Empty \in Listings
<1>1. {} \in SUBSET Pods /\ {} \in SUBSET Deployments
  OBVIOUS
<1>2. <<>> \in [{} -> PodStates] /\ <<>> \in [{} -> DeploymentStates]
  OBVIOUS
<1>. QED  BY <1>1, <1>2 DEF Empty, Listings

LEMMA DataInit == Init => DataInv
<1>1. SUFFICES ASSUME Init  PROVE DataInv
  OBVIOUS
<1>2. timeline = <<>> /\ listing \in Listings /\ 0 <= MaxTimeline
  BY <1>1, EmptyListing, TimelineAssumption DEF Init
<1>. QED  BY <1>2 DEF DataInv

\* A successful query keeps the timeline true of the listing.
LEMMA SucceededKeeps ==
    ASSUME DataInv, have, NEW new \in Listings, Succeeded(new)
    PROVE  DataInv'
<1>. DEFINE D == KubeDiff(listing, new)
            n == Len(D)
            t == Recorded(timeline, D)
<1>1. /\ listing \in Listings /\ timeline \in Seq(Changes)
      /\ \A i \in DOMAIN timeline : Newest(timeline, i) => Holds(timeline[i], listing)
  BY DEF DataInv
<1>2. have' = TRUE /\ listing' = new /\ timeline' = t
  BY DEF Succeeded
<1>3. D \in Seq(Changes) /\ n \in Nat
  BY <1>1, DiffRange
<1>4. /\ t \in Seq(Changes) /\ Len(t) <= MaxTimeline
      /\ \A i \in DOMAIN t : IF i <= n THEN t[i] = D[n + 1 - i]
                            ELSE i - n \in DOMAIN timeline /\ t[i] = timeline[i - n]
  <2>. HIDE DEF D
  <2>. QED  BY <1>1, <1>3, RecordedEntries
<1>5. \A e \in Range(D) : Holds(e, new)
  BY <1>1, FoundHolds
<1>6. \A c : /\ c.what \in Telling /\ Holds(c, listing)
             /\ \A e \in Range(D) :
                   e.object = c.object => e.what \notin Presence /\ e.what # c.what
             => Holds(c, new)
  BY <1>1, StillHolds
<1>. HIDE DEF D, t, n
<1>7. ASSUME NEW i \in DOMAIN t, Newest(t, i)  PROVE Holds(t[i], new)
  <2>1. i \in Nat /\ i >= 1 /\ i <= Len(t)
    BY <1>4
  <2>2. CASE i <= n
    <3>1. t[i] = D[n + 1 - i] /\ n + 1 - i \in DOMAIN D
      BY <1>3, <1>4, <2>1, <2>2 DEF n
    <3>. QED  BY <3>1, <1>5 DEF Range
  <2>3. CASE i > n
    <3>1. i - n \in DOMAIN timeline /\ t[i] = timeline[i - n]
      BY <1>3, <1>4, <2>1, <2>3
    <3>. DEFINE c == timeline[i - n]
                k == i - n
    <3>2. c.what \in Telling
      BY <1>7, <3>1 DEF Newest
    <3>3. ASSUME NEW e \in Range(D), e.object = c.object
          PROVE  e.what \notin Presence /\ e.what # c.what
      <4>1. PICK m \in DOMAIN D : e = D[m]
        BY DEF Range
      <4>2. m \in 1 .. n
        BY <1>3, <4>1 DEF n
      <4>3. n + 1 - m \in 1 .. i - 1 /\ n + 1 - m \in DOMAIN t /\ n + 1 - m <= n
            /\ n + 1 - (n + 1 - m) = m
        BY <1>3, <1>4, <2>1, <2>3, <4>2
      <4>4. t[n + 1 - m] = e
        BY <1>4, <4>1, <4>3
      <4>. QED  BY <1>7, <3>1, <3>3, <4>3, <4>4 DEF Newest
    <3>4. ASSUME NEW j \in 1 .. k - 1, timeline[j].object = c.object
          PROVE  timeline[j].what \notin Presence /\ timeline[j].what # c.what
      <4>1. j + n \in 1 .. i - 1 /\ j + n \in DOMAIN t /\ ~ (j + n <= n) /\ (j + n) - n = j
        BY <1>3, <1>4, <2>1, <2>3
      <4>2. t[j + n] = timeline[j]
        BY <1>4, <4>1
      <4>. QED  BY <1>7, <3>1, <3>4, <4>1, <4>2 DEF Newest
    <3>5. Newest(timeline, k)
      BY <3>2, <3>4 DEF Newest
    <3>6. Holds(c, listing)
      BY <1>1, <3>1, <3>5
    <3>. HIDE DEF c
    <3>7. Holds(c, new)
      BY <1>6, <3>2, <3>3, <3>6
    <3>. QED  BY <3>1, <3>7 DEF c
  <2>. QED  BY <1>3, <2>1, <2>2, <2>3
<1>. QED  BY <1>2, <1>4, <1>7 DEF DataInv, Newest

\* Every step keeps the invariant of the data.
LEMMA DataStep ==
    ASSUME IInv, DataInv, [Next]_vars
    PROVE  DataInv'
<1>0. have \in BOOLEAN
  BY DEF IInv, FlagsTyped
<1>1. CASE UNCHANGED data
  BY <1>1 DEF data, DataInv, Newest, Holds
<1>2. ASSUME NEW new \in Listings, Succeeded(new)  PROVE DataInv'
  <2>1. CASE have
    BY <1>2, <2>1, SucceededKeeps
  <2>2. CASE ~ have
    <3>1. timeline' = <<>> /\ listing' \in Listings /\ have' = TRUE /\ 0 <= MaxTimeline
      BY <1>2, <2>2, TimelineAssumption DEF Succeeded, DataInv
    <3>. QED  BY <3>1 DEF DataInv
  <2>. QED  BY <1>0, <2>1, <2>2
<1>. QED  BY <1>1, <1>2, DataSteps

LEMMA DataAlwaysHolds == Spec => []DataInv
<1>. QED  BY InvariantHolds, DataInit, DataStep, PTL DEF Spec

\* Of the entries about one object, the newest that says whether it exists, in
\* which phase it is or how many of it are ready says what the last listing
\* says (kubeDiff, emitSnapshot), for any number of objects and any timeline.
THEOREM TimelineAlwaysTellsListing == Spec => []TimelineTellsListing
<1>1. ASSUME DataInv  PROVE TimelineTellsListing
  <2>1. SUFFICES ASSUME NEW i \in DOMAIN timeline,
                        timeline[i].what \in {"created", "deleted", "phase", "ready"},
                        \A j \in 1 .. i - 1 : timeline[j].object = timeline[i].object
                           => ~ TellsPresence(j) /\ timeline[j].what # timeline[i].what
                 PROVE  Agrees(timeline[i])
    BY DEF TimelineTellsListing
  <2>. DEFINE c == timeline[i]
  <2>2. Newest(timeline, i)
    BY <2>1 DEF Newest, Telling, Presence, TellsPresence
  <2>3. Holds(c, listing) /\ c \in Changes /\ listing \in Listings
    BY <1>1, <2>2 DEF DataInv
  <2>4. c.what \in {"created", "deleted", "phase", "ready"}
        /\ c.object \in Pods \cup Deployments
    BY <2>1, <2>3 DEF Changes
  <2>5. DOMAIN listing.pods \subseteq Pods /\ DOMAIN listing.deployments \subseteq Deployments
    BY <2>3, ListingTypes
  <2>6. Pods \cap Deployments = {}
    BY StatesAssumption
  <2>. HIDE DEF c
  <2>. DEFINE states == IF c.object \in Pods THEN listing.pods ELSE listing.deployments
  <2>7. /\ c.what = "created" => c.object \in DOMAIN states
        /\ c.what = "deleted" => c.object \notin DOMAIN states
        /\ c.what = "phase" => states[c.object].phase = c.word
        /\ c.what = "ready" => states[c.object].available = c.number
    BY <2>3, <2>4, <2>5, <2>6 DEF Holds
  <2>8. Agrees(c) = CASE c.what = "created" -> c.object \in DOMAIN states
                      [] c.what = "deleted" -> c.object \notin DOMAIN states
                      [] c.what = "phase"   -> states[c.object].phase = c.word
                      [] c.what = "ready"   -> states[c.object].available = c.number
    BY DEF Agrees
  <2>. HIDE DEF states
  <2>9. Agrees(c)
    BY <2>4, <2>7, <2>8
  <2>. QED  BY <2>9 DEF c
<1>. QED  BY <1>1, DataAlwaysHolds, PTL

\* A pod that became an issue is among the objects of the changes.
LEMMA IssueFound ==
    ASSUME NEW prev \in Listings, NEW cur \in Listings,
           NEW p \in PodIssues(cur) \ PodIssues(prev)
    PROVE  \E e \in Range(KubeDiff(prev, cur)) : e.object = p
<1>1. p \in Pods /\ p \in DOMAIN cur.pods /\ PodIsIssue(cur.pods[p])
  BY ListingTypes DEF PodIssues
<1>2. p \in DOMAIN prev.pods => ~ PodIsIssue(prev.pods[p])
  BY DEF PodIssues
<1>3. ASSUME NEW e, PodFound(prev.pods, cur.pods, p, e)
      PROVE  e \in Range(KubeDiff(prev, cur))
  BY <1>1, <1>3, PodChangesRange, DiffRange
<1>4. CASE p \notin DOMAIN prev.pods
  <2>1. PodFound(prev.pods, cur.pods, p, Change(p, "created", None, 0))
    BY <1>1, <1>4 DEF PodFound
  <2>. QED  BY <1>3, <2>1 DEF Change
<1>5. CASE p \in DOMAIN prev.pods
  <2>. DEFINE was == prev.pods[p]
              now == cur.pods[p]
  <2>1. was \in Pod /\ now \in Pod /\ PodIsIssue(now) /\ ~ PodIsIssue(was)
    BY <1>1, <1>2, <1>5, ListingTypes
  <2>. HIDE DEF was, now
  <2>2. \/ now.phase # was.phase
        \/ now.reason \notin {was.reason, None}
        \/ now.restarts > was.restarts
    BY <2>1 DEF PodIsIssue, Pod, BadReasons, None
  <2>3. CASE now.phase # was.phase
    <3>1. PodFound(prev.pods, cur.pods, p, Change(p, "phase", cur.pods[p].phase, 0))
      BY <1>1, <1>5, <2>3 DEF PodFound, was, now
    <3>. QED  BY <1>3, <3>1 DEF Change
  <2>4. CASE now.reason \notin {was.reason, None}
    <3>1. PodFound(prev.pods, cur.pods, p, Change(p, "reason", cur.pods[p].reason, 0))
      BY <1>1, <1>5, <2>4 DEF PodFound, was, now
    <3>. QED  BY <1>3, <3>1 DEF Change
  <2>5. CASE now.restarts > was.restarts
    <3>1. PodFound(prev.pods, cur.pods, p, Change(p, "restarted", None, 0))
      BY <1>1, <1>5, <2>5 DEF PodFound, was, now
    <3>. QED  BY <1>3, <3>1 DEF Change
  <2>. QED  BY <2>2, <2>3, <2>4, <2>5
<1>. QED  BY <1>4, <1>5

\* Every pod that became an issue between two listings is in the timeline, when
\* the changes between them fit in it: kubeDiff looks at all that kubePodIsIssue
\* looks at.
THEOREM NewIssueIsAlwaysLogged == Spec => NewIssueIsLogged
<1>1. ASSUME DataInv, [Next]_vars, have,
             Len(KubeDiff(listing, listing')) <= MaxTimeline,
             NEW p \in PodIssues(listing') \ PodIssues(listing)
      PROVE  \E i \in 1 .. Len(KubeDiff(listing, listing')) : timeline'[i].object = p
  <2>1. ~ UNCHANGED data
    BY <1>1 DEF data
  <2>2. PICK new \in Listings : Succeeded(new)
    BY <1>1, <2>1, DataSteps
  <2>. DEFINE D == KubeDiff(listing, new)
              n == Len(D)
  <2>3. listing' = new /\ timeline' = Recorded(timeline, D)
    BY <1>1, <2>2 DEF Succeeded
  <2>4. listing \in Listings /\ timeline \in Seq(Changes)
    BY <1>1 DEF DataInv
  <2>5. D \in Seq(Changes) /\ n \in Nat /\ n <= MaxTimeline
    BY <1>1, <2>3, <2>4, DiffRange
  <2>6. PICK e \in Range(D) : e.object = p
    BY <1>1, <2>3, <2>4, IssueFound
  <2>. HIDE DEF D
  <2>7. PICK m \in DOMAIN D : e = D[m]
    BY DEF Range
  <2>8. /\ timeline' \in Seq(Changes) /\ n <= Len(timeline')
        /\ \A i \in DOMAIN timeline' : i <= n => timeline'[i] = D[n + 1 - i]
    <3>. DEFINE t == Recorded(timeline, D)
    <3>1. /\ t \in Seq(Changes) /\ (n <= MaxTimeline => n <= Len(t))
          /\ \A i \in DOMAIN t : IF i <= n THEN t[i] = D[n + 1 - i]
                                ELSE i - n \in DOMAIN timeline /\ t[i] = timeline[i - n]
      BY <2>4, <2>5, RecordedEntries
    <3>. HIDE DEF t
    <3>2. timeline' = t
      BY <2>3 DEF t
    <3>. QED  BY <2>5, <3>1, <3>2
  <2>9. n + 1 - m \in 1 .. n /\ n + 1 - m \in DOMAIN timeline' /\ n + 1 - (n + 1 - m) = m
    BY <2>5, <2>7, <2>8
  <2>10. timeline'[n + 1 - m] = e
    BY <2>7, <2>8, <2>9
  <2>. QED  BY <2>3, <2>6, <2>9, <2>10 DEF D
<1>2. DataInv /\ [Next]_vars =>
         [LET added == Len(KubeDiff(listing, listing'))
          IN have /\ added <= MaxTimeline =>
               \A p \in PodIssues(listing') \ PodIssues(listing) :
                   \E i \in 1 .. added : timeline'[i].object = p]_vars
  BY <1>1
<1>. QED  BY <1>2, DataAlwaysHolds, PTL DEF Spec, NewIssueIsLogged

-----------------------------------------------------------------------------
(* The types.                                                              *)

Timers == {"poll", "deadline", "kill"}

OthersTyped ==
    /\ armed \subseteq Timers
    /\ sig \in {"none", "term", "kill"}
    /\ shown \in States

\* The ends and the starts of queries arm known timers and show known states.
LEMMA QueryTypes ==
    ASSUME NEW ts \in SUBSET Timers, NEW s \in States, OthersTyped
    PROVE  /\ BeginQuery(ts, s) => OthersTyped'
           /\ EndQuery(ts, s) => OthersTyped'
<1>1. FailureShown("CommandFailed") \in States
  BY DEF FailureShown, States, Failures, AbortStates
<1>2. ASSUME BeginQuery(ts, s)  PROVE OthersTyped'
  <2>1. "NotConfigured" \in States
    BY DEF States
  <2>2. armed' \subseteq Timers
    BY <1>2 DEF BeginQuery, Timers
  <2>3. sig' \in {"none", "term", "kill"}
    BY <1>2 DEF BeginQuery, OthersTyped
  <2>4. shown' \in States
    BY <1>1, <1>2, <2>1 DEF BeginQuery
  <2>. QED  BY <2>2, <2>3, <2>4 DEF OthersTyped
<1>3. ASSUME EndQuery(ts, s)  PROVE OthersTyped'
  <2>1. CASE refresh
    BY <1>2, <1>3, <2>1 DEF EndQuery
  <2>2. CASE ~ refresh
    BY <1>3, <2>2 DEF EndQuery, OthersTyped, Timers
  <2>. QED  BY <2>1, <2>2
<1>. QED  BY <1>2, <1>3

\* So does a failed query.
LEMMA FailTypes ==
    ASSUME NEW ts \in SUBSET Timers, NEW state \in States, OthersTyped,
           FailQuery(ts, state)
    PROVE  OthersTyped'
<1>1. FailureShown(state) \in States
  BY DEF FailureShown, States
<1>2. EndQuery(ts, FailureShown(state))
  BY DEF FailQuery
<1>. QED  BY <1>1, <1>2, QueryTypes

LEMMA OthersStep ==
    ASSUME FlagsTyped, OthersTyped, [Next]_vars
    PROVE  OthersTyped'
<1>1. /\ armed \in SUBSET Timers /\ sig \in {"none", "term", "kill"} /\ shown \in States
      /\ \A S : armed \ S \in SUBSET Timers
      /\ abortState \in States /\ "CommandFailed" \in States /\ "Ok" \in States
      /\ Failures \subseteq States
      /\ FailureShown("CommandFailed") \in States
  BY DEF OthersTyped, FlagsTyped, States, AbortStates, FailureShown
<1>2. CASE Start
  <2>1. CASE stopping \/ running
    BY <1>1, <1>2, <2>1 DEF Start, query, child, OthersTyped
  <2>2. CASE ~ stopping /\ ~ running
    <3>1. BeginQuery(armed, shown)
      BY <1>2, <2>2 DEF Start
    <3>. QED  BY <1>1, <3>1, QueryTypes
  <2>. QED  BY <2>1, <2>2 DEF FlagsTyped
<1>3. CASE Stop
  BY <1>1, <1>3 DEF Stop, child, OthersTyped, Timers
<1>4. CASE OnPollTimeout
  <2>1. CASE running
    BY <1>1, <1>4, <2>1 DEF OnPollTimeout, child, OthersTyped
  <2>2. CASE ~ running
    <3>1. BeginQuery(armed \ {"poll"}, shown)
      BY <1>4, <2>2 DEF OnPollTimeout
    <3>. QED  BY <1>1, <3>1, QueryTypes
  <2>. QED  BY <2>1, <2>2
<1>5. CASE OnDeadlineTimeout
  BY <1>1, <1>5 DEF OnDeadlineTimeout, Abort, OthersTyped, Timers
<1>6. CASE OnKillTimeout
  BY <1>1, <1>6 DEF OnKillTimeout, OthersTyped
<1>7. CASE OnStarted
  BY <1>1, <1>7 DEF OnStarted, OthersTyped
<1>8. CASE OnOverflow
  BY <1>1, <1>8 DEF OnOverflow, Abort, OthersTyped, Timers
<1>9. CASE OnStartFailure
  <2>1. CASE stopping
    BY <1>1, <1>9, <2>1 DEF OnStartFailure, OthersTyped
  <2>2. CASE ~ stopping
    <3>1. FailQuery(armed \ {"deadline"}, "CommandFailed")
      BY <1>9, <2>2 DEF OnStartFailure
    <3>. QED  BY <1>1, <3>1, FailTypes
  <2>. QED  BY <2>1, <2>2
<1>10. CASE OnFinished
  <2>. DEFINE ts == armed \ {"deadline", "kill"}
  <2>1. ts \in SUBSET Timers
    BY <1>1
  <2>2. \/ /\ armed' = ts /\ UNCHANGED <<sig, shown>>
        \/ \E state \in States : FailQuery(ts, state)
        \/ EndQuery(ts, "Ok")
    BY <1>1, <1>10 DEF OnFinished, SucceedQuery
  <2>. HIDE DEF ts
  <2>. QED  BY <1>1, <2>1, <2>2, FailTypes, QueryTypes DEF OthersTyped
<1>11. CASE UNCHANGED vars
  BY <1>1, <1>11 DEF vars, query, child, OthersTyped
<1>. QED
  BY <1>2, <1>3, <1>4, <1>5, <1>6, <1>7, <1>8, <1>9, <1>10, <1>11 DEF Next

\* path is set by start() only.
LEMMA PathStep ==
    ASSUME path \in BOOLEAN, [Next]_vars
    PROVE  path' \in BOOLEAN
<1>1. CASE Start
  BY <1>1 DEF Start
<1>2. CASE Stop
  BY <1>2 DEF Stop
<1>3. CASE UNCHANGED life
  BY <1>3 DEF life
<1>. QED
  BY <1>1, <1>2, <1>3
  DEF Next, OnPollTimeout, OnDeadlineTimeout, OnKillTimeout, OnStarted, OnStartFailure,
      OnOverflow, OnFinished, vars

\* Every variable keeps its type, whatever the listings say.
THEOREM TypesAlwaysHold == Spec => []TypeOK
<1>1. Init => OthersTyped /\ path \in BOOLEAN
  BY DEF Init, OthersTyped, States, Timers
<1>2. IInv /\ (OthersTyped /\ path \in BOOLEAN) /\ [Next]_vars
        => (OthersTyped /\ path \in BOOLEAN)'
  BY OthersStep, PathStep DEF IInv
<1>3. IInv /\ (OthersTyped /\ path \in BOOLEAN) /\ DataInv => TypeOK
  <2>1. SUFFICES ASSUME IInv, OthersTyped, path \in BOOLEAN, DataInv  PROVE TypeOK
    OBVIOUS
  <2>2. {started, path, stopping, running, aborting, refresh, have} \subseteq BOOLEAN
    BY <2>1, Zenon DEF IInv, FlagsTyped
  <2>3. abortState \in AbortStates /\ proc \in {"NotRunning", "Starting", "Running"}
    BY <2>1 DEF IInv, FlagsTyped
  <2>. QED  BY <2>1, <2>2, <2>3 DEF OthersTyped, Timers, DataInv, TypeOK
<1>. QED  BY <1>1, <1>2, <1>3, InvariantHolds, DataAlwaysHolds, PTL DEF Spec

-----------------------------------------------------------------------------
(* Refinement: the source is a StatusFeed, however often start() is called. *)

\* What is known and shown has to do with the executable that said it, and a
\* stopped source asks no more.
Known ==
    /\ have => path /\ started
    /\ running => path
    /\ stopping => ~ running /\ "poll" \notin armed
    /\ shown \in {"Ok", "Stale"} => have

\* What a failure puts on the screen.
LEMMA FailureOnScreen ==
    ASSUME FlagsTyped, UNCHANGED <<have, listing>>, NEW state \in AbortStates \cup Failures,
           shown' = FailureShown(state)
    PROVE  Feed!ShowFailure /\ (shown' = "Stale" => have)
<1>1. state \notin {"Ok", "Stale"}
  BY DEF AbortStates, Failures
<1>2. CASE have
  <2>1. shown' = "Stale"
    BY <1>2 DEF FailureShown
  <2>2. OnScreen' = [state |-> "Stale", answer |-> {listing}]
    BY <2>1 DEF OnScreen
  <2>. QED  BY <1>2, <2>2 DEF Feed!ShowFailure, Feed!Stale
<1>3. CASE ~ have
  <2>1. shown' = state
    BY <1>3 DEF FailureShown
  <2>2. OnScreen' = [state |-> state, answer |-> {}]
    BY <1>1, <2>1 DEF OnScreen
  <2>. QED  BY <1>1, <1>3, <2>1, <2>2 DEF Feed!ShowFailure, Feed!Error
<1>. QED  BY <1>2, <1>3

\* beginQuery asks, fails to, or finds nobody to ask.
LEMMA BeginFeeds ==
    ASSUME FlagsTyped, Known, UNCHANGED <<have, listing, stopping>>, started',
           ~ stopping, ~ running, ~ refresh, have => path',
           NEW ts, BeginQuery(ts, shown)
    PROVE  Feed!Next /\ Known'
<1>1. Phase \in {"off", "idle"} /\ refresh' = FALSE
  BY DEF Phase, BeginQuery, FlagsTyped
<1>2. CASE ~ path'
  <2>1. shown' = "NotConfigured" /\ running' = FALSE /\ ~ have
    BY <1>2 DEF BeginQuery
  <2>2. OnScreen' = [state |-> "NotConfigured", answer |-> {}] /\ Phase' = "idle"
    BY <2>1 DEF OnScreen, Phase
  <2>3. Feed!Decline
    BY <1>1, <2>1, <2>2 DEF Feed!Decline, Feed!Error, FlagsTyped
  <2>. QED  BY <2>1, <2>3 DEF Feed!Next, Known
<1>3. CASE path' /\ running' = TRUE
  <2>1. shown' = shown
    BY <1>3 DEF BeginQuery
  <2>2. OnScreen' = OnScreen /\ Phase' = "asking"
    BY <1>3, <2>1 DEF OnScreen, Phase
  <2>3. Feed!Ask
    BY <1>1, <2>2 DEF Feed!Ask, FlagsTyped
  <2>. QED  BY <1>3, <2>1, <2>3 DEF Feed!Next, Known
<1>4. CASE path' /\ running' = FALSE
  <2>1. shown' = FailureShown("CommandFailed")
    BY <1>4 DEF BeginQuery
  <2>2. Feed!ShowFailure /\ (shown' = "Stale" => have) /\ shown' # "Ok"
    BY <2>1, FailureOnScreen, FailureNotOk DEF Failures
  <2>3. Phase' = "idle"
    BY <1>4 DEF Phase
  <2>4. Feed!Fail
    BY <1>1, <2>2, <2>3 DEF Feed!Fail, FlagsTyped
  <2>. QED  BY <1>4, <2>2, <2>4 DEF Feed!Next, Known
<1>. QED  BY <1>2, <1>3, <1>4 DEF BeginQuery

\* start() and a poll during a query.
LEMMA AgainFeeds ==
    ASSUME ~ stopping, running, started', refresh' = TRUE,
           UNCHANGED <<stopping, running, have, listing, shown>>
    PROVE  Feed!Next
<1>1. Phase = "asking" /\ UNCHANGED <<Phase, OnScreen>>
  BY DEF Phase, OnScreen
<1>. QED  BY <1>1 DEF Feed!Next, Feed!AskAgain

\* A failed query is a failed question; the one that waited is put.
LEMMA FailFeeds ==
    ASSUME FlagsTyped, Known, running, started, ~ stopping, UNCHANGED life,
           NEW ts, NEW state \in AbortStates \cup Failures, FailQuery(ts, state)
    PROVE  Feed!Next /\ Known'
<1>1. UNCHANGED <<started, path, stopping, have, listing>> /\ EndQuery(ts, FailureShown(state))
  BY DEF life, data, FailQuery
<1>2. Phase = "asking" /\ path
  BY DEF Phase, Known
<1>3. CASE ~ refresh
  <2>1. shown' = FailureShown(state) /\ running' = FALSE /\ refresh' = refresh
    BY <1>1, <1>3 DEF EndQuery
  <2>2. Feed!ShowFailure /\ (shown' = "Stale" => have) /\ shown' # "Ok"
    BY <1>1, <2>1, FailureOnScreen, FailureNotOk
  <2>3. Phase' = "idle"
    BY <1>1, <2>1 DEF Phase
  <2>4. Feed!Fail
    BY <1>2, <1>3, <2>1, <2>2, <2>3 DEF Feed!Fail
  <2>. QED  BY <1>1, <2>1, <2>2, <2>4 DEF Feed!Next, Known
<1>4. CASE refresh
  <2>1. BeginQuery(ts, FailureShown(state))
    BY <1>1, <1>4 DEF EndQuery
  <2>2. /\ refresh' = FALSE
        /\ running' \in BOOLEAN
        /\ shown' = FailureShown(state) \/ shown' = FailureShown("CommandFailed")
    BY <1>1, <1>2, <2>1 DEF BeginQuery
  <2>3. Feed!ShowFailure /\ (shown' = "Stale" => have) /\ shown' # "Ok"
    BY <1>1, <2>2, FailureOnScreen, FailureNotOk DEF Failures
  <2>4. Phase' \in {"asking", "idle"}
    BY <1>1, <2>2 DEF Phase
  <2>5. Feed!FailThenAsk
    BY <1>2, <1>4, <2>2, <2>3, <2>4 DEF Feed!FailThenAsk
  <2>. QED  BY <1>1, <1>2, <2>3, <2>5 DEF Feed!Next, Known
<1>. QED  BY <1>3, <1>4

\* A listing is an answer, and it is what the screen shows unless the question
\* that waited failed on the spot.
LEMMA SucceedFeeds ==
    ASSUME FlagsTyped, Known, running, started, ~ stopping, UNCHANGED life,
           NEW ts, NEW new \in Listings, SucceedQuery(ts, new)
    PROVE  Feed!Next /\ Known'
<1>1. /\ UNCHANGED <<started, path, stopping>>
      /\ have' = TRUE /\ listing' = new /\ EndQuery(ts, "Ok")
  BY DEF life, SucceedQuery
<1>2. Phase = "asking" /\ path
  BY DEF Phase, Known
<1>3. {new} \in {{l} : l \in Listings} /\ (IF have THEN {listing} ELSE {})' = {new}
  BY <1>1
<1>4. CASE ~ refresh
  <2>1. shown' = "Ok" /\ running' = FALSE /\ refresh' = refresh
    BY <1>1, <1>4 DEF EndQuery
  <2>2. OnScreen' = [state |-> "Ok", answer |-> {new}] /\ Phase' = "idle"
    BY <1>1, <2>1 DEF OnScreen, Phase
  <2>3. Feed!Answer
    BY <1>2, <1>3, <1>4, <2>1, <2>2 DEF Feed!Answer, Feed!Fresh
  <2>. QED  BY <1>1, <1>2, <2>1, <2>3 DEF Feed!Next, Known
<1>5. CASE refresh
  <2>1. BeginQuery(ts, "Ok")
    BY <1>1, <1>5 DEF EndQuery
  <2>2. CASE running' = TRUE
    <3>1. shown' = "Ok" /\ refresh' = FALSE
      BY <2>1, <2>2 DEF BeginQuery
    <3>2. OnScreen' = [state |-> "Ok", answer |-> {new}] /\ Phase' = "asking"
      BY <1>1, <2>2, <3>1 DEF OnScreen, Phase
    <3>3. Feed!AnswerThenAsk
      BY <1>2, <1>3, <1>5, <3>1, <3>2 DEF Feed!AnswerThenAsk, Feed!Fresh
    <3>. QED  BY <1>1, <1>2, <3>3 DEF Feed!Next, Known
  <2>3. CASE running' = FALSE
    <3>1. shown' = "Stale" /\ refresh' = FALSE
      BY <1>1, <1>2, <2>1, <2>3 DEF BeginQuery, FailureShown
    <3>2. OnScreen' = [state |-> "Stale", answer |-> {new}] /\ Phase' = "idle"
      BY <1>1, <2>3, <3>1 DEF OnScreen, Phase
    <3>3. Feed!AnswerThenAsk
      BY <1>2, <1>3, <1>5, <3>1, <3>2 DEF Feed!AnswerThenAsk, Feed!Stale
    <3>. QED  BY <1>1, <1>2, <3>3 DEF Feed!Next, Known
  <2>. QED  BY <2>1, <2>2, <2>3 DEF BeginQuery
<1>. QED  BY <1>4, <1>5

\* stop() and the start failure it may still let through.
LEMMA HaltFeeds ==
    ASSUME FlagsTyped, stopping' = TRUE, UNCHANGED <<have, listing, refresh>>,
           shown' \in {shown, FailureShown("CommandFailed")}
    PROVE  /\ Feed!Next
           /\ shown' \in {"Ok", "Stale"} => have \/ shown' = shown
<1>1. Phase' = "stopped"
  BY DEF Phase
<1>2. CASE shown' = shown
  <2>1. UNCHANGED OnScreen
    BY <1>2 DEF OnScreen
  <2>. QED  BY <1>1, <1>2, <2>1 DEF Feed!Next, Feed!Halt
<1>3. CASE shown' = FailureShown("CommandFailed")
  <2>1. Feed!ShowFailure /\ (shown' = "Stale" => have) /\ shown' # "Ok"
    BY <1>3, FailureOnScreen, FailureNotOk DEF Failures
  <2>. QED  BY <1>1, <2>1 DEF Feed!Next, Feed!Halt
<1>. QED  BY <1>2, <1>3

\* The slots that the window cannot see.
LEMMA QuietFeeds ==
    ASSUME UNCHANGED <<started, stopping, running, refresh, have, listing, shown>>
    PROVE  UNCHANGED Feed!feed
BY DEF Feed!feed, Phase, OnScreen

LEMMA FeedStep ==
    ASSUME IInv, Known, [Next]_vars
    PROVE  Known' /\ [Feed!Next]_(Feed!feed)
<1>1. FlagsTyped /\ Supervised
  BY DEF IInv
<1>2. running => started /\ ~ stopping
  BY <1>1 DEF Supervised, Known, FlagsTyped
<1>3. CASE Start
  <2>1. started' /\ UNCHANGED <<stopping, have, listing>> /\ (started => path' = path)
    BY <1>3 DEF Start, data
  <2>2. CASE stopping
    <3>1. UNCHANGED <<running, refresh, armed, shown>>
      BY <1>3, <2>2 DEF Start, query
    <3>2. UNCHANGED Feed!feed
      BY <2>1, <2>2, <3>1 DEF Feed!feed, Phase, OnScreen
    <3>. QED  BY <1>1, <1>2, <2>1, <2>2, <3>1, <3>2 DEF Known
  <2>3. CASE ~ stopping /\ running
    <3>1. refresh' = TRUE /\ UNCHANGED <<running, armed, shown>>
      BY <1>3, <2>3 DEF Start
    <3>2. Feed!Next
      BY <2>1, <2>3, <3>1, AgainFeeds
    <3>. QED  BY <1>2, <2>1, <2>3, <3>1, <3>2 DEF Known
  <2>4. CASE ~ stopping /\ ~ running
    <3>1. BeginQuery(armed, shown)
      BY <1>3, <2>4 DEF Start
    <3>2. ~ refresh /\ (have => path')
      BY <1>1, <2>1, <2>4 DEF Supervised, Known, FlagsTyped
    <3>. QED  BY <1>1, <2>1, <2>4, <3>1, <3>2, BeginFeeds
  <2>. QED  BY <2>2, <2>3, <2>4
<1>4. CASE OnPollTimeout
  <2>1. UNCHANGED <<started, path, stopping, have, listing>> /\ ~ stopping /\ started
    BY <1>1, <1>4 DEF OnPollTimeout, life, data, Known, Supervised, FlagsTyped
  <2>2. CASE running
    <3>1. refresh' = TRUE /\ UNCHANGED <<running, shown>>
      BY <1>4, <2>2 DEF OnPollTimeout
    <3>2. Feed!Next
      BY <2>1, <2>2, <3>1, AgainFeeds
    <3>. QED  BY <2>1, <2>2, <3>1, <3>2 DEF Known
  <2>3. CASE ~ running
    <3>1. BeginQuery(armed \ {"poll"}, shown)
      BY <1>4, <2>3 DEF OnPollTimeout
    <3>2. ~ refresh /\ (have => path')
      BY <1>1, <2>1, <2>3 DEF Supervised, Known, FlagsTyped
    <3>. QED  BY <1>1, <2>1, <2>3, <3>1, <3>2, BeginFeeds
  <2>. QED  BY <2>2, <2>3
<1>5. CASE OnStartFailure \/ OnFinished
  <2>1. UNCHANGED <<started, path, stopping>> /\ UNCHANGED life /\ proc # "NotRunning"
    BY <1>5 DEF OnStartFailure, OnFinished, life
  <2>2. CASE stopping
    <3>1. /\ UNCHANGED <<have, listing, refresh>>
          /\ shown' \in {shown, FailureShown("CommandFailed")}
          /\ running' = FALSE /\ armed' \subseteq armed
      BY <1>5, <2>2 DEF OnStartFailure, OnFinished, data
    <3>. QED  BY <1>1, <2>1, <2>2, <3>1, HaltFeeds DEF Known, FlagsTyped
  <2>3. CASE ~ stopping
    <3>1. running /\ started
      BY <1>1, <2>1, <2>3 DEF Supervised, FlagsTyped
    <3>2. \/ \E ts : \E state \in AbortStates \cup Failures : FailQuery(ts, state)
          \/ \E ts : \E new \in Listings : SucceedQuery(ts, new)
      BY <1>1, <1>5, <2>3 DEF OnStartFailure, OnFinished, FlagsTyped, Failures
    <3>. QED  BY <1>1, <2>1, <2>3, <3>1, <3>2, FailFeeds, SucceedFeeds
  <2>. QED  BY <2>2, <2>3
<1>6. CASE Stop
  <2>1. /\ stopping' = TRUE /\ running' = FALSE /\ "poll" \notin armed'
        /\ UNCHANGED <<started, path, have, listing, refresh>>
        /\ shown' \in {shown, FailureShown("CommandFailed")}
    BY <1>6 DEF Stop, data
  <2>. QED  BY <1>1, <2>1, HaltFeeds DEF Known
<1>7. CASE OnStarted \/ OnOverflow \/ OnDeadlineTimeout \/ OnKillTimeout \/ UNCHANGED vars
  <2>1. /\ UNCHANGED <<started, path, stopping, running, refresh, have, listing, shown>>
        /\ "poll" \notin armed => "poll" \notin armed'
    BY <1>7 DEF OnStarted, OnOverflow, OnDeadlineTimeout, OnKillTimeout, Abort, vars, life,
                query, data
  <2>. QED  BY <2>1, QuietFeeds DEF Known
<1>. QED  BY <1>3, <1>4, <1>5, <1>6, <1>7 DEF Next

\* However often start() is called and whatever timers, signals and buffers do,
\* the source asks one question at a time, shows the last answer, fresh or
\* stale, once there was one, and puts a question that waited at once.
THEOREM SourceImplementsFeed == Spec => ImplementsFeed
<1>1. Init => Feed!Init /\ Known
  <2>1. Init => Known
    BY DEF Init, Known
  <2>2. Init => Phase = "off" /\ OnScreen = [state |-> "None", answer |-> {}]
    BY DEF Init, Phase, OnScreen
  <2>3. Init => Feed!Init
    BY <2>2 DEF Init, Feed!Init, Feed!Blank
  <2>. QED  BY <2>1, <2>3
<1>2. IInv /\ Known /\ [Next]_vars => Known' /\ [Feed!Next]_(Feed!feed)
  BY FeedStep
<1>. QED
  BY <1>1, <1>2, InvariantHolds, PTL DEF Spec, ImplementsFeed, Feed!Spec
=============================================================================
