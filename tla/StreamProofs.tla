----------------------------- MODULE StreamProofs -----------------------------
(***************************************************************************)
(* Inductive invariants of the parts that get their answer piece by piece,  *)
(* each part by itself: SyntheticSource, PathSource and TlsSource ask a list *)
(* of targets one after the other, PgClient and TraceSource read a stream,  *)
(* ProcessTree follows links that were read at different times.             *)
(***************************************************************************)
EXTENDS Streams, FiniteSetTheorems, SequenceTheorems, WellFoundedInduction, TLAPS

-----------------------------------------------------------------------------
(* SyntheticSource: a round that runs has a result for every target before  *)
(* the one that is asked.                                                   *)

ProbeResults == [url : ToSet(Probes) \cup {"curl"}, success : BOOLEAN]

Answered(done) ==
    /\ done \in Seq(ProbeResults) /\ Len(done) <= Len(Probes)
    /\ \A i \in 1 .. Len(done) : done[i].url = Probes[i]

SyntheticInv ==
    /\ found \in BOOLEAN
    /\ running /\ child # "none" =>
           found /\ Answered(results) /\ index = Len(results) /\ index < Len(Probes)
    /\ Synthetic!ProbesAreComplete

LEMMA ProbesAreListed ==
    /\ Len(Probes) \in Nat /\ DOMAIN Probes = 1 .. Len(Probes)
    /\ \A i \in 1 .. Len(Probes) : Probes[i] \in ToSet(Probes)
BY RoundsAssumption DEF ToSet

LEMMA ResultIsTyped ==
    ASSUME NEW url \in ToSet(Probes) \cup {"curl"}, NEW ok \in BOOLEAN
    PROVE  Synthetic!Result(url, ok) \in ProbeResults /\ Synthetic!Result(url, ok).url = url
BY DEF ProbeResults, Synthetic!Result

\* The two counts of a snapshot add up to its results.
LEMMA CountsAddUp ==
    ASSUME NEW done \in Seq(ProbeResults), NEW curl \in BOOLEAN, ~curl => done = <<>>
    PROVE  LET s == Synthetic!Snapshot(done, curl)
           IN  /\ s.results = IF ~curl THEN <<Synthetic!Result("curl", FALSE)>> ELSE done
               /\ s.upCount + s.downCount = Len(s.results)
<1> DEFINE all == IF ~curl THEN <<Synthetic!Result("curl", FALSE)>> ELSE done
           up == {i \in DOMAIN all : all[i].success}
<1>1. all = IF ~curl /\ done = <<>> THEN <<Synthetic!Result("curl", FALSE)>> ELSE done
  OBVIOUS
<1>2. Len(all) \in Nat /\ DOMAIN all = 1 .. Len(all)
  <2>1. CASE curl
    BY <2>1
  <2>2. CASE ~curl
    BY <2>2
  <2>. QED  BY <2>1, <2>2
<1>3. Synthetic!Cardinality(up) = Cardinality(up)
  BY Zenon DEF Cardinality, Synthetic!Cardinality
<1>4. Synthetic!Snapshot(done, curl) =
          [results |-> all, upCount |-> Cardinality(up), downCount |-> Len(all) - Cardinality(up)]
  BY <1>1, <1>3, Zenon DEF Synthetic!Snapshot
<1> HIDE DEF all
<1>5. up \in SUBSET (1 .. Len(all)) /\ IsFiniteSet(1 .. Len(all))
  BY <1>2, FS_Interval
<1>6. Cardinality(up) \in Nat
  BY <1>5, FS_Subset, FS_CardinalityType
<1> HIDE DEF up
<1>7. Cardinality(up) + (Len(all) - Cardinality(up)) = Len(all)
  BY <1>2, <1>6
<1>. QED  BY <1>4, <1>7 DEF all

\* runNext: the next target is asked, or the round is shown.
LEMMA ProbeRunNext ==
    ASSUME NEW done, Answered(done), NEW curl \in BOOLEAN, ~curl => done = <<>>,
           found' = curl, Synthetic!RunNext(done, Len(done), curl),
           Synthetic!ProbesAreComplete, shown = {} \/ curl = found
    PROVE  SyntheticInv'
<1>1. done \in Seq(ProbeResults) /\ Len(done) \in Nat /\ Len(done) <= Len(Probes)
  BY DEF Answered
<1>2. CASE ~curl \/ Len(done) >= Len(Probes)
  <2>1. running' = FALSE /\ shown' = {Synthetic!Snapshot(done, curl)}
    BY <1>2 DEF Synthetic!RunNext
  <2> DEFINE s == Synthetic!Snapshot(done, curl)
  <2>2. /\ s.results = IF ~curl THEN <<Synthetic!Result("curl", FALSE)>> ELSE done
        /\ s.upCount + s.downCount = Len(s.results)
    BY <1>1, CountsAddUp
  <2> HIDE DEF s
  <2>3. ASSUME curl  PROVE [i \in DOMAIN s.results |-> s.results[i].url] = Probes
    <3>1. s.results = done /\ Len(done) = Len(Probes)
      BY <1>1, <1>2, <2>2, <2>3, ProbesAreListed
    <3>2. DOMAIN done = DOMAIN Probes /\ \A i \in DOMAIN Probes : done[i].url = Probes[i]
      BY <1>1, <3>1, ProbesAreListed DEF Answered
    <3>3. Probes = [i \in DOMAIN Probes |-> Probes[i]]
      BY RoundsAssumption
    <3>. QED  BY <3>1, <3>2, <3>3
  <2>4. ~curl => s.results = <<Synthetic!Result("curl", FALSE)>>
    BY <2>2
  <2>. QED  BY <2>1, <2>2, <2>3, <2>4, Zenon DEF s, SyntheticInv, Synthetic!ProbesAreComplete
<1>3. CASE ~(~curl \/ Len(done) >= Len(Probes))
  <2>1. results' = done /\ index' = Len(done) /\ UNCHANGED shown
    BY <1>3 DEF Synthetic!RunNext
  <2>2. shown = {} \/ found' = found
    OBVIOUS
  <2>3. Synthetic!ProbesAreComplete'
    <3>1. shown' = shown
      BY <2>1
    <3>2. CASE shown = {}
      BY <3>1, <3>2 DEF Synthetic!ProbesAreComplete
    <3>3. CASE found' /\ found
      BY <3>1, <3>3, Zenon DEF Synthetic!ProbesAreComplete
    <3>4. CASE ~found' /\ ~found
      BY <3>1, <3>4, Zenon DEF Synthetic!ProbesAreComplete
    <3>5. found' = found => (found' /\ found) \/ (~found' /\ ~found)
      OBVIOUS
    <3>. QED  BY <2>2, <3>2, <3>3, <3>4, <3>5, Zenon
  <2>. QED  BY <1>1, <1>3, <2>1, <2>3, ProbesAreListed DEF SyntheticInv, Answered
<1>. QED  BY <1>2, <1>3

\* One more result.
LEMMA ProbeAnswers ==
    ASSUME NEW done, Answered(done), Len(done) < Len(Probes), NEW r \in ProbeResults,
           r.url = Probes[Len(done) + 1]
    PROVE  Answered(Append(done, r)) /\ Len(Append(done, r)) = Len(done) + 1
<1>1. done \in Seq(ProbeResults) /\ Len(done) \in Nat
  BY DEF Answered
<1>2. /\ Append(done, r) \in Seq(ProbeResults) /\ Len(Append(done, r)) = Len(done) + 1
      /\ \A i \in 1 .. Len(done) : Append(done, r)[i] = done[i]
      /\ Append(done, r)[Len(done) + 1] = r
  BY <1>1, AppendProperties
<1>. QED  BY <1>1, <1>2, ProbesAreListed DEF Answered

LEMMA SyntheticInvInit ==
    ASSUME Synthetic!Init  PROVE SyntheticInv
BY DEF Synthetic!Init, SyntheticInv, Synthetic!ProbesAreComplete

LEMMA NothingIsAnswered == Answered(<<>>) /\ Len(<<>>) = 0
BY ProbesAreListed DEF Answered

LEMMA SyntheticInvStep ==
    ASSUME SyntheticInv, [Synthetic!Next]_(Synthetic!vars)  PROVE SyntheticInv'
<1>1. CASE Synthetic!Start
  <2>1. PICK curl \in BOOLEAN : found' = curl /\ Synthetic!RunNext(<<>>, 0, curl)
    BY <1>1, Zenon DEF Synthetic!Start
  <2>2. shown = {}
    BY <1>1, Zenon DEF Synthetic!Start
  <2>. QED  BY <2>1, <2>2, NothingIsAnswered, ProbeRunNext DEF SyntheticInv
<1>2. CASE Synthetic!OnTimeout
  <2>1. Synthetic!RunNext(<<>>, 0, found) /\ UNCHANGED found
    BY <1>2, Zenon DEF Synthetic!OnTimeout
  <2>. QED  BY <2>1, NothingIsAnswered, ProbeRunNext DEF SyntheticInv
<1>3. CASE Synthetic!OnStarted \/ Synthetic!OnLateExit \/ UNCHANGED Synthetic!vars
  <2>1. UNCHANGED <<running, found, index, results, shown>>
    BY <1>3, Zenon DEF Synthetic!OnStarted, Synthetic!OnLateExit, Synthetic!vars
  <2>2. child' # "none" => child # "none"
    BY <1>3 DEF Synthetic!OnStarted, Synthetic!OnLateExit, Synthetic!vars
  <2>. QED  BY <2>1, <2>2, Zenon DEF SyntheticInv, Synthetic!ProbesAreComplete
<1>4. ASSUME running, child # "none"
      PROVE  /\ found /\ Answered(results) /\ index = Len(results) /\ Len(results) < Len(Probes)
             /\ Probes[index + 1] \in ToSet(Probes)
  <2>1. found /\ Answered(results) /\ index = Len(results) /\ Len(results) < Len(Probes)
    BY <1>4, Zenon DEF SyntheticInv
  <2>2. index + 1 \in 1 .. Len(Probes)
    BY <2>1, ProbesAreListed DEF Answered
  <2>. QED  BY <2>1, <2>2, ProbesAreListed
<1>5. CASE Synthetic!OnStartFailure
  <2> DEFINE r == Synthetic!Result(Probes[index + 1], FALSE)
  <2>1. /\ running /\ child # "none" /\ UNCHANGED found
        /\ Synthetic!RunNextSwept(Append(results, r), index + 1)
    BY <1>5 DEF Synthetic!OnStartFailure
  <2>2. r \in ProbeResults /\ r.url = Probes[index + 1]
    BY <1>4, <2>1, ResultIsTyped
  <2> HIDE DEF r
  <2>3. Answered(Append(results, r)) /\ Len(Append(results, r)) = index + 1
    BY <1>4, <2>1, <2>2, ProbeAnswers
  <2>4. found \in BOOLEAN /\ Synthetic!ProbesAreComplete
    BY DEF SyntheticInv
  <2>5. found
    BY <1>4, <2>1
  <2>6. CASE Synthetic!RunNext(Append(results, r), index + 1, found)
    BY <2>1, <2>3, <2>4, <2>5, <2>6, ProbeRunNext
  <2>7. CASE child' = "none" /\ UNCHANGED shown
    BY <2>1, <2>4, <2>7, Zenon DEF SyntheticInv, Synthetic!ProbesAreComplete
  <2>. QED  BY <2>1, <2>6, <2>7, Zenon DEF Synthetic!RunNextSwept
<1>6. CASE Synthetic!OnFinished
  <2>1. /\ running /\ child # "none" /\ UNCHANGED found
        /\ \E r \in Synthetic!Outcomes(Probes[index + 1]) :
               Synthetic!RunNext(Append(results, r), index + 1, found)
    BY <1>6 DEF Synthetic!OnFinished
  <2>2. PICK r \in Synthetic!Outcomes(Probes[index + 1]) :
            Synthetic!RunNext(Append(results, r), index + 1, found)
    BY <2>1, Zenon
  <2>3. \E ok \in BOOLEAN : r = Synthetic!Result(Probes[index + 1], ok)
    <3>1. \A status : (status \in 200 .. 399) \in BOOLEAN
      OBVIOUS
    <3>. QED  BY <2>2, <3>1, Zenon DEF Synthetic!Outcomes
  <2>4. r \in ProbeResults /\ r.url = Probes[index + 1]
    BY <1>4, <2>1, <2>3, ResultIsTyped
  <2>5. Answered(Append(results, r)) /\ Len(Append(results, r)) = index + 1
    BY <1>4, <2>1, <2>4, ProbeAnswers
  <2>6. found \in BOOLEAN /\ Synthetic!ProbesAreComplete
    BY DEF SyntheticInv
  <2>7. found
    BY <1>4, <2>1
  <2>. QED  BY <2>1, <2>2, <2>5, <2>6, <2>7, ProbeRunNext
<1>7. CASE Synthetic!Stop
  <2>1. running' = FALSE /\ UNCHANGED <<found, shown>>
    BY <1>7, Zenon DEF Synthetic!Stop
  <2>. QED  BY <2>1, Zenon DEF SyntheticInv, Synthetic!ProbesAreComplete
<1>. QED  BY <1>1, <1>2, <1>3, <1>5, <1>6, <1>7, Zenon DEF Synthetic!Next

-----------------------------------------------------------------------------
(* PathSource: the targets that got a child, by their places.               *)

\* What is known of a round with `rest` still pending: every place before it was
\* tried in order, or was lost to a crash.
Progress(rest, done, attempts, lost) ==
    LET gone == Len(Hops) - Len(rest)
    IN  /\ rest \in Seq(ToSet(Hops)) /\ Len(rest) <= Len(Hops)
        /\ attempts \in Seq(1 .. gone) /\ lost \in Nat /\ done \in Seq(Nat)
        /\ \A i, j \in 1 .. Len(attempts) : i < j => attempts[i] < attempts[j]
        /\ Len(attempts) + lost >= gone
        /\ lost = 0 => Len(attempts) = gone /\ \A i \in 1 .. gone : attempts[i] = i
        /\ lost = 0 => Path!Range(done) \subseteq Path!Range(attempts)
        /\ Path!Range(done) \ {0} \subseteq Path!Range(attempts)

\* While a child runs its place is the last one tried, or it is one of the round
\* before and a target was lost to it.
PathInv ==
    /\ child # "none" =>
           /\ Progress(pending, reports, tried, crashes)
           /\ tried # <<>> \/ crashes > 0
           /\ Hops # <<>>
    /\ Path!PathSkipsOnlyOnCrash

LEMMA HopsAreListed ==
    /\ Len(Hops) \in Nat /\ DOMAIN Hops = 1 .. Len(Hops) /\ Hops \in Seq(ToSet(Hops))
BY RoundsAssumption

\* A round with nothing pending is fit to be shown.
LEMMA RoundIsShown ==
    ASSUME NEW done, NEW attempts, NEW lost, Progress(<<>>, done, attempts, lost),
           shown' = {Path!Round(done, attempts, lost)}
    PROVE  Path!PathSkipsOnlyOnCrash'
<1> DEFINE n == Len(Hops)
<1>1. n \in Nat /\ DOMAIN Hops = 1 .. n
  BY HopsAreListed
<1>2. n - Len(<<>>) = n
  BY <1>1
<1>3. /\ attempts \in Seq(1 .. n) /\ lost \in Nat
      /\ \A i, j \in 1 .. Len(attempts) : i < j => attempts[i] < attempts[j]
      /\ Len(attempts) + lost >= n
      /\ lost = 0 => Len(attempts) = n /\ \A i \in 1 .. n : attempts[i] = i
      /\ lost = 0 => Path!Range(done) \subseteq Path!Range(attempts)
      /\ Path!Range(done) \ {0} \subseteq Path!Range(attempts)
  BY <1>2, Zenon DEF Progress
<1>4. DOMAIN attempts = 1 .. Len(attempts) /\ Len(attempts) \in Nat
  BY <1>3
<1> HIDE DEF n
<1>5. lost = 0 => attempts = [i \in DOMAIN Hops |-> i]
  <2>1. attempts = [i \in 1 .. Len(attempts) |-> attempts[i]]
    BY <1>3
  <2>. QED  BY <1>1, <1>3, <2>1
<1>6. \A i, j \in DOMAIN attempts : i # j => attempts[i] # attempts[j]
  <2>1. SUFFICES ASSUME NEW i \in DOMAIN attempts, NEW j \in DOMAIN attempts, i < j
                 PROVE  attempts[i] # attempts[j]
    BY <1>4
  <2>2. i \in 1 .. Len(attempts) /\ j \in 1 .. Len(attempts)
    BY <1>4, <2>1
  <2>3. attempts[i] < attempts[j]
    BY <1>3, <2>1, <2>2
  <2>4. attempts[i] \in 1 .. n
    BY <1>3, <2>2, ElementOfSeq
  <2>5. attempts[i] \in Int
    BY <1>1, <2>4
  <2>. QED  BY <2>3, <2>5
<1> DEFINE s == Path!Round(done, attempts, lost)
<1>7. s.reports = done /\ s.tried = attempts /\ s.crashes = lost
  BY DEF Path!Round
<1>8. \A t \in shown' : t = s
  OBVIOUS
<1> HIDE DEF s
<1>9. /\ Len(s.tried) + s.crashes >= Len(Hops)
      /\ s.crashes = 0 => /\ s.tried = [i \in DOMAIN Hops |-> i]
                          /\ Path!Range(s.reports) \subseteq Path!Range(s.tried)
      /\ \A i, j \in DOMAIN s.tried : i # j => s.tried[i] # s.tried[j]
      /\ Path!Range(s.reports) \ {0} \subseteq Path!Range(s.tried)
  BY <1>3, <1>5, <1>6, <1>7, Zenon DEF n
<1>. QED  BY <1>8, <1>9, Zenon DEF Path!PathSkipsOnlyOnCrash

\* One more target gets a child.
LEMMA NextIsTried ==
    ASSUME NEW rest, NEW done, NEW attempts, NEW lost, Progress(rest, done, attempts, lost),
           rest # <<>>
    PROVE  /\ Progress(Tail(rest), done, Append(attempts, Len(Hops) - Len(rest) + 1), lost)
           /\ Append(attempts, Len(Hops) - Len(rest) + 1) # <<>>
           /\ Hops # <<>>
<1> DEFINE gone == Len(Hops) - Len(rest)
           place == gone + 1
           nowTried == Append(attempts, Len(Hops) - Len(rest) + 1)
<1>0. /\ rest \in Seq(ToSet(Hops)) /\ Len(rest) <= Len(Hops)
      /\ attempts \in Seq(1 .. gone) /\ lost \in Nat /\ done \in Seq(Nat)
  BY Zenon DEF Progress
<1>1. /\ Len(Hops) \in Nat /\ Len(rest) \in Nat /\ Len(attempts) \in Nat /\ gone \in Nat
      /\ attempts \in Seq(1 .. gone) /\ lost \in Nat /\ done \in Seq(Nat)
  BY <1>0, HopsAreListed
<1>2. /\ \A i, j \in 1 .. Len(attempts) : i < j => attempts[i] < attempts[j]
      /\ Len(attempts) + lost >= gone
      /\ lost = 0 => Len(attempts) = gone /\ \A i \in 1 .. gone : attempts[i] = i
      /\ lost = 0 => Path!Range(done) \subseteq Path!Range(attempts)
      /\ Path!Range(done) \ {0} \subseteq Path!Range(attempts)
  BY DEF Progress
<1>3. /\ Tail(rest) \in Seq(ToSet(Hops)) /\ Len(Tail(rest)) = Len(rest) - 1 /\ Len(rest) > 0
      /\ Len(rest) <= Len(Hops)
  BY DEF Progress
<1>4. Len(Hops) - Len(Tail(rest)) = place /\ place \in Nat /\ Len(Tail(rest)) <= Len(Hops)
  BY <1>1, <1>3
<1>5. nowTried = Append(attempts, place) /\ place = gone + 1
  OBVIOUS
<1>6. Hops # <<>>
  BY <1>1, <1>3
<1> HIDE DEF place, gone
<1>7. attempts \in Seq(1 .. place) /\ place \in 1 .. place
  BY <1>1, <1>5
<1> HIDE DEF nowTried
<1>8. /\ nowTried \in Seq(1 .. place) /\ Len(nowTried) = Len(attempts) + 1
      /\ \A i \in 1 .. Len(attempts) : nowTried[i] = attempts[i]
      /\ nowTried[Len(attempts) + 1] = place
  BY <1>5, <1>7, AppendProperties
<1>9. ASSUME NEW i \in 1 .. Len(nowTried), NEW j \in 1 .. Len(nowTried), i < j
      PROVE  nowTried[i] < nowTried[j]
  <2>1. i \in 1 .. Len(attempts) /\ nowTried[i] = attempts[i] /\ attempts[i] \in 1 .. gone
    BY <1>1, <1>8, <1>9
  <2>2. CASE j = Len(attempts) + 1
    BY <1>1, <1>5, <1>8, <2>1, <2>2
  <2>3. CASE j # Len(attempts) + 1
    <3>1. j \in 1 .. Len(attempts) /\ nowTried[j] = attempts[j]
      BY <1>1, <1>8, <2>3
    <3>. QED  BY <1>2, <1>9, <2>1, <3>1
  <2>. QED  BY <2>2, <2>3
<1>10. Len(nowTried) + lost >= place
  BY <1>1, <1>2, <1>5, <1>8
<1>11. ASSUME lost = 0
       PROVE  Len(nowTried) = place /\ \A i \in 1 .. place : nowTried[i] = i
  <2>1. Len(attempts) = gone /\ \A i \in 1 .. gone : attempts[i] = i
    BY <1>2, <1>11
  <2>. QED  BY <1>1, <1>5, <1>8, <2>1
<1>12. Path!Range(attempts) \subseteq Path!Range(nowTried)
  <2>1. DOMAIN attempts = 1 .. Len(attempts) /\ DOMAIN nowTried = 1 .. Len(nowTried)
    BY <1>1, <1>8
  <2>. QED  BY <1>1, <1>8, <2>1 DEF Path!Range
<1>13. /\ lost = 0 => Path!Range(done) \subseteq Path!Range(nowTried)
       /\ Path!Range(done) \ {0} \subseteq Path!Range(nowTried)
  BY <1>2, <1>12, Zenon
<1>14. Progress(Tail(rest), done, nowTried, lost)
  BY <1>1, <1>3, <1>4, <1>8, <1>9, <1>10, <1>11, <1>13, Zenon DEF Progress
<1>15. nowTried # <<>>
  BY <1>1, <1>8
<1>. QED  BY <1>6, <1>14, <1>15 DEF nowTried

\* One more crash, and the target that may be lost to it.
LEMMA CrashIsMet ==
    ASSUME NEW rest, NEW done, NEW attempts, NEW lost, Progress(rest, done, attempts, lost),
           NEW left \in {rest, Tail(rest)}, left # rest => rest # <<>>
    PROVE  Progress(left, done, attempts, lost + 1)
<1> DEFINE gone == Len(Hops) - Len(rest)
           after == Len(Hops) - Len(left)
<1>0. /\ rest \in Seq(ToSet(Hops)) /\ Len(rest) <= Len(Hops)
      /\ attempts \in Seq(1 .. gone) /\ lost \in Nat /\ done \in Seq(Nat)
  BY Zenon DEF Progress
<1>1. /\ Len(Hops) \in Nat /\ Len(rest) \in Nat /\ Len(attempts) \in Nat /\ gone \in Nat
      /\ attempts \in Seq(1 .. gone) /\ lost \in Nat /\ done \in Seq(Nat)
      /\ rest \in Seq(ToSet(Hops)) /\ Len(rest) <= Len(Hops)
  BY <1>0, HopsAreListed
<1>2. /\ \A i, j \in 1 .. Len(attempts) : i < j => attempts[i] < attempts[j]
      /\ Len(attempts) + lost >= gone
      /\ Path!Range(done) \ {0} \subseteq Path!Range(attempts)
  BY DEF Progress
<1>3. /\ left \in Seq(ToSet(Hops)) /\ Len(left) \in Nat
      /\ Len(left) <= Len(rest) /\ Len(left) + 1 >= Len(rest)
  <2>1. CASE left = rest
    BY <1>1, <2>1
  <2>2. CASE left = Tail(rest) /\ rest # <<>>
    BY <1>1, <2>2
  <2>. QED  BY <2>1, <2>2
<1>4. after \in Nat /\ gone <= after /\ after <= gone + 1 /\ Len(left) <= Len(Hops)
  BY <1>1, <1>3
<1>5. after = Len(Hops) - Len(left)
  OBVIOUS
<1> HIDE DEF gone, after
<1>6. attempts \in Seq(1 .. after)
  BY <1>1, <1>4
<1>7. Len(attempts) + (lost + 1) >= after /\ lost + 1 \in Nat /\ lost + 1 # 0
  BY <1>1, <1>2, <1>4
<1>. QED  BY <1>1, <1>2, <1>3, <1>4, <1>5, <1>6, <1>7 DEF Progress

\* The child that has gone leaves a report or none.
LEMMA ReportIsRead ==
    ASSUME NEW rest, Progress(rest, reports, tried, crashes), tried # <<>> \/ crashes > 0,
           NEW done \in Path!Read
    PROVE  Progress(rest, done, tried, crashes)
<1> DEFINE gone == Len(Hops) - Len(rest)
           place == IF tried = <<>> THEN 0 ELSE tried[Len(tried)]
<1>0. /\ reports \in Seq(Nat) /\ crashes \in Nat /\ tried \in Seq(1 .. gone)
      /\ rest \in Seq(ToSet(Hops)) /\ Len(rest) <= Len(Hops)
  BY Zenon DEF Progress
<1>1. /\ reports \in Seq(Nat) /\ crashes \in Nat /\ tried \in Seq(1 .. gone)
      /\ Len(rest) <= Len(Hops) /\ Len(rest) \in Nat /\ Len(Hops) \in Nat
  BY <1>0, HopsAreListed
<1>2. Len(tried) \in Nat /\ DOMAIN tried = 1 .. Len(tried) /\ gone \in Nat
  BY <1>1
<1>3. done \in {reports, Append(reports, place)}
  BY Zenon DEF Path!Read
<1>4. /\ place \in Nat
      /\ place = 0 \/ place \in Path!Range(tried)
      /\ crashes = 0 => place \in Path!Range(tried)
  <2>1. CASE tried = <<>>
    BY <2>1
  <2>2. CASE tried # <<>>
    <3>0. Len(tried) # 0 /\ place = tried[Len(tried)]
      BY <1>1, <2>2
    <3>1. Len(tried) \in 1 .. Len(tried) /\ place = tried[Len(tried)]
      BY <1>2, <3>0
    <3> HIDE DEF place, gone
    <3>2. tried[Len(tried)] \in 1 .. gone
      BY <1>1, <3>1, ElementOfSeq
    <3>3. tried[Len(tried)] \in Path!Range(tried)
      BY <1>2, <3>1 DEF Path!Range
    <3>. QED  BY <1>2, <3>1, <3>2, <3>3
  <2>. QED  BY <2>1, <2>2
<1> HIDE DEF place
<1>5. done \in Seq(Nat) /\ \A x \in Path!Range(done) : x \in Path!Range(reports) \/ x = place
  <2>1. CASE done = reports
    BY <1>1, <2>1
  <2>2. CASE done = Append(reports, place)
    <3>1. /\ done \in Seq(Nat) /\ Len(done) = Len(reports) + 1
          /\ \A i \in 1 .. Len(reports) : done[i] = reports[i]
          /\ done[Len(reports) + 1] = place
      BY <1>1, <1>4, <2>2, AppendProperties
    <3>2. DOMAIN done = 1 .. Len(done) /\ DOMAIN reports = 1 .. Len(reports) /\ Len(reports) \in Nat
      BY <1>1, <3>1
    <3>3. ASSUME NEW i \in DOMAIN done
          PROVE  done[i] \in Path!Range(reports) \/ done[i] = place
      <4>1. CASE i \in 1 .. Len(reports)
        BY <3>1, <3>2, <4>1 DEF Path!Range
      <4>2. CASE i \notin 1 .. Len(reports)
        <5>1. i = Len(reports) + 1
          BY <3>1, <3>2, <3>3, <4>2
        <5>. QED  BY <3>1, <5>1
      <4>. QED  BY <4>1, <4>2
    <3>. QED  BY <3>1, <3>3 DEF Path!Range
  <2>. QED  BY <1>3, <2>1, <2>2
<1>6. /\ crashes = 0 => Path!Range(reports) \subseteq Path!Range(tried)
      /\ Path!Range(reports) \ {0} \subseteq Path!Range(tried)
  BY Zenon DEF Progress
<1>7. /\ crashes = 0 => Path!Range(done) \subseteq Path!Range(tried)
      /\ Path!Range(done) \ {0} \subseteq Path!Range(tried)
  BY <1>4, <1>5, <1>6
<1>. QED  BY <1>5, <1>7, Zenon DEF Progress

\* runNext, when the next start is accepted.
LEMMA PathRunNext ==
    ASSUME NEW rest, NEW done, NEW attempts, NEW lost,
           Progress(rest, done, attempts, lost), Path!RunNext(rest, done, attempts, lost),
           Path!PathSkipsOnlyOnCrash
    PROVE  PathInv'
<1>1. CASE rest = <<>>
  <2>1. child' = "none" /\ shown' = {Path!Round(done, attempts, lost)}
    BY <1>1 DEF Path!RunNext
  <2>2. Progress(<<>>, done, attempts, lost)
    BY <1>1, Zenon
  <2>3. Path!PathSkipsOnlyOnCrash'
    BY <2>1, <2>2, RoundIsShown
  <2>. QED  BY <2>1, <2>3 DEF PathInv
<1>2. CASE rest # <<>>
  <2>1. /\ reports' = done /\ crashes' = lost /\ pending' = Tail(rest) /\ UNCHANGED shown
        /\ tried' = Append(attempts, Len(Hops) - Len(rest) + 1)
    BY <1>2 DEF Path!RunNext
  <2>2. Progress(pending', reports', tried', crashes') /\ tried' # <<>> /\ Hops # <<>>
    BY <1>2, <2>1, NextIsTried
  <2>3. Path!PathSkipsOnlyOnCrash'
    BY <2>1 DEF Path!PathSkipsOnlyOnCrash
  <2>. QED  BY <2>2, <2>3, Zenon DEF PathInv
<1>. QED  BY <1>1, <1>2

LEMMA EmptyIsEmpty ==
    /\ \A e : e = <<>> => e \in Seq(Nat) /\ Len(e) = 0 /\ \A n \in Nat : e \in Seq(1 .. n)
    /\ Path!Range(<<>>) \subseteq Path!Range(<<>>)
    /\ Path!Range(<<>>) \ {0} \subseteq Path!Range(<<>>)
<1>1. ASSUME NEW e, e = <<>>, NEW n \in Nat
      PROVE  e \in Seq(Nat) /\ Len(e) = 0 /\ e \in Seq(1 .. n)
  BY <1>1
<1>2. \A R : R \subseteq R /\ R \ {0} \subseteq R
  OBVIOUS
<1>3. 0 \in Nat
  OBVIOUS
<1>. QED  BY <1>1, <1>2, <1>3, Zenon

\* A round begins, over the list of the configuration.
LEMMA RoundBegins ==
    ASSUME Path!OnTickIdle, Path!PathSkipsOnlyOnCrash  PROVE PathInv'
<1>1. Len(Hops) \in Nat /\ Hops \in Seq(ToSet(Hops))
  BY HopsAreListed
<1>2. Len(Hops) - Len(Hops) = 0
  BY <1>1
<1>3. Progress(Hops, <<>>, <<>>, 0)
  BY <1>1, <1>2, EmptyIsEmpty DEF Progress
<1>. QED  BY <1>3, PathRunNext DEF Path!OnTickIdle

\* It begins without its first target, under a child of the round before.
LEMMA RoundBeginsLate ==
    ASSUME PathInv, child # "none", UNCHANGED shown,
           pending' = Tail(Hops), reports' = <<>>, tried' = <<>>, crashes' = 1
    PROVE  PathInv'
<1>1. Len(Hops) \in Nat /\ Hops \in Seq(ToSet(Hops)) /\ Hops # <<>>
  BY HopsAreListed DEF PathInv
<1>2. /\ Tail(Hops) \in Seq(ToSet(Hops)) /\ Len(Tail(Hops)) <= Len(Hops)
      /\ Len(Hops) - Len(Tail(Hops)) = 1
  BY <1>1
<1>3. Progress(Tail(Hops), <<>>, <<>>, 1)
  BY <1>2, EmptyIsEmpty DEF Progress
<1>4. Path!PathSkipsOnlyOnCrash'
  BY Zenon DEF PathInv, Path!PathSkipsOnlyOnCrash
<1>5. Progress(pending', reports', tried', crashes') /\ crashes' > 0
  BY <1>3
<1>. QED  BY <1>1, <1>4, <1>5, Zenon DEF PathInv

LEMMA PathInvInit ==
    ASSUME Path!Init  PROVE PathInv
BY DEF Path!Init, PathInv, Path!PathSkipsOnlyOnCrash

LEMMA PathInvStep ==
    ASSUME PathInv, [Path!Next]_(Path!vars)  PROVE PathInv'
<1>1. CASE Path!Start
  <2>1. CASE Path!OnTickIdle
    BY <2>1, RoundBegins DEF PathInv
  <2>2. CASE /\ shown' = {[Path!Round(<<>>, <<>>, 0) EXCEPT !.available = FALSE]}
             /\ UNCHANGED <<running, child, timer, pending, reports, tried, crashes>>
    <3>1. \A s \in shown' : s.available = FALSE
      BY <2>2 DEF Path!Round
    <3>2. Path!PathSkipsOnlyOnCrash'
      BY <3>1 DEF Path!PathSkipsOnlyOnCrash
    <3>. QED  BY <2>2, <3>2 DEF PathInv
  <2>. QED  BY <1>1, <2>1, <2>2, Zenon DEF Path!Start
<1>2. CASE Path!OnTick
  <2>1. CASE Path!OnTickIdle
    BY <2>1, RoundBegins DEF PathInv
  <2>2. CASE ~Path!OnTickIdle
    <3>1. /\ child # "none" /\ UNCHANGED shown
          /\ pending' = Tail(Hops) /\ reports' = <<>> /\ tried' = <<>> /\ crashes' = 1
      BY <1>2, <2>2, Zenon DEF Path!OnTick
    <3>. QED  BY <3>1, RoundBeginsLate
  <2>. QED  BY <2>1, <2>2
<1>3. CASE Path!OnStarted \/ Path!Stop \/ UNCHANGED Path!vars
  <2>1. UNCHANGED <<pending, reports, tried, crashes, shown>>
    BY <1>3, Zenon DEF Path!OnStarted, Path!Stop, Path!vars
  <2>2. child' # "none" => child # "none"
    BY <1>3 DEF Path!OnStarted, Path!Stop, Path!vars
  <2>. QED  BY <2>1, <2>2, Zenon DEF PathInv, Path!PathSkipsOnlyOnCrash
<1>4. CASE Path!OnStartFailure
  <2>1. CASE pending = <<>> /\ Path!RunNext(<<>>, reports, tried, crashes)
    <3>1. child # "none"
      BY <1>4 DEF Path!OnStartFailure
    <3>2. Progress(<<>>, reports, tried, crashes)
      BY <2>1, <3>1, Zenon DEF PathInv
    <3>. QED  BY <2>1, <3>2, PathRunNext DEF PathInv
  <2>2. CASE child' = "none" /\ UNCHANGED shown
    BY <2>2, Zenon DEF PathInv, Path!PathSkipsOnlyOnCrash
  <2>. QED  BY <1>4, <2>1, <2>2, Zenon DEF Path!OnStartFailure
<1>5. CASE Path!OnExit
  <2>1. child # "none" /\ \E done \in Path!Read : Path!RunNext(pending, done, tried, crashes)
    BY <1>5 DEF Path!OnExit
  <2>2. PICK done \in Path!Read : Path!RunNext(pending, done, tried, crashes)
    BY <2>1, Zenon
  <2>3. Progress(pending, done, tried, crashes)
    BY <2>1, <2>2, ReportIsRead DEF PathInv
  <2>. QED  BY <2>2, <2>3, PathRunNext DEF PathInv
<1>6. CASE Path!OnLastCrash
  <2>1. child # "none" /\ \E done \in Path!Read : Path!RunNext(pending, done, tried, crashes + 1)
    BY <1>6 DEF Path!OnLastCrash
  <2>2. PICK done \in Path!Read : Path!RunNext(pending, done, tried, crashes + 1)
    BY <2>1, Zenon
  <2>3. Progress(pending, done, tried, crashes)
    BY <2>1, <2>2, ReportIsRead DEF PathInv
  <2>4. Progress(pending, done, tried, crashes + 1)
    BY <2>3, CrashIsMet
  <2>. QED  BY <2>2, <2>4, PathRunNext DEF PathInv
<1>7. CASE Path!OnCrash
  <2> DEFINE place == Len(Hops) - Len(pending) + 1
  <2>1. /\ child # "none" /\ pending # <<>> /\ UNCHANGED reports
        /\ crashes' = crashes + 1 /\ tried' = Append(tried, place)
    BY <1>7 DEF Path!OnCrash
  <2>2. /\ Progress(Tail(pending), reports, Append(tried, place), crashes)
        /\ Append(tried, place) # <<>> /\ Hops # <<>>
    BY <2>1, NextIsTried DEF PathInv
  <2> HIDE DEF place
  <2>3. CASE Tail(pending) = <<>>
    <3>1. Progress(Tail(pending), reports, Append(tried, place), crashes + 1)
      BY <2>2, CrashIsMet
    <3>2. pending' = <<>> /\ shown' = {Path!Round(reports, tried', crashes')}
      BY <1>7, <2>3, Zenon DEF Path!OnCrash
    <3>3. Progress(<<>>, reports, tried', crashes')
      BY <2>1, <2>3, <3>1, Zenon
    <3>4. Path!PathSkipsOnlyOnCrash'
      BY <3>2, <3>3, RoundIsShown
    <3>5. Progress(pending', reports', tried', crashes') /\ tried' # <<>>
      BY <2>1, <2>2, <3>2, <3>3, Zenon
    <3>. QED  BY <2>2, <3>4, <3>5, Zenon DEF PathInv
  <2>4. CASE Tail(pending) # <<>>
    <3>1. Progress(Tail(Tail(pending)), reports, Append(tried, place), crashes + 1)
      BY <2>2, <2>4, CrashIsMet
    <3>2. pending' = Tail(Tail(pending)) /\ UNCHANGED shown
      BY <1>7, <2>4, Zenon DEF Path!OnCrash
    <3>3. Path!PathSkipsOnlyOnCrash'
      BY <3>2, Zenon DEF PathInv, Path!PathSkipsOnlyOnCrash
    <3>4. Progress(pending', reports', tried', crashes') /\ tried' # <<>>
      BY <2>1, <2>2, <3>1, <3>2, Zenon
    <3>. QED  BY <2>2, <3>3, <3>4, Zenon DEF PathInv
  <2>. QED  BY <2>3, <2>4
<1>. QED  BY <1>1, <1>2, <1>3, <1>4, <1>5, <1>6, <1>7, Zenon DEF Path!Next

-----------------------------------------------------------------------------
(* TlsSource: the headline over the list.                                   *)

LEMMA LeastNumber ==
    ASSUME NEW T, T \subseteq Nat, T # {}
    PROVE  \E m \in T : \A n \in T : m <= n
<1>1. \E m \in T : \A n \in T : <<n, m>> \notin OpToRel(<, Nat)
  BY NatLessThanWellFounded, WFMin
<1>2. \A m, n \in Nat : <<n, m>> \notin OpToRel(<, Nat) => m <= n
  BY DEF OpToRel
<1>. QED  BY <1>1, <1>2

\* Min of a finite set is its least member: the one with the fewest below.
LEMMA MinIsLeast ==
    ASSUME NEW T, T \subseteq Int, T # {}, IsFiniteSet(T)
    PROVE  Tls!Min(T) \in T /\ \A y \in T : Tls!Min(T) <= y
<1> DEFINE Below(x) == {y \in T : y < x}
           sizes == {Cardinality(Below(x)) : x \in T}
<1>1. \A x \in T : IsFiniteSet(Below(x)) /\ Cardinality(Below(x)) \in Nat
  <2>1. \A x \in T : Below(x) \in SUBSET T
    OBVIOUS
  <2>. QED  BY <2>1, FS_Subset, FS_CardinalityType
<1>2. sizes \subseteq Nat /\ sizes # {}
  BY <1>1
<1>3. PICK x \in T : \A y \in T : Cardinality(Below(x)) <= Cardinality(Below(y))
  <2>1. PICK m \in sizes : \A n \in sizes : m <= n
    BY <1>2, LeastNumber
  <2>2. \E x \in T : m = Cardinality(Below(x))
    OBVIOUS
  <2>3. \A y \in T : Cardinality(Below(y)) \in sizes
    OBVIOUS
  <2> HIDE DEF sizes, Below
  <2>. QED  BY <2>1, <2>2, <2>3, Zenon
<1>4. \A y \in T : x <= y
  <2>1. SUFFICES ASSUME NEW y \in T, y < x  PROVE FALSE
    OBVIOUS
  <2>0. \A z \in T : z < y => z < x
    <3>1. x \in Int /\ y \in Int /\ \A z \in T : z \in Int
      OBVIOUS
    <3>. QED  BY <2>1, <3>1
  <2>2. Below(y) \subseteq Below(x) /\ y \in Below(x) /\ y \notin Below(y)
    <3>1. y \in Int /\ ~(y < y)
      OBVIOUS
    <3>. QED  BY <2>0, <2>1, <3>1, Zenon
  <2>3. Cardinality(Below(y)) <= Cardinality(Below(x)) /\ Below(y) # Below(x)
    BY <1>1, <2>2, FS_Subset
  <2>4. Cardinality(Below(x)) # Cardinality(Below(y))
    BY <1>1, <2>2, <2>3, FS_Subset
  <2>. QED  BY <1>1, <1>3, <2>1, <2>3, <2>4
<1>. QED  BY <1>3, <1>4, Zenon DEF Tls!Min

\* A snapshot of any answers agrees with itself.
LEMMA SummaryAgrees ==
    ASSUME NEW list, DOMAIN list = 1 .. Len(Endpoints),
           \A i \in DOMAIN list :
               list[i].host = Endpoints[i].host /\ list[i].daysLeft \in Int
    PROVE  LET s == Tls!Summary(list)
           IN  /\ [i \in DOMAIN s.results |-> s.results[i].host] =
                      [i \in DOMAIN Endpoints |-> Endpoints[i].host]
               /\ s.warnings = Tls!Cardinality({i \in DOMAIN s.results :
                      ~s.results[i].ok \/ Tls!Severity(s.results[i].daysLeft) # "ok"})
               /\ \A i \in DOMAIN s.results :
                      s.results[i].ok => s.nearest <= s.results[i].daysLeft
<1> DEFINE s == Tls!Summary(list)
           up == {i \in DOMAIN list : list[i].ok}
           left == {list[i].daysLeft : i \in up}
<1>1. /\ s.results = list /\ s.warnings = Tls!Warnings(list)
      /\ s.nearest = Tls!NearestExpiry(list)
  BY DEF Tls!Summary
<1>2. DOMAIN Endpoints = 1 .. Len(Endpoints) /\ Len(Endpoints) \in Nat
  BY RoundsAssumption
<1>3. \A d \in Int : d <= 30 <=> Tls!Severity(d) # "ok"
  BY DEF Tls!Severity
<1>4. {i \in DOMAIN list : ~list[i].ok \/ list[i].daysLeft <= 30}
        = {i \in DOMAIN list : ~list[i].ok \/ Tls!Severity(list[i].daysLeft) # "ok"}
  <2>1. \A i \in DOMAIN list :
            list[i].daysLeft <= 30 <=> Tls!Severity(list[i].daysLeft) # "ok"
    BY <1>3
  <2>. QED  BY <2>1, Zenon
<1>5. s.warnings = Tls!Cardinality({i \in DOMAIN s.results :
                      ~s.results[i].ok \/ Tls!Severity(s.results[i].daysLeft) # "ok"})
  BY <1>1, <1>4, Zenon DEF Tls!Warnings
<1>6. ASSUME NEW i \in DOMAIN list, list[i].ok
      PROVE  s.nearest <= list[i].daysLeft
  <2>1. list[i].daysLeft \in left /\ left \subseteq Int
    BY <1>6
  <2>2. IsFiniteSet(left)
    <3>1. IsFiniteSet(1 .. Len(Endpoints)) /\ up \in SUBSET (1 .. Len(Endpoints))
      BY <1>2, FS_Interval
    <3>2. IsFiniteSet(up)
      BY <3>1, FS_Subset
    <3>3. [j \in up |-> list[j].daysLeft] \in Surjection(up, left)
      BY DEF Surjection
    <3>. QED  BY <3>2, <3>3, FS_Surjection
  <2>3. s.nearest = Tls!Min(left)
    BY <1>1, <2>1, Zenon DEF Tls!NearestExpiry
  <2> HIDE DEF left, up
  <2>. QED  BY <2>1, <2>2, <2>3, MinIsLeast
<1>7. [i \in DOMAIN s.results |-> s.results[i].host] = [i \in DOMAIN Endpoints |-> Endpoints[i].host]
  BY <1>1, <1>2
<1>. QED  BY <1>1, <1>5, <1>6, <1>7, Zenon

\* One turn of the loop tells its endpoint.
LEMMA ResultTellsEndpoint ==
    ASSUME NEW e, NEW days \in {{}} \cup {{d} : d \in Lifetimes}
    PROVE  Tls!Result(e, days).host = e.host /\ Tls!Result(e, days).daysLeft \in Int
<1>1. CASE days = {}
  BY <1>1 DEF Tls!Result, Tls!Down
<1>2. CASE \E d \in Lifetimes : days = {d}
  <2>1. PICK d \in Lifetimes : days = {d}
    BY <1>2
  <2>2. d \in Int
    BY RoundsAssumption
  <2>3. Tls!Max(days) = d
    BY <2>1, <2>2 DEF Tls!Max
  <2>4. days # {}
    BY <2>1
  <2>5. Tls!Result(e, days) = [Tls!Down(e) EXCEPT !.ok = TRUE, !.daysLeft = Tls!Max(days)]
    BY <2>4, Zenon DEF Tls!Result
  <2>. QED  BY <2>2, <2>3, <2>5 DEF Tls!Down
<1>. QED  BY <1>1, <1>2

LEMMA SweepAgrees ==
    ASSUME Tls!Sweep  PROVE Tls!EndpointsAreComplete'
<1>1. PICK days \in [DOMAIN Endpoints -> {{}} \cup {{d} : d \in Lifetimes}] :
          shown' = {Tls!Summary([i \in DOMAIN Endpoints |-> Tls!Result(Endpoints[i], days[i])])}
  BY Zenon DEF Tls!Sweep
<1> DEFINE list == [i \in DOMAIN Endpoints |-> Tls!Result(Endpoints[i], days[i])]
<1>2. DOMAIN list = 1 .. Len(Endpoints)
  BY RoundsAssumption
<1>3. \A i \in DOMAIN list :
          list[i].host = Endpoints[i].host /\ list[i].daysLeft \in Int
  BY ResultTellsEndpoint
<1>4. shown' = {Tls!Summary(list)}
  BY <1>1
<1> HIDE DEF list
<1> DEFINE s == Tls!Summary(list)
<1>5. /\ [i \in DOMAIN s.results |-> s.results[i].host] =
             [i \in DOMAIN Endpoints |-> Endpoints[i].host]
      /\ s.warnings = Tls!Cardinality({i \in DOMAIN s.results :
             ~s.results[i].ok \/ Tls!Severity(s.results[i].daysLeft) # "ok"})
      /\ \A i \in DOMAIN s.results : s.results[i].ok => s.nearest <= s.results[i].daysLeft
  BY <1>2, <1>3, SummaryAgrees
<1> HIDE DEF s
<1>6. \A t \in shown' : t = s
  BY <1>4 DEF s
<1>. QED  BY <1>5, <1>6, Zenon DEF Tls!EndpointsAreComplete

LEMMA TlsInit ==
    ASSUME Tls!Init  PROVE Tls!EndpointsAreComplete
BY DEF Tls!Init, Tls!EndpointsAreComplete

LEMMA TlsStep ==
    ASSUME Tls!EndpointsAreComplete, [Tls!Next]_(Tls!vars)  PROVE Tls!EndpointsAreComplete'
<1>1. CASE UNCHANGED shown
  BY <1>1, Zenon DEF Tls!EndpointsAreComplete
<1>2. CASE shown' = {Tls!Empty}
  <2>1. \A s \in shown' : s.available = FALSE
    BY <1>2 DEF Tls!Empty
  <2>. QED  BY <2>1 DEF Tls!EndpointsAreComplete
<1>3. Tls!Sweep \/ UNCHANGED shown \/ shown' = {Tls!Empty}
  BY Zenon DEF Tls!Next, Tls!Start, Tls!OnTick, Tls!Stop, Tls!vars
<1>. QED  BY <1>1, <1>2, <1>3, SweepAgrees

-----------------------------------------------------------------------------
(* PgClient: the question onTick waits for is the only one on its way.      *)

Questions == {"stat", "states", "active"}
PgMessages == [kind : {"Z", "E", "R", "D"}, of : Questions \cup {"hello"}, commit : Commits \cup {0}]

PostgresTyped ==
    /\ step \in Questions \cup {"idle", "hello"}
    /\ wire \in Seq(PgMessages)
    /\ asked \in Seq(Questions \cup {"hello"})
    /\ rows \subseteq PgMessages
    /\ snap \in [Questions -> SUBSET PgMessages]
    /\ clean \in BOOLEAN

Own(data) == \A q \in Questions : \A r \in data[q] : r.of = q

\* The question onTick waits for is the only one on its way: it is not answered
\* yet, or what is in the socket is its answer and ends with ReadyForQuery.
InStep ==
    clean =>
        /\ step = "idle" /\ sock = "open" => wire = <<>> /\ asked = <<>>
        /\ step = "hello" => rows = {}
        /\ step # "idle" =>
               /\ Own(snap)
               /\ \A i \in 1 .. Len(wire) :
                      wire[i].of = step /\ (wire[i].kind = "Z" => i = Len(wire))
               /\ asked = <<>> \/ (asked = <<step>> /\ wire = <<>>)
               /\ \A r \in rows : r.of = step

PostgresInv ==
    /\ PostgresTyped /\ InStep
    /\ \A s \in shown : DOMAIN s.data = Questions /\ (s.clean => Own(s.data))

LEMMA EmptyIsOwn == Postgres!Empty \in [Questions -> SUBSET PgMessages] /\ Own(Postgres!Empty)
BY DEF Postgres!Empty, Questions, Own

LEMMA PostgresInvInit ==
    ASSUME Postgres!Init  PROVE PostgresInv
BY EmptyIsOwn DEF Postgres!Init, PostgresInv, PostgresTyped, InStep

\* What a message read leaves in the socket.
LEMMA ReadEffect ==
    ASSUME PostgresTyped, NEW kind \in {"Z", "E", "R", "D"}, Postgres!Read(kind)
    PROVE  /\ Head(wire) \in PgMessages /\ Head(wire) = wire[1] /\ wire[1].kind = kind
           /\ wire' \in Seq(PgMessages) /\ Len(wire) \in Nat \ {0}
           /\ Len(wire') = Len(wire) - 1
           /\ \A i \in 1 .. Len(wire') : wire'[i] = wire[i + 1]
           /\ Len(wire) = 1 => wire' = <<>>
BY DEF PostgresTyped, Postgres!Read

\* A tick begins, over a connection or with a new one.
LEMMA TickStep ==
    ASSUME PostgresInv, Postgres!OnTick  PROVE PostgresInv'
<1>1. /\ snap' = Postgres!Empty /\ rows' = {} /\ step = "idle"
  BY DEF Postgres!OnTick
<1>2. Own(Postgres!Empty) /\ Postgres!Empty \in [Questions -> SUBSET PgMessages]
  BY EmptyIsOwn
<1>3. CASE sock = "open"
  <2>1. step' = "stat" /\ asked' = Append(asked, "stat") /\ UNCHANGED <<sock, wire, clean, shown>>
    BY <1>3 DEF Postgres!OnTick, Postgres!Write
  <2>2. asked' \in Seq(Questions \cup {"hello"})
    BY <2>1 DEF PostgresInv, PostgresTyped, Questions
  <2>3. PostgresTyped'
    BY <1>1, <1>2, <2>1, <2>2 DEF PostgresInv, PostgresTyped, Questions
  <2>4. InStep'
    BY <1>1, <1>2, <1>3, <2>1 DEF PostgresInv, InStep
  <2>. QED  BY <2>1, <2>3, <2>4 DEF PostgresInv
<1>4. CASE sock # "open"
  <2>1. Postgres!Connect
    BY <1>4 DEF Postgres!OnTick
  <2>2. /\ wire' = <<>> /\ clean' \in BOOLEAN
        /\ \/ asked' = <<"hello">> /\ step' = "hello"
           \/ asked' = <<>> /\ step' = "idle"
    BY <2>1 DEF Postgres!Connect
  <2>3. PostgresTyped'
    <3>0. /\ <<"hello">> \in Seq(Questions \cup {"hello"})
          /\ <<>> \in Seq(Questions \cup {"hello"}) /\ <<>> \in Seq(PgMessages)
      OBVIOUS
    <3>1. asked' \in Seq(Questions \cup {"hello"}) /\ wire' \in Seq(PgMessages)
      BY <2>2, <3>0, Zenon
    <3>. QED  BY <1>1, <1>2, <2>2, <3>1 DEF PostgresTyped
  <2>4. InStep'
    BY <1>1, <1>2, <2>2 DEF InStep
  <2>5. \A s \in shown' : s \in shown \/ s.data = Postgres!Empty
    BY <2>1 DEF Postgres!Connect
  <2>. QED  BY <1>2, <2>3, <2>4, <2>5 DEF PostgresInv
<1>. QED  BY <1>3, <1>4

\* The end of a handshake.
LEMMA HelloStep ==
    ASSUME PostgresInv, Postgres!OnHelloReady \/ Postgres!OnHelloRefused \/ (Postgres!OnTimeout /\ step = "hello")  PROVE PostgresInv'
<1>1. Own(Postgres!Empty) /\ Postgres!Empty \in [Questions -> SUBSET PgMessages]
  BY EmptyIsOwn
<1>2. CASE Postgres!OnHelloReady
  <2>1. /\ step = "hello" /\ step' = "stat" /\ asked' = Append(asked, "stat") /\ clean' = clean
        /\ UNCHANGED <<sock, rows, snap, shown>>
    BY <1>2 DEF Postgres!OnHelloReady, Postgres!EndHello, PostgresInv, PostgresTyped
  <2>2. Postgres!Read("Z")
    BY <1>2 DEF Postgres!OnHelloReady
  <2>3. PostgresTyped'
    BY <2>1, <2>2, ReadEffect DEF PostgresInv, PostgresTyped, Questions
  <2>4. ASSUME clean  PROVE wire' = <<>> /\ asked = <<>> /\ rows = {}
    <3>1. /\ Len(wire) \in Nat \ {0} /\ wire[1].kind = "Z" /\ (Len(wire) = 1 => wire' = <<>>)
      BY <2>2, ReadEffect DEF PostgresInv
    <3>2. /\ \A i \in 1 .. Len(wire) : wire[i].kind = "Z" => i = Len(wire)
          /\ asked = <<>> \/ (asked = <<step>> /\ wire = <<>>)
          /\ rows = {}
      BY <2>1, <2>4 DEF PostgresInv, InStep
    <3>3. wire # <<>>
      BY <2>2 DEF Postgres!Read
    <3>4. 1 \in 1 .. Len(wire)
      BY <3>1
    <3>. QED  BY <3>1, <3>2, <3>3, <3>4
  <2>5. clean => asked' = <<"stat">>
    BY <2>1, <2>4
  <2>6. InStep'
    BY <2>1, <2>4, <2>5 DEF PostgresInv, InStep
  <2>. QED  BY <2>1, <2>3, <2>6 DEF PostgresInv
<1>3. CASE Postgres!OnHelloRefused \/ (Postgres!OnTimeout /\ step = "hello")
  <2>1. Postgres!EndHello(FALSE)
    BY <1>3 DEF Postgres!OnHelloRefused, Postgres!OnTimeout
  <2>2. step' = "idle" /\ clean' = FALSE /\ UNCHANGED <<asked, rows, snap>>
    BY <2>1 DEF Postgres!EndHello
  <2>3. wire' \in Seq(PgMessages)
    <3>1. CASE wire' = wire
      BY <3>1 DEF PostgresInv, PostgresTyped
    <3>2. CASE Postgres!Read("E") \/ Postgres!Read("R")
      BY <3>2, ReadEffect DEF PostgresInv
    <3>. QED  BY <1>3, <3>1, <3>2 DEF Postgres!OnHelloRefused, Postgres!OnTimeout
  <2>4. \A s \in shown' : s.data = Postgres!Empty
    BY <2>1 DEF Postgres!EndHello
  <2>. QED  BY <1>1, <2>2, <2>3, <2>4 DEF PostgresInv, PostgresTyped, InStep
<1>. QED  BY <1>2, <1>3

\* The end of a question, whatever became of it.
LEMMA QuestionEnds ==
    ASSUME PostgresInv, step \in Questions, NEW ok \in BOOLEAN, NEW read, Postgres!EndQuery(ok, read),
           read \subseteq PgMessages, wire' \in Seq(PgMessages),
           clean /\ ok => wire' = <<>> /\ asked = <<>> /\ \A r \in read : r.of = step
    PROVE  PostgresInv'
<1> DEFINE data == [snap EXCEPT ![step] = Postgres!Usable(step, read)]
<1>1. /\ clean' = (clean /\ ok) /\ snap' = data /\ rows' = {} /\ UNCHANGED sock
  BY DEF Postgres!EndQuery
<1>2. Postgres!Usable(step, read) \subseteq read
  BY DEF Postgres!Usable
<1>3. data \in [Questions -> SUBSET PgMessages]
  BY <1>2 DEF PostgresInv, PostgresTyped
<1>4. clean /\ ok => Own(data)
  BY <1>2 DEF PostgresInv, PostgresTyped, InStep, Own, Questions
<1>5. CASE step = "active"
  <2>1. step' = "idle" /\ Postgres!Emit(data, clean /\ ok) /\ asked' = asked
    BY <1>5 DEF Postgres!EndQuery
  <2>2. ASSUME NEW s \in shown'  PROVE s.data = data /\ (s.clean => clean /\ ok)
    <3>1. s.data = data
      BY <2>1 DEF Postgres!Emit
    <3>2. s.clean = (clean /\ ok)
      BY <2>1 DEF Postgres!Emit
    <3>. QED  BY <3>1, <3>2, Zenon
  <2>3. PostgresTyped'
    BY <1>1, <1>3, <2>1 DEF PostgresInv, PostgresTyped
  <2>4. InStep'
    BY <1>1, <1>4, <2>1 DEF InStep
  <2>. QED  BY <1>3, <1>4, <2>2, <2>3, <2>4 DEF PostgresInv
<1>6. CASE step # "active"
  <2>1. step' = Postgres!After[step] /\ Postgres!Write(Postgres!After[step]) /\ shown' = shown
    BY <1>6 DEF Postgres!EndQuery
  <2>2. Postgres!After[step] \in Questions
    BY <1>6 DEF Postgres!After, Questions
  <2>3. asked' = asked \/ asked' = Append(asked, Postgres!After[step])
    BY <2>1 DEF Postgres!Write
  <2>4. PostgresTyped'
    <3>1. asked' \in Seq(Questions \cup {"hello"})
      <4>1. asked \in Seq(Questions \cup {"hello"})
        BY DEF PostgresInv, PostgresTyped
      <4>. QED  BY <2>2, <2>3, <4>1
    <3>. QED  BY <1>1, <1>3, <2>1, <2>2, <3>1 DEF PostgresInv, PostgresTyped
  <2>5. step' # "hello" /\ step' # "idle"
    BY <2>1, <2>2 DEF Questions
  <2>6. InStep'
    <3>1. clean' => wire' = <<>> /\ (asked' = <<>> \/ asked' = <<step'>>)
      <4>1. ASSUME clean'  PROVE wire' = <<>> /\ asked = <<>>
        <5>1. clean /\ ok
          BY <1>1, <4>1, Zenon
        <5>. QED  BY <5>1
      <4>2. Append(<<>>, Postgres!After[step]) = <<Postgres!After[step]>>
        OBVIOUS
      <4>. QED  BY <2>1, <2>3, <4>1, <4>2, Zenon
    <3>2. clean' => Own(data)
      BY <1>1, <1>4, Zenon
    <3> HIDE DEF data
    <3>. QED  BY <1>1, <2>5, <3>1, <3>2 DEF InStep, Own
  <2>. QED  BY <2>1, <2>4, <2>6 DEF PostgresInv
<1>. QED  BY <1>5, <1>6

\* A message of an answer, or the end of the wait for one.
LEMMA AnswerStep ==
    ASSUME PostgresInv,
           \/ Postgres!OnRow \/ Postgres!OnReady \/ Postgres!OnError \/ Postgres!OnOther
           \/ (Postgres!OnTimeout /\ step # "hello")
    PROVE  PostgresInv'
<1>1. DOMAIN Postgres!Columns = Questions
  BY DEF Postgres!Columns, Questions
<1>2. CASE Postgres!OnRow
  <2>1. /\ step \in Questions /\ rows' = rows \cup {Head(wire)}
        /\ UNCHANGED <<sock, asked, step, snap, clean, shown>>
    BY <1>1, <1>2 DEF Postgres!OnRow
  <2>2. Postgres!Read("D")
    BY <1>2 DEF Postgres!OnRow
  <2>3. /\ Head(wire) \in PgMessages /\ Head(wire) = wire[1]
        /\ wire' \in Seq(PgMessages) /\ Len(wire) \in Nat \ {0} /\ Len(wire') = Len(wire) - 1
        /\ \A i \in 1 .. Len(wire') : wire'[i] = wire[i + 1]
    BY <2>2, ReadEffect DEF PostgresInv
  <2>4. PostgresTyped'
    BY <2>1, <2>3 DEF PostgresInv, PostgresTyped
  <2>5. ASSUME clean  PROVE InStep'
    <3>1. /\ \A i \in 1 .. Len(wire) :
                wire[i].of = step /\ (wire[i].kind = "Z" => i = Len(wire))
          /\ asked = <<>> \/ (asked = <<step>> /\ wire = <<>>)
          /\ \A r \in rows : r.of = step
      BY <2>1, <2>5 DEF PostgresInv, InStep, Questions
    <3>2. \A i \in 1 .. Len(wire') :
             wire'[i].of = step /\ (wire'[i].kind = "Z" => i = Len(wire'))
      BY <2>3, <3>1
    <3>3. \A r \in rows' : r.of = step
      BY <2>1, <2>3, <3>1
    <3>4. wire # <<>>
      BY <2>2 DEF Postgres!Read
    <3>. QED  BY <2>1, <2>5, <3>1, <3>2, <3>3, <3>4 DEF PostgresInv, InStep, Questions
  <2>6. InStep'
    BY <2>1, <2>5 DEF InStep
  <2>. QED  BY <2>1, <2>4, <2>6 DEF PostgresInv
<1>3. CASE Postgres!OnReady
  <2>1. step \in Questions /\ Postgres!Read("Z") /\ Postgres!EndQuery(TRUE, rows)
    BY <1>1, <1>3 DEF Postgres!OnReady
  <2>2. /\ Len(wire) \in Nat \ {0} /\ wire[1].kind = "Z" /\ (Len(wire) = 1 => wire' = <<>>)
        /\ wire' \in Seq(PgMessages)
    BY <2>1, ReadEffect DEF PostgresInv
  <2>3. ASSUME clean  PROVE wire' = <<>> /\ asked = <<>> /\ \A r \in rows : r.of = step
    <3>1. /\ \A i \in 1 .. Len(wire) : wire[i].kind = "Z" => i = Len(wire)
          /\ asked = <<>> \/ (asked = <<step>> /\ wire = <<>>)
          /\ \A r \in rows : r.of = step
      BY <2>1, <2>2, <2>3 DEF PostgresInv, InStep, Questions
    <3>2. wire # <<>>
      BY <2>1 DEF Postgres!Read
    <3>3. 1 \in 1 .. Len(wire)
      BY <2>2
    <3>. QED  BY <2>2, <3>1, <3>2, <3>3
  <2>4. rows \subseteq PgMessages
    BY DEF PostgresInv, PostgresTyped
  <2>. QED  BY <2>1, <2>2, <2>3, <2>4, QuestionEnds
<1>4. CASE Postgres!OnError
  <2>1. step \in Questions /\ Postgres!Read("E") /\ Postgres!EndQuery(FALSE, {})
    BY <1>1, <1>4 DEF Postgres!OnError
  <2>2. wire' \in Seq(PgMessages)
    BY <2>1, ReadEffect DEF PostgresInv
  <2> DEFINE ok == FALSE
             read == {}
  <2>3. /\ ok \in BOOLEAN /\ read \subseteq PgMessages /\ Postgres!EndQuery(ok, read)
        /\ (clean /\ ok => wire' = <<>> /\ asked = <<>> /\ \A r \in read : r.of = step)
    BY <2>1
  <2> HIDE DEF ok, read
  <2>. QED  BY <2>1, <2>2, <2>3, QuestionEnds
<1>5. CASE Postgres!OnTimeout /\ step # "hello"
  <2>1. step \in Questions /\ Postgres!EndQuery(FALSE, {}) /\ wire' = wire
    BY <1>5 DEF Postgres!OnTimeout, PostgresInv, PostgresTyped
  <2>2. wire' \in Seq(PgMessages)
    BY <2>1 DEF PostgresInv, PostgresTyped
  <2> DEFINE ok == FALSE
             read == {}
  <2>3. /\ ok \in BOOLEAN /\ read \subseteq PgMessages /\ Postgres!EndQuery(ok, read)
        /\ (clean /\ ok => wire' = <<>> /\ asked = <<>> /\ \A r \in read : r.of = step)
    BY <2>1
  <2> HIDE DEF ok, read
  <2>. QED  BY <2>1, <2>2, <2>3, QuestionEnds
<1>6. CASE Postgres!OnOther
  <2>1. step \in Questions /\ UNCHANGED <<sock, asked, step, rows, snap, clean, shown>>
    BY <1>1, <1>6 DEF Postgres!OnOther
  <2>2. Postgres!Read("R")
    BY <1>6 DEF Postgres!OnOther
  <2>3. /\ wire' \in Seq(PgMessages) /\ Len(wire) \in Nat \ {0} /\ Len(wire') = Len(wire) - 1
        /\ \A i \in 1 .. Len(wire') : wire'[i] = wire[i + 1]
    BY <2>2, ReadEffect DEF PostgresInv
  <2>4. PostgresTyped'
    BY <2>1, <2>3 DEF PostgresInv, PostgresTyped
  <2>5. ASSUME clean  PROVE InStep'
    <3>1. /\ \A i \in 1 .. Len(wire) :
                wire[i].of = step /\ (wire[i].kind = "Z" => i = Len(wire))
          /\ asked = <<>> \/ (asked = <<step>> /\ wire = <<>>)
      BY <2>1, <2>5 DEF PostgresInv, InStep, Questions
    <3>2. \A i \in 1 .. Len(wire') :
             wire'[i].of = step /\ (wire'[i].kind = "Z" => i = Len(wire'))
      BY <2>3, <3>1
    <3>3. wire # <<>>
      BY <2>2 DEF Postgres!Read
    <3>. QED  BY <2>1, <2>5, <3>1, <3>2, <3>3 DEF PostgresInv, InStep, Questions
  <2>6. InStep'
    BY <2>1, <2>5 DEF InStep
  <2>. QED  BY <2>1, <2>4, <2>6 DEF PostgresInv
<1>. QED  BY <1>2, <1>3, <1>4, <1>5, <1>6

\* The server answers the oldest question.
LEMMA ServerStep ==
    ASSUME PostgresInv, Postgres!ServerReplies  PROVE PostgresInv'
<1> DEFINE q == Head(asked)
           Z == Postgres!Message("Z", q, 0)
           E == Postgres!Message("E", q, 0)
<1>1. /\ asked # <<>> /\ asked' = Tail(asked)
      /\ UNCHANGED <<step, rows, snap, clean, shown>>
  BY DEF Postgres!ServerReplies
<1>2. q \in Questions \cup {"hello"} /\ asked' \in Seq(Questions \cup {"hello"})
  BY <1>1 DEF PostgresInv, PostgresTyped
<1>3. PICK more \in Seq(PgMessages) :
        /\ wire' = wire \o more
        /\ \A i \in 1 .. Len(more) : more[i].of = q /\ (more[i].kind = "Z" => i = Len(more))
  <2>1. \A kind \in {"Z", "E", "R", "D"}, c \in Commits \cup {0} :
           /\ Postgres!Message(kind, q, c) \in PgMessages
           /\ Postgres!Message(kind, q, c).of = q /\ Postgres!Message(kind, q, c).kind = kind
    BY <1>2 DEF Postgres!Message, PgMessages
  <2> DEFINE R == Postgres!Message("R", q, 0)
             Good(more) ==
                 \A i \in 1 .. Len(more) :
                     more[i].of = q /\ (more[i].kind = "Z" => i = Len(more))
  <2>2. /\ <<Z>> \in Seq(PgMessages) /\ <<R>> \in Seq(PgMessages) /\ <<E>> \in Seq(PgMessages)
        /\ <<E, Z>> \in Seq(PgMessages)
        /\ Good(<<Z>>) /\ Good(<<R>>) /\ Good(<<E>>) /\ Good(<<E, Z>>)
    BY <2>1
  <2>3. CASE wire' = wire \o <<Z>>
    BY <2>2, <2>3
  <2>4. CASE wire' = wire \o <<R>>
    BY <2>2, <2>4
  <2>5. CASE wire' = wire \o <<E>>
    BY <2>2, <2>5
  <2>6. CASE wire' = wire \o <<E, Z>>
    BY <2>2, <2>6
  <2>7. ASSUME NEW n \in Nat, NEW c \in Commits \cup {0},
               wire' = wire \o [i \in 1 .. n |-> Postgres!Message("D", q, c)] \o <<Z>>
        PROVE  \E more \in Seq(PgMessages) :
                  /\ wire' = wire \o more
                  /\ \A i \in 1 .. Len(more) :
                        more[i].of = q /\ (more[i].kind = "Z" => i = Len(more))
    <3> DEFINE D == [i \in 1 .. n |-> Postgres!Message("D", q, c)]
    <3>1. D \in Seq(PgMessages) /\ Len(D) = n /\ \A i \in 1 .. n : D[i] = Postgres!Message("D", q, c)
      BY <2>1
    <3>2. wire \in Seq(PgMessages)
      BY DEF PostgresInv, PostgresTyped
    <3> HIDE DEF D
    <3>3. wire' = wire \o (D \o <<Z>>) /\ D \o <<Z>> \in Seq(PgMessages)
      BY <2>2, <2>7, <3>1, <3>2 DEF D
    <3>4. \A i \in 1 .. Len(D \o <<Z>>) :
             /\ (D \o <<Z>>)[i].of = q
             /\ (D \o <<Z>>)[i].kind = "Z" => i = Len(D \o <<Z>>)
      BY <2>1, <2>2, <3>1
    <3>. QED  BY <3>3, <3>4
  <2>8. \/ wire' = wire \o <<Z>> \/ wire' = wire \o <<R>>
        \/ wire' = wire \o <<E>> \/ wire' = wire \o <<E, Z>>
        \/ \E n \in 0 .. Postgres!MostRows[q], c \in Postgres!CommitOf(q) :
              q # "hello" /\ wire' = wire \o [i \in 1 .. n |-> Postgres!Message("D", q, c)] \o <<Z>>
    BY Zenon DEF Postgres!ServerReplies
  <2>9. \A c \in Postgres!CommitOf(q) : c \in Commits \cup {0}
    BY DEF Postgres!CommitOf
  <2>10. ASSUME q # "hello"  PROVE \A n \in 0 .. Postgres!MostRows[q] : n \in Nat
    OBVIOUS
  <2>. QED  BY <2>3, <2>4, <2>5, <2>6, <2>7, <2>8, <2>9, <2>10
<1>4. PostgresTyped'
  BY <1>1, <1>2, <1>3 DEF PostgresInv, PostgresTyped
<1>5. ASSUME clean  PROVE InStep'
  <2>1. CASE step = "idle"
    BY <1>1, <1>5, <2>1 DEF PostgresInv, InStep, Postgres!ServerReplies
  <2>2. CASE step # "idle"
    <3>1. asked = <<step>> /\ wire = <<>>
      BY <1>1, <1>5, <2>2 DEF PostgresInv, InStep
    <3>2. asked' = <<>> /\ wire' = more /\ q = step
      BY <1>1, <1>3, <3>1
    <3>. QED  BY <1>1, <1>3, <1>5, <2>2, <3>2 DEF PostgresInv, InStep
  <2>. QED  BY <2>1, <2>2
<1>6. InStep'
  BY <1>1, <1>5 DEF InStep
<1>. QED  BY <1>1, <1>4, <1>6 DEF PostgresInv

LEMMA PostgresInvStep ==
    ASSUME PostgresInv, [Postgres!Next]_(Postgres!vars)  PROVE PostgresInv'
<1>1. CASE Postgres!Stop
  <2>1. /\ wire' = <<>> /\ asked' = <<>> /\ clean' = TRUE /\ step' = "idle"
        /\ UNCHANGED <<rows, snap, shown>>
    BY <1>1 DEF Postgres!Stop
  <2>. QED  BY <2>1 DEF PostgresInv, PostgresTyped, InStep
<1>2. CASE UNCHANGED Postgres!vars
  BY <1>2 DEF Postgres!vars, PostgresInv, PostgresTyped, InStep
<1>. QED  BY <1>1, <1>2, TickStep, HelloStep, AnswerStep, ServerStep DEF Postgres!Next

-----------------------------------------------------------------------------
(* PgClient, on a connection that is out of step too: a reply is one piece. *)

\* A row is followed by more of its reply, and what was read of a reply by the
\* rest of it.
Whole ==
    /\ \A i \in 1 .. Len(wire) :
           /\ wire[i].kind = "D" => /\ i + 1 \in 1 .. Len(wire) /\ wire[i + 1].of = wire[i].of
                                   /\ wire[i].of # "hello"
           /\ wire[i].kind = "R" => wire[i].of = "hello"
    /\ \A r, t \in rows : r.of = t.of
    /\ \A r \in rows : wire # <<>> /\ wire[1].of = r.of /\ r.of # "hello"

\* The rows under a question are of one, and those of "stat" of that one.
OfOne(data) ==
    /\ \A q \in Questions : \A r, t \in data[q] : r.of = t.of
    /\ \A r \in data["stat"] : r.of = "stat"

WholeInv ==
    /\ Whole /\ OfOne(snap) /\ \A s \in shown : OfOne(s.data)
    /\ step \notin Questions => rows = {}

LEMMA EmptyIsOfOne == OfOne(Postgres!Empty)
BY DEF Postgres!Empty, Questions, OfOne

LEMMA WholeInvInit ==
    ASSUME Postgres!Init  PROVE WholeInv
BY EmptyIsOfOne DEF Postgres!Init, WholeInv, Whole

\* Reading a message leaves the rest of its reply in front.
LEMMA WholeReads ==
    ASSUME PostgresInv, WholeInv, NEW kind \in {"Z", "E", "R", "D"}, Postgres!Read(kind),
           rows' = {} \/ (rows' = rows /\ kind = "R")
                     \/ (rows' = rows \cup {Head(wire)} /\ kind = "D")
    PROVE  Whole'
<1>1. /\ Head(wire) = wire[1] /\ wire[1].kind = kind
      /\ wire' \in Seq(PgMessages) /\ Len(wire) \in Nat \ {0} /\ Len(wire') = Len(wire) - 1
      /\ \A i \in 1 .. Len(wire') : wire'[i] = wire[i + 1]
  BY ReadEffect DEF PostgresInv
<1>2. ASSUME NEW i \in 1 .. Len(wire')
      PROVE  /\ wire'[i].kind = "D" => /\ i + 1 \in 1 .. Len(wire') /\ wire'[i + 1].of = wire'[i].of
                                      /\ wire'[i].of # "hello"
             /\ wire'[i].kind = "R" => wire'[i].of = "hello"
  <2>1. i + 1 \in 1 .. Len(wire) /\ wire'[i] = wire[i + 1]
    BY <1>1
  <2>2. ASSUME wire'[i].kind = "D"
        PROVE  /\ i + 1 \in 1 .. Len(wire') /\ wire'[i + 1].of = wire'[i].of
               /\ wire'[i].of # "hello"
    <3>1. (i + 1) + 1 \in 1 .. Len(wire) /\ wire[(i + 1) + 1].of = wire[i + 1].of
          /\ wire[i + 1].of # "hello"
      BY <2>1, <2>2 DEF WholeInv, Whole
    <3>2. i + 1 \in 1 .. Len(wire')
      BY <1>1, <3>1
    <3>. QED  BY <1>1, <2>1, <3>1, <3>2
  <2>3. wire'[i].kind = "R" => wire'[i].of = "hello"
    BY <2>1 DEF WholeInv, Whole
  <2>. QED  BY <2>2, <2>3
<1>3. 1 \in 1 .. Len(wire)
  BY <1>1
<1>4. CASE rows' = {}
  BY <1>2, <1>4 DEF Whole
<1>5. CASE rows' = rows /\ kind = "R"
  <2>1. wire[1].of = "hello"
    BY <1>1, <1>3, <1>5 DEF WholeInv, Whole
  <2>2. rows = {}
    BY <2>1 DEF WholeInv, Whole
  <2>. QED  BY <1>2, <1>5, <2>2 DEF Whole
<1>6. CASE rows' = rows \cup {Head(wire)} /\ kind = "D"
  <2>1. 1 + 1 \in 1 .. Len(wire) /\ wire[1 + 1].of = wire[1].of /\ wire[1].of # "hello"
    BY <1>1, <1>3, <1>6 DEF WholeInv, Whole
  <2>2. wire' # <<>> /\ wire'[1].of = wire[1].of
    BY <1>1, <2>1
  <2>3. \A r \in rows' : r.of = wire[1].of
    BY <1>1, <1>6 DEF WholeInv, Whole
  <2>. QED  BY <1>2, <2>1, <2>2, <2>3 DEF Whole
<1>. QED  BY <1>4, <1>5, <1>6

\* The rows a question ends with are of one, those of "stat" have its columns.
LEMMA QuestionEndsOfOne ==
    ASSUME PostgresInv, WholeInv, step \in Questions, NEW ok \in BOOLEAN, NEW read,
           Postgres!EndQuery(ok, read),
           \A r, t \in read : r.of = t.of, \A r \in read : r.of \in Questions
    PROVE  rows' = {} /\ OfOne(snap') /\ \A s \in shown' : OfOne(s.data)
<1> DEFINE data == [snap EXCEPT ![step] = Postgres!Usable(step, read)]
<1>1. /\ snap' = data /\ rows' = {}
      /\ shown' = shown \/ Postgres!Emit(data, clean /\ ok)
  BY DEF Postgres!EndQuery
<1>2. Postgres!Usable(step, read) \subseteq read
  BY DEF Postgres!Usable
<1>3. \A r \in Postgres!Usable("stat", read) : r.of = "stat"
  BY DEF Postgres!Usable, Postgres!Columns, Questions
<1>4. /\ \A q \in Questions : data[q] = IF q = step THEN Postgres!Usable(step, read) ELSE snap[q]
      /\ "stat" \in Questions
  BY DEF PostgresInv, PostgresTyped, Questions
<1> HIDE DEF data
<1>5. OfOne(data)
  BY <1>2, <1>3, <1>4 DEF WholeInv, OfOne
<1>6. ASSUME NEW s \in shown'  PROVE OfOne(s.data)
  <2>1. CASE shown' = shown
    BY <2>1 DEF WholeInv
  <2>2. CASE Postgres!Emit(data, clean /\ ok)
    <3>1. s.data = data
      BY <2>2 DEF Postgres!Emit
    <3>. QED  BY <1>5, <3>1
  <2>. QED  BY <1>1, <2>1, <2>2
<1>. QED  BY <1>1, <1>5, <1>6

\* A reply of the server is one piece.
LEMMA ReplyIsWhole ==
    ASSUME PostgresInv, Postgres!ServerReplies
    PROVE  \E more \in Seq(PgMessages) :
              /\ wire' = wire \o more
              /\ \A i \in 1 .. Len(more) :
                    /\ more[i].kind = "D" => /\ i + 1 \in 1 .. Len(more)
                                             /\ more[i + 1].of = more[i].of
                                             /\ more[i].of # "hello"
                    /\ more[i].kind = "R" => more[i].of = "hello"
<1> DEFINE q == Head(asked)
           Z == Postgres!Message("Z", q, 0)
           E == Postgres!Message("E", q, 0)
           R == Postgres!Message("R", q, 0)
           Good(more) ==
               \A i \in 1 .. Len(more) :
                    /\ more[i].kind = "D" => /\ i + 1 \in 1 .. Len(more)
                                             /\ more[i + 1].of = more[i].of
                                             /\ more[i].of # "hello"
                    /\ more[i].kind = "R" => more[i].of = "hello"
<1>1. q \in Questions \cup {"hello"}
  BY DEF Postgres!ServerReplies, PostgresInv, PostgresTyped
<1>2. \A kind \in {"Z", "E", "R", "D"}, c \in Commits \cup {0} :
           /\ Postgres!Message(kind, q, c) \in PgMessages
           /\ Postgres!Message(kind, q, c).of = q /\ Postgres!Message(kind, q, c).kind = kind
  BY <1>1 DEF Postgres!Message, PgMessages
<1>3. /\ <<Z>> \in Seq(PgMessages) /\ <<E>> \in Seq(PgMessages) /\ <<E, Z>> \in Seq(PgMessages)
      /\ <<R>> \in Seq(PgMessages)
      /\ Good(<<Z>>) /\ Good(<<E>>) /\ Good(<<E, Z>>) /\ (q = "hello" => Good(<<R>>))
  BY <1>2
<1>4. ASSUME NEW n \in Nat, NEW c \in Commits \cup {0}, q # "hello",
             wire' = wire \o [i \in 1 .. n |-> Postgres!Message("D", q, c)] \o <<Z>>
      PROVE  \E more \in Seq(PgMessages) : wire' = wire \o more /\ Good(more)
  <2> DEFINE D == [i \in 1 .. n |-> Postgres!Message("D", q, c)]
  <2>1. D \in Seq(PgMessages) /\ Len(D) = n /\ \A i \in 1 .. n : D[i] = Postgres!Message("D", q, c)
    BY <1>2
  <2>2. wire \in Seq(PgMessages)
    BY DEF PostgresInv, PostgresTyped
  <2> HIDE DEF D
  <2>3. wire' = wire \o (D \o <<Z>>) /\ D \o <<Z>> \in Seq(PgMessages)
    BY <1>3, <1>4, <2>1, <2>2 DEF D
  <2>4. /\ Len(D \o <<Z>>) = n + 1 /\ \A i \in 1 .. n : (D \o <<Z>>)[i] = D[i]
        /\ (D \o <<Z>>)[n + 1] = Z
    BY <1>3, <2>1
  <2>5. \A i \in 1 .. n + 1 : (D \o <<Z>>)[i].of = q
    BY <1>2, <2>1, <2>4
  <2>6. \A i \in 1 .. n + 1 : (D \o <<Z>>)[i].kind # "R" /\ ((D \o <<Z>>)[i].kind = "D" => i \in 1 .. n)
    BY <1>2, <2>1, <2>4
  <2> DEFINE more == D \o <<Z>>
  <2> HIDE DEF more, q, Z
  <2>7. Good(more)
    BY <1>4, <2>4, <2>5, <2>6 DEF more
  <2>. QED  BY <2>3, <2>7 DEF more
<1>5. \/ wire' = wire \o <<Z>> \/ (q = "hello" /\ wire' = wire \o <<R>>)
      \/ wire' = wire \o <<E>> \/ wire' = wire \o <<E, Z>>
      \/ \E n \in 0 .. Postgres!MostRows[q], c \in Postgres!CommitOf(q) :
            q # "hello" /\ wire' = wire \o [i \in 1 .. n |-> Postgres!Message("D", q, c)] \o <<Z>>
  BY Zenon DEF Postgres!ServerReplies
<1>6. \A c \in Postgres!CommitOf(q) : c \in Commits \cup {0}
  BY DEF Postgres!CommitOf
<1>7. \A n \in 0 .. Postgres!MostRows[q] : n \in Nat
  OBVIOUS
<1> HIDE DEF Good, Z, E, R
<1>8. \E more \in Seq(PgMessages) : wire' = wire \o more /\ Good(more)
  BY <1>3, <1>4, <1>5, <1>6, <1>7
<1>. QED  BY <1>8, Zenon DEF Good

LEMMA WholeInvStep ==
    ASSUME PostgresInv, WholeInv, [Postgres!Next]_(Postgres!vars)  PROVE WholeInv'
<1>0. DOMAIN Postgres!Columns = Questions
  BY DEF Postgres!Columns, Questions
<1>1. CASE Postgres!OnTick
  <2>1. snap' = Postgres!Empty /\ rows' = {} /\ (wire' = wire \/ wire' = <<>>)
    BY <1>1 DEF Postgres!OnTick, Postgres!Connect
  <2>2. \A s \in shown' : s \in shown \/ s.data = Postgres!Empty
    BY <1>1 DEF Postgres!OnTick, Postgres!Connect
  <2>3. Whole'
    BY <2>1 DEF WholeInv, Whole
  <2>. QED  BY <2>1, <2>2, <2>3, EmptyIsOfOne DEF WholeInv
<1>2. ASSUME NEW ok \in BOOLEAN, Postgres!EndHello(ok)
      PROVE  UNCHANGED <<rows, snap>> /\ \A s \in shown' : OfOne(s.data)
  <2>1. UNCHANGED <<rows, snap>> /\ \A s \in shown' : s \in shown \/ s.data = Postgres!Empty
    BY <1>2 DEF Postgres!EndHello
  <2>. QED  BY <2>1, EmptyIsOfOne DEF WholeInv
<1>3. CASE Postgres!OnHelloReady \/ Postgres!OnHelloRefused
  <2>1. PICK kind \in {"Z", "E", "R"} : Postgres!Read(kind)
    BY <1>3 DEF Postgres!OnHelloReady, Postgres!OnHelloRefused
  <2>2. UNCHANGED <<rows, snap>> /\ \A s \in shown' : OfOne(s.data)
    BY <1>2, <1>3 DEF Postgres!OnHelloReady, Postgres!OnHelloRefused
  <2>3. step = "hello" /\ rows = {}
    BY <1>3 DEF Postgres!OnHelloReady, Postgres!OnHelloRefused, WholeInv, Questions
  <2>4. Whole'
    BY <2>1, <2>2, <2>3, WholeReads
  <2>. QED  BY <2>2, <2>3, <2>4 DEF WholeInv
<1>4. CASE Postgres!OnTimeout
  <2>1. CASE step = "hello"
    <3>1. Postgres!EndHello(FALSE) /\ wire' = wire
      BY <1>4, <2>1 DEF Postgres!OnTimeout
    <3>2. rows = {}
      BY <2>1 DEF WholeInv, Questions
    <3>3. UNCHANGED <<rows, snap>> /\ \A s \in shown' : OfOne(s.data)
      BY <1>2, <3>1
    <3>. QED  BY <3>1, <3>2, <3>3 DEF WholeInv, Whole
  <2>2. CASE step # "hello"
    <3>1. step \in Questions /\ Postgres!EndQuery(FALSE, {}) /\ wire' = wire
      BY <1>4, <2>2 DEF Postgres!OnTimeout, PostgresInv, PostgresTyped
    <3> DEFINE ok == FALSE
               read == {}
    <3>2. /\ ok \in BOOLEAN /\ Postgres!EndQuery(ok, read)
          /\ \A r, t \in read : r.of = t.of
          /\ \A r \in read : r.of \in Questions
      BY <3>1
    <3> HIDE DEF ok, read
    <3>3. rows' = {} /\ OfOne(snap') /\ \A s \in shown' : OfOne(s.data)
      BY <3>1, <3>2, QuestionEndsOfOne
    <3>. QED  BY <3>1, <3>3 DEF WholeInv, Whole, OfOne
  <2>. QED  BY <2>1, <2>2
<1>5. CASE Postgres!OnRow \/ Postgres!OnOther
  <2>1. /\ step \in Questions /\ UNCHANGED <<step, snap, shown>>
        /\ \/ Postgres!Read("D") /\ rows' = rows \cup {Head(wire)}
           \/ Postgres!Read("R") /\ rows' = rows
    BY <1>0, <1>5 DEF Postgres!OnRow, Postgres!OnOther
  <2>2. Whole'
    BY <2>1, WholeReads
  <2>. QED  BY <2>1, <2>2 DEF WholeInv, OfOne
<1>6. CASE Postgres!OnReady \/ Postgres!OnError
  <2>1. PICK kind \in {"Z", "E"}, ok \in BOOLEAN, read \in {rows, {}} :
           step \in Questions /\ Postgres!Read(kind) /\ Postgres!EndQuery(ok, read)
    BY <1>0, <1>6 DEF Postgres!OnReady, Postgres!OnError
  <2>2. (\A r, t \in read : r.of = t.of) /\ \A r \in read : r.of \in Questions
    BY DEF WholeInv, Whole, PostgresInv, PostgresTyped, PgMessages
  <2>3. rows' = {} /\ OfOne(snap') /\ \A s \in shown' : OfOne(s.data)
    BY <2>1, <2>2, QuestionEndsOfOne
  <2>4. Whole'
    BY <2>1, <2>3, WholeReads
  <2>. QED  BY <2>3, <2>4 DEF WholeInv, OfOne
<1>7. CASE Postgres!ServerReplies
  <2>1. UNCHANGED <<step, rows, snap, shown>>
    BY <1>7 DEF Postgres!ServerReplies
  <2>2. PICK more \in Seq(PgMessages) :
           /\ wire' = wire \o more
           /\ \A i \in 1 .. Len(more) :
                 /\ more[i].kind = "D" => /\ i + 1 \in 1 .. Len(more) /\ more[i + 1].of = more[i].of
                                          /\ more[i].of # "hello"
                 /\ more[i].kind = "R" => more[i].of = "hello"
    BY <1>7, ReplyIsWhole
  <2>3. wire \in Seq(PgMessages) /\ Len(wire) \in Nat /\ Len(more) \in Nat
    BY DEF PostgresInv, PostgresTyped
  <2>4. /\ Len(wire') = Len(wire) + Len(more)
        /\ \A i \in 1 .. Len(wire) : wire'[i] = wire[i]
        /\ \A i \in 1 .. Len(more) : wire'[Len(wire) + i] = more[i]
    BY <2>2, <2>3
  <2>5. ASSUME NEW i \in 1 .. Len(wire')
        PROVE  /\ wire'[i].kind = "D" => /\ i + 1 \in 1 .. Len(wire')
                                         /\ wire'[i + 1].of = wire'[i].of
                                         /\ wire'[i].of # "hello"
               /\ wire'[i].kind = "R" => wire'[i].of = "hello"
    <3>1. CASE i \in 1 .. Len(wire)
      <4>1. wire'[i] = wire[i] /\ (wire[i].kind = "R" => wire[i].of = "hello")
        BY <2>4, <3>1 DEF WholeInv, Whole
      <4>2. ASSUME wire[i].kind = "D"
            PROVE  /\ i + 1 \in 1 .. Len(wire) /\ wire[i + 1].of = wire[i].of
                   /\ wire[i].of # "hello"
        BY <3>1, <4>2 DEF WholeInv, Whole
      <4>3. i + 1 \in 1 .. Len(wire) => i + 1 \in 1 .. Len(wire') /\ wire'[i + 1] = wire[i + 1]
        BY <2>3, <2>4
      <4>. QED  BY <4>1, <4>2, <4>3
    <3>2. CASE i \notin 1 .. Len(wire)
      <4> DEFINE k == i - Len(wire)
      <4>1. k \in 1 .. Len(more) /\ i = Len(wire) + k
        BY <2>3, <2>4, <3>2
      <4>2. i + 1 = Len(wire) + (k + 1) /\ k \in Int
        BY <2>3, <4>1
      <4> HIDE DEF k
      <4>3. wire'[i] = more[k]
        BY <2>4, <4>1
      <4>4. k + 1 \in 1 .. Len(more) => wire'[i + 1] = more[k + 1] /\ i + 1 \in 1 .. Len(wire')
        BY <2>3, <2>4, <4>2
      <4>. QED  BY <2>2, <4>1, <4>3, <4>4
    <3>. QED  BY <3>1, <3>2
  <2>6. ASSUME NEW r \in rows  PROVE wire' # <<>> /\ wire'[1].of = r.of /\ r.of # "hello"
    <3>1. wire # <<>> /\ wire[1].of = r.of /\ r.of # "hello"
      BY DEF WholeInv, Whole
    <3>2. 1 \in 1 .. Len(wire)
      BY <2>3, <3>1 DEF PostgresInv, PostgresTyped
    <3>3. wire'[1] = wire[1] /\ Len(wire') > 0
      BY <2>3, <2>4, <3>2
    <3>. QED  BY <3>1, <3>3
  <2>7. Whole'
    BY <2>1, <2>5, <2>6 DEF WholeInv, Whole
  <2>. QED  BY <2>1, <2>7 DEF WholeInv, OfOne
<1>8. CASE Postgres!Stop
  <2>1. wire' = <<>> /\ step = "idle" /\ step' = step /\ UNCHANGED <<rows, snap, shown>>
    BY <1>8 DEF Postgres!Stop
  <2>2. rows = {}
    BY <2>1 DEF WholeInv, Questions
  <2>. QED  BY <2>1, <2>2 DEF WholeInv, Whole, OfOne
<1>9. CASE UNCHANGED Postgres!vars
  BY <1>9 DEF Postgres!vars, WholeInv, Whole, OfOne
<1>. QED
  BY <1>1, <1>3, <1>4, <1>5, <1>6, <1>7, <1>8, <1>9, Zenon DEF Postgres!Next

-----------------------------------------------------------------------------
(* TraceSource: what a buffer holds, and which spans are kept.              *)

AllSpans == UNION {ToSet(r.spans) : r \in Requests}

TracesTyped ==
    /\ sockets \in [DOMAIN sockets -> [request : Requests, sent : Nat]]
    /\ buffers \in [DOMAIN buffers -> Nat]
    /\ spans \in Seq(AllSpans) /\ bodies \in Seq(AllSpans)

\* A buffer holds what its connection sent, until the body is whole; an address
\* that came back finds an empty one.
BuffersInStep ==
    \A c \in DOMAIN sockets :
        IF c \in DOMAIN buffers
        THEN buffers[c] = sockets[c].sent /\ sockets[c].sent <= sockets[c].request.length
        ELSE sockets[c].sent > sockets[c].request.length

TracesInv == TracesTyped /\ BuffersInStep /\ Traces!SpansComeOnce

\* Kept is the end of a list, as much of it as maxSpans allows.
LEMMA KeptIsEnd ==
    ASSUME NEW S, NEW s \in Seq(S), MaxSpans \in Nat
    PROVE  /\ Traces!Kept(s) \in Seq(S)
           /\ Len(Traces!Kept(s)) = IF Len(s) <= MaxSpans THEN Len(s) ELSE MaxSpans
           /\ \A i \in 1 .. Len(Traces!Kept(s)) :
                  Traces!Kept(s)[i] = s[Len(s) - Len(Traces!Kept(s)) + i]
<1> DEFINE from == IF Len(s) <= MaxSpans THEN 1 ELSE Len(s) - MaxSpans + 1
<1>1. Len(s) \in Nat /\ from \in Nat \ {0}
  OBVIOUS
<1>2. Traces!Max({1, Len(s) - MaxSpans + 1}) = from
  <2>1. from \in {1, Len(s) - MaxSpans + 1} /\ \A y \in {1, Len(s) - MaxSpans + 1} : from >= y
    BY <1>1
  <2>2. \A x \in {1, Len(s) - MaxSpans + 1} :
            (\A y \in {1, Len(s) - MaxSpans + 1} : x >= y) => x = from
    BY <1>1
  <2>. QED  BY <2>1, <2>2 DEF Traces!Max
<1>3. Traces!Kept(s) = SubSeq(s, from, Len(s))
  BY <1>2, Zenon DEF Traces!Kept
<1> HIDE DEF from
<1>4. /\ SubSeq(s, from, Len(s)) \in Seq(S)
      /\ Len(SubSeq(s, from, Len(s))) = IF from <= Len(s) THEN Len(s) - from + 1 ELSE 0
      /\ \A i \in 1 .. (Len(s) - from + 1) : SubSeq(s, from, Len(s))[i] = s[from + i - 1]
  BY <1>1, SubSeqProperties
<1> DEFINE k == Traces!Kept(s)
<1>5. k \in Seq(S) /\ Len(k) \in Nat
  BY <1>3, <1>4
<1>6. Len(k) = IF from <= Len(s) THEN Len(s) - from + 1 ELSE 0
  BY <1>3, <1>4
<1>7. \A i \in 1 .. (Len(s) - from + 1) : k[i] = s[from + i - 1]
  BY <1>3, <1>4
<1> HIDE DEF k
<1>8. Len(k) = IF Len(s) <= MaxSpans THEN Len(s) ELSE MaxSpans
  <2>1. CASE Len(s) <= MaxSpans
    <3>1. from = 1
      BY <2>1 DEF from
    <3>. QED  BY <1>1, <1>6, <2>1, <3>1
  <2>2. CASE ~(Len(s) <= MaxSpans)
    <3>1. from = Len(s) - MaxSpans + 1
      BY <2>2 DEF from
    <3>. QED  BY <1>1, <1>6, <2>2, <3>1
  <2>. QED  BY <2>1, <2>2
<1>9. ASSUME NEW i \in 1 .. Len(k)  PROVE k[i] = s[Len(s) - Len(k) + i]
  <2>1. i \in 1 .. (Len(s) - from + 1) /\ from + i - 1 = Len(s) - Len(k) + i
    <3>1. from <= Len(s)
      BY <1>1, <1>6
    <3>2. Len(k) = Len(s) - from + 1
      BY <1>6, <3>1
    <3>. QED  BY <1>1, <3>2
  <2>. QED  BY <1>7, <2>1
<1>. QED  BY <1>5, <1>8, <1>9 DEF k

\* Dropping the oldest of what came before does not change what is kept.
LEMMA KeptOfKept ==
    ASSUME NEW S, NEW b \in Seq(S), NEW p \in Seq(S), MaxSpans \in Nat
    PROVE  Traces!Kept(Traces!Kept(b) \o p) = Traces!Kept(b \o p)
<1> DEFINE k == Traces!Kept(b)
           x == k \o p
           y == b \o p
           L == Traces!Kept(x)
           R == Traces!Kept(y)
           d == Len(b) - Len(k)
<1>1. /\ k \in Seq(S) /\ Len(k) = IF Len(b) <= MaxSpans THEN Len(b) ELSE MaxSpans
      /\ \A i \in 1 .. Len(k) : k[i] = b[d + i]
  BY KeptIsEnd
<1> HIDE DEF k
<1>2. /\ x \in Seq(S) /\ Len(x) = Len(k) + Len(p)
      /\ \A i \in 1 .. Len(x) : x[i] = IF i <= Len(k) THEN k[i] ELSE p[i - Len(k)]
  <2>1. k \in Seq(S)
    BY <1>1
  <2>. QED  BY <2>1, ConcatProperties
<1>3. /\ y \in Seq(S) /\ Len(y) = Len(b) + Len(p)
      /\ \A i \in 1 .. Len(y) : y[i] = IF i <= Len(b) THEN b[i] ELSE p[i - Len(b)]
  BY ConcatProperties
<1> HIDE DEF x, y
<1>4. /\ L \in Seq(S) /\ Len(L) = IF Len(x) <= MaxSpans THEN Len(x) ELSE MaxSpans
      /\ \A i \in 1 .. Len(L) : L[i] = x[Len(x) - Len(L) + i]
  BY <1>2, KeptIsEnd
<1>5. /\ R \in Seq(S) /\ Len(R) = IF Len(y) <= MaxSpans THEN Len(y) ELSE MaxSpans
      /\ \A i \in 1 .. Len(R) : R[i] = y[Len(y) - Len(R) + i]
  BY <1>3, KeptIsEnd
<1> HIDE DEF L, R
<1>6. /\ Len(b) \in Nat /\ Len(p) \in Nat /\ Len(k) \in Nat /\ Len(L) \in Nat
      /\ d \in Nat /\ Len(y) = Len(x) + d /\ Len(x) \in Nat /\ Len(L) <= Len(x)
  <2>1. Len(b) \in Nat /\ Len(p) \in Nat /\ Len(k) \in Nat /\ Len(L) \in Nat /\ Len(x) \in Nat
    BY <1>1, <1>2, <1>4
  <2>2. d \in Nat
    BY <1>1, <2>1
  <2>3. Len(y) = Len(x) + d
    BY <1>2, <1>3, <2>1
  <2>4. Len(L) <= Len(x)
    BY <1>4, <2>1
  <2>. QED  BY <2>1, <2>2, <2>3, <2>4
<1>7. Len(L) = Len(R)
  BY <1>1, <1>2, <1>3, <1>4, <1>5, <1>6
<1>8. ASSUME NEW i \in 1 .. Len(L)  PROVE L[i] = R[i]
  <2> DEFINE j == Len(x) - Len(L) + i
  <2>1. j \in 1 .. Len(x) /\ j + d \in 1 .. Len(y) /\ Len(y) - Len(L) + i = j + d
    BY <1>6
  <2>2. L[i] = x[j] /\ R[i] = y[j + d]
    BY <1>4, <1>5, <1>7, <2>1
  <2> HIDE DEF j
  <2>3. CASE j <= Len(k)
    <3>0. j \in 1 .. Len(k)
      BY <1>6, <2>1, <2>3
    <3>1. x[j] = k[j] /\ k[j] = b[d + j]
      BY <1>1, <1>2, <2>1, <2>3, <3>0
    <3>2. j + d <= Len(b) /\ d + j = j + d
      BY <1>6, <2>1, <2>3
    <3>3. y[j + d] = b[j + d]
      BY <1>3, <2>1, <3>2
    <3>. QED  BY <2>2, <3>1, <3>2, <3>3
  <2>4. CASE ~(j <= Len(k))
    <3>1. x[j] = p[j - Len(k)]
      BY <1>2, <2>1, <2>4
    <3>2. ~(j + d <= Len(b)) /\ j + d - Len(b) = j - Len(k)
      BY <1>6, <2>1, <2>4
    <3> DEFINE m == j + d
    <3>3. m \in 1 .. Len(y) /\ ~(m <= Len(b)) /\ m - Len(b) = j - Len(k) /\ R[i] = y[m]
      BY <2>1, <2>2, <3>2
    <3> HIDE DEF m
    <3>4. y[m] = p[m - Len(b)]
      BY <1>3, <3>3
    <3>. QED  BY <2>2, <3>1, <3>3, <3>4
  <2>. QED  BY <2>3, <2>4
<1>9. L = R
  BY <1>4, <1>5, <1>7, <1>8, SeqEqual
<1>. QED  BY <1>9 DEF L, R, x, y, k

LEMMA TracesInvInit ==
    ASSUME Traces!Init  PROVE TracesInv
<1>1. sockets = <<>> /\ buffers = <<>> /\ spans = <<>> /\ bodies = <<>>
  BY DEF Traces!Init
<1>2. \A e : e = <<>> => e \in Seq(AllSpans) /\ Len(e) = 0
  OBVIOUS
<1>3. Traces!Kept(<<>>) = <<>>
  <2>0. MaxSpans \in Nat
    BY StreamsAssumption
  <2>1. Traces!Kept(<<>>) \in Seq(AllSpans)
    BY <1>2, <2>0, KeptIsEnd, Zenon
  <2>2. Len(Traces!Kept(<<>>)) = IF Len(<<>>) <= MaxSpans THEN Len(<<>>) ELSE MaxSpans
    BY <1>2, <2>0, KeptIsEnd, Zenon
  <2>3. Len(Traces!Kept(<<>>)) = 0
    BY <2>0, <2>2
  <2>. QED  BY <2>1, <2>3
<1>. QED  BY <1>1, <1>3 DEF TracesInv, TracesTyped, BuffersInStep, Traces!SpansComeOnce

\* A connection, also under an address that has a buffer, starts from nothing.
LEMMA ConnectionStep ==
    ASSUME TracesInv, NEW c \in Conns, Traces!OnNewConnection(c) \/ Traces!OnDisconnected(c)
    PROVE  TracesInv'
<1>1. UNCHANGED <<spans, bodies>>
  BY DEF Traces!OnNewConnection, Traces!OnDisconnected
<1>2. CASE Traces!OnNewConnection(c)
  <2>1. PICK r \in Requests : sockets' = Traces!With(sockets, c, [request |-> r, sent |-> 0])
    BY <1>2 DEF Traces!OnNewConnection
  <2>2. buffers' = Traces!With(buffers, c, 0)
    BY <1>2 DEF Traces!OnNewConnection
  <2>3. r.length \in Nat
    BY StreamsAssumption
  <2>. QED  BY <1>1, <2>1, <2>2, <2>3
            DEF TracesInv, TracesTyped, BuffersInStep, Traces!SpansComeOnce, Traces!With
<1>3. CASE Traces!OnDisconnected(c)
  <2>1. sockets' = Traces!Without(sockets, c) /\ UNCHANGED buffers
    BY <1>3 DEF Traces!OnDisconnected
  <2>. QED  BY <1>1, <2>1
            DEF TracesInv, TracesTyped, BuffersInStep, Traces!SpansComeOnce, Traces!Without
<1>. QED  BY <1>2, <1>3

LEMMA ChunkStep ==
    ASSUME TracesInv, NEW c \in Conns, NEW n \in 1 .. 3, Traces!OnReadyRead(c, n)
    PROVE  TracesInv'
<1> DEFINE s == sockets[c]
           p == Traces!Processed(s.request)
<1>1. c \in DOMAIN sockets /\ s \in [request : Requests, sent : Nat]
  BY DEF Traces!OnReadyRead, TracesInv, TracesTyped
<1>2. s.request.length \in Nat /\ s.request.spans \in Seq(ToSet(s.request.spans))
  BY <1>1, StreamsAssumption
<1>3. p \in Seq(AllSpans)
  <2>1. ToSet(s.request.spans) \subseteq AllSpans
    BY <1>1 DEF AllSpans
  <2>2. s.request.spans \in Seq(AllSpans)
    BY <1>2, <2>1
  <2>. QED  BY <2>2 DEF Traces!Processed
<1>4. sockets' = [sockets EXCEPT ![c].sent = s.sent + n]
  BY DEF Traces!OnReadyRead
<1>5. /\ sockets' \in [DOMAIN sockets -> [request : Requests, sent : Nat]]
      /\ sockets'[c].sent = s.sent + n /\ sockets'[c].request = s.request
      /\ \A d \in DOMAIN sockets \ {c} : sockets'[d] = sockets[d]
  BY <1>1, <1>4 DEF TracesInv, TracesTyped
<1>6. bodies' = IF s.sent <= s.request.length /\ s.sent + n > s.request.length
                THEN bodies \o p ELSE bodies
  BY DEF Traces!OnReadyRead
<1>7. bodies' \in Seq(AllSpans) /\ bodies \in Seq(AllSpans) /\ MaxSpans \in Nat
  BY <1>3, <1>6, StreamsAssumption DEF TracesInv, TracesTyped
<1>8. CASE c \notin DOMAIN buffers
  <2>1. UNCHANGED <<buffers, spans>> /\ s.sent > s.request.length
    BY <1>1, <1>8 DEF Traces!OnReadyRead, TracesInv, BuffersInStep
  <2>2. bodies' = bodies
    BY <1>1, <1>2, <1>6, <2>1
  <2>3. BuffersInStep'
    BY <1>1, <1>2, <1>5, <1>8, <2>1 DEF TracesInv, BuffersInStep
  <2>. QED  BY <1>5, <2>1, <2>2, <2>3 DEF TracesInv, TracesTyped, Traces!SpansComeOnce
<1>9. CASE c \in DOMAIN buffers
  <2>1. buffers[c] = s.sent /\ s.sent <= s.request.length
    BY <1>1, <1>9 DEF TracesInv, BuffersInStep
  <2>2. CASE buffers[c] + n >= 1 + s.request.length
    <3>1. spans' = Traces!Kept(spans \o p) /\ buffers' = Traces!Without(buffers, c)
      BY <1>9, <2>2 DEF Traces!OnReadyRead
    <3>2. bodies' = bodies \o p
      BY <1>1, <1>2, <1>6, <2>1, <2>2
    <3>3. spans' = Traces!Kept(bodies')
      BY <1>3, <1>7, <3>1, <3>2, KeptOfKept DEF TracesInv, Traces!SpansComeOnce
    <3>4. spans' \in Seq(AllSpans)
      BY <1>7, <3>3, KeptIsEnd
    <3>5. /\ DOMAIN buffers' = DOMAIN buffers \ {c}
          /\ \A d \in DOMAIN buffers' : buffers'[d] = buffers[d]
          /\ buffers' \in [DOMAIN buffers' -> Nat]
      BY <3>1 DEF Traces!Without, TracesInv, TracesTyped
    <3>6. BuffersInStep'
      BY <1>1, <1>2, <1>5, <2>1, <2>2, <3>5 DEF TracesInv, BuffersInStep
    <3>. QED  BY <1>5, <1>7, <3>3, <3>4, <3>5, <3>6
              DEF TracesInv, TracesTyped, Traces!SpansComeOnce
  <2>3. CASE ~(buffers[c] + n >= 1 + s.request.length)
    <3>1. buffers' = [buffers EXCEPT ![c] = buffers[c] + n] /\ UNCHANGED spans
      BY <1>9, <2>3 DEF Traces!OnReadyRead
    <3>2. bodies' = bodies
      BY <1>1, <1>2, <1>6, <2>1, <2>3
    <3>3. /\ buffers' \in [DOMAIN buffers -> Nat] /\ buffers'[c] = s.sent + n
          /\ \A d \in DOMAIN buffers \ {c} : buffers'[d] = buffers[d]
      BY <1>1, <1>9, <2>1, <3>1 DEF TracesInv, TracesTyped
    <3>4. BuffersInStep'
      BY <1>1, <1>2, <1>5, <2>1, <2>3, <3>3 DEF TracesInv, BuffersInStep
    <3>. QED  BY <1>5, <3>1, <3>2, <3>3, <3>4
              DEF TracesInv, TracesTyped, Traces!SpansComeOnce
  <2>. QED  BY <2>2, <2>3
<1>. QED  BY <1>8, <1>9

LEMMA TracesInvStep ==
    ASSUME TracesInv, [Traces!Next]_(Traces!vars)  PROVE TracesInv'
<1>1. CASE UNCHANGED <<sockets, buffers, spans, bodies>>
  BY <1>1 DEF TracesInv, TracesTyped, BuffersInStep, Traces!SpansComeOnce
<1>2. Traces!Start \/ Traces!OnEmitTick \/ Traces!Stop \/ UNCHANGED Traces!vars
        => UNCHANGED <<sockets, buffers, spans, bodies>>
  BY DEF Traces!Start, Traces!OnEmitTick, Traces!Stop, Traces!vars
<1>. QED  BY <1>1, <1>2, ConnectionStep, ChunkStep DEF Traces!Next

-----------------------------------------------------------------------------
(* Induction up to a number, and the values of a loop.                     *)

\* A set that holds 0 and, with a number below n, the next one holds n.
LEMMA UpTo ==
    ASSUME NEW n \in Nat, NEW K, 0 \in K, \A k \in 0 .. n - 1 : k \in K => k + 1 \in K
    PROVE  n \in K
<1>. SUFFICES ASSUME n \notin K  PROVE FALSE
  OBVIOUS
<1>. DEFINE rest == (0 .. n) \ K
            less == {p \in Nat \X Nat : p[1] < p[2]}
<1>1. rest \subseteq Nat /\ rest # {}
  OBVIOUS
<1>2. IsWellFoundedOn(less, Nat)
  BY NatLessThanWellFounded, Zenon DEF OpToRel
<1>3. PICK m \in rest : \A k \in rest : ~ (<<k, m>> \in less)
  <2>. HIDE DEF rest, less
  <2>. QED  BY <1>1, <1>2, WFMin
<1>4. m \in 1 .. n /\ m - 1 \in 0 .. n
  OBVIOUS
<1>5. m - 1 \in K
  <2>1. <<m - 1, m>> \in less
    BY <1>4
  <2>2. m - 1 \notin rest
    <3>. HIDE DEF rest, less
    <3>. QED  BY <1>3, <2>1
  <2>. QED  BY <1>4, <2>2
<1>. QED  BY <1>4, <1>5

\* The values of a loop of n turns that starts with a.
IsLoop(g, n, S, a, F) ==
    g \in [0 .. n -> S] /\ g[0] = a /\ \A k \in 1 .. n : g[k] = F[k][g[k - 1]]

\* A loop over values of S has values for all of its turns.
LEMMA LoopValues ==
    ASSUME NEW n \in Nat, NEW S, NEW a \in S, NEW F \in [1 .. n -> [S -> S]]
    PROVE  \E g : IsLoop(g, n, S, a, F)
<1>. DEFINE Runs(m, g) == g[0] = a /\ \A k \in 1 .. m : g[k] = F[k][g[k - 1]]
            K == {m \in 0 .. n : \E g \in [0 .. m -> S] : Runs(m, g)}
<1>1. 0 \in K
  <2>. DEFINE g == [k \in 0 .. 0 |-> a]
  <2>1. g \in [0 .. 0 -> S] /\ Runs(0, g)
    OBVIOUS
  <2>. HIDE DEF g, Runs
  <2>. QED  BY <2>1
<1>2. ASSUME NEW m \in 0 .. n - 1, m \in K  PROVE m + 1 \in K
  <2>1. PICK g \in [0 .. m -> S] : Runs(m, g)
    BY <1>2
  <2>2. m \in Nat /\ m + 1 \in 1 .. n /\ m + 1 \in 0 .. n
    OBVIOUS
  <2>3. g[m] \in S
    BY <2>2
  <2>. DEFINE last == F[m + 1][g[m]]
              h == [k \in 0 .. m + 1 |-> IF k <= m THEN g[k] ELSE last]
  <2>4. last \in S
    BY <2>2, <2>3
  <2>5. h \in [0 .. m + 1 -> S]
    <3>. HIDE DEF last
    <3>. QED  BY <2>2, <2>4
  <2>6. h[0] = a
    BY <2>1, <2>2
  <2>7. ASSUME NEW k \in 1 .. m + 1  PROVE h[k] = F[k][h[k - 1]]
    <3>1. CASE k <= m
      <4>1. h[k] = g[k] /\ h[k - 1] = g[k - 1] /\ k \in 1 .. m
        BY <2>2, <3>1
      <4>. HIDE DEF h
      <4>. QED  BY <2>1, <4>1
    <3>2. CASE k = m + 1
      <4>1. h[k] = last /\ h[k - 1] = g[m]
        BY <2>2, <3>2
      <4>. HIDE DEF h
      <4>. QED  BY <3>2, <4>1
    <3>. QED  BY <2>2, <3>1, <3>2
  <2>8. Runs(m + 1, h)
    <3>. HIDE DEF h
    <3>. QED  BY <2>6, <2>7
  <2>. HIDE DEF h, Runs
  <2>. QED  BY <2>2, <2>5, <2>8
<1>3. n \in K
  <2>. HIDE DEF K
  <2>. QED  BY <1>1, <1>2, UpTo
<1>. QED  BY <1>3 DEF IsLoop

-----------------------------------------------------------------------------
(* ProcessTree: the rows of the process tab.                               *)

LEMMA SameCardinality == \A S : Tree!Cardinality(S) = Cardinality(S)
BY Zenon DEF Cardinality, Tree!Cardinality

\* The pids of any group can be sorted.
LEMMA AscendingSorts ==
    ASSUME NEW S \in SUBSET Pids
    PROVE  /\ Cardinality(S) \in Nat
           /\ Tree!Ascending(S) \in [1 .. Cardinality(S) -> S]
           /\ \A i, j \in 1 .. Cardinality(S) : i < j => Tree!Ascending(S)[i] < Tree!Ascending(S)[j]
<1>. DEFINE Sorts(n, T, s) == s \in [1 .. n -> T] /\ \A i, j \in 1 .. n : i < j => s[i] < s[j]
            N == Cardinality(S)
            K == {n \in 0 .. N : \A T \in SUBSET S : Cardinality(T) = n => \E s : Sorts(n, T, s)}
<1>1. /\ IsFiniteSet(S) /\ N \in Nat
      /\ \A T \in SUBSET S : IsFiniteSet(T) /\ Cardinality(T) \in Nat
  BY FS_Subset, FS_CardinalityType, TreeAssumption
<1>2. 0 \in K
  <2>1. ASSUME NEW T  PROVE Sorts(0, T, <<>>)
    OBVIOUS
  <2>. HIDE DEF Sorts
  <2>. QED  BY <1>1, <2>1
<1>3. ASSUME NEW n \in 0 .. N - 1, n \in K  PROVE n + 1 \in K
  <2>0. n \in Nat /\ n + 1 \in 0 .. N
    BY <1>1
  <2>1. ASSUME NEW T \in SUBSET S, Cardinality(T) = n + 1
        PROVE  \E s : Sorts(n + 1, T, s)
    <3>. DEFINE less == {p \in Nat \X Nat : p[1] < p[2]}
    <3>1. T \subseteq Nat /\ T # {}
      BY <1>1, <2>0, <2>1, FS_EmptySet, TreeAssumption
    <3>2. IsWellFoundedOn(less, Nat)
      BY NatLessThanWellFounded, Zenon DEF OpToRel
    <3>3. PICK m \in T : \A k \in T : ~ (<<k, m>> \in less)
      <4>. HIDE DEF less
      <4>. QED  BY <3>1, <3>2, WFMin
    <3>4. ASSUME NEW k \in T \ {m}  PROVE k \in Nat /\ m \in Nat /\ m < k
      <4>1. k \in Nat /\ m \in Nat /\ k # m
        BY <3>1
      <4>2. ~ (k < m)
        <5>1. k < m => <<k, m>> \in less
          BY <4>1
        <5>. HIDE DEF less
        <5>. QED  BY <3>3, <5>1
      <4>. QED  BY <4>1, <4>2
    <3>5. T \ {m} \in SUBSET S /\ Cardinality(T \ {m}) = n
      <4>1. IsFiniteSet(T) /\ m \in T
        BY <1>1
      <4>2. Cardinality(T \ {m}) = Cardinality(T) - 1
        BY <4>1, FS_RemoveElement, Zenon
      <4>. QED  BY <2>0, <2>1, <4>2
    <3>6. PICK t : Sorts(n, T \ {m}, t)
      <4>. HIDE DEF Sorts
      <4>. QED  BY <1>3, <3>5
    <3>. DEFINE s == [i \in 1 .. n + 1 |-> IF i = 1 THEN m ELSE t[i - 1]]
    <3>7. \A i \in 2 .. n + 1 : s[i] = t[i - 1] /\ i - 1 \in 1 .. n
      BY <2>0
    <3>8. s \in [1 .. n + 1 -> T]
      BY <2>0, <3>6
    <3>9. ASSUME NEW i \in 1 .. n + 1, NEW j \in 1 .. n + 1, i < j  PROVE s[i] < s[j]
      <4>1. j \in 2 .. n + 1 /\ s[j] = t[j - 1] /\ j - 1 \in 1 .. n /\ t[j - 1] \in T \ {m}
        BY <2>0, <3>6, <3>7, <3>9
      <4>2. CASE i = 1
        <5>1. s[i] = m
          BY <4>2
        <5>. HIDE DEF s
        <5>. QED  BY <3>4, <4>1, <5>1
      <4>3. CASE i # 1
        <5>1. i \in 2 .. n + 1 /\ s[i] = t[i - 1] /\ i - 1 \in 1 .. n /\ i - 1 < j - 1
          BY <2>0, <3>7, <3>9, <4>3
        <5>. HIDE DEF s
        <5>. QED  BY <3>6, <4>1, <5>1
      <4>. QED  BY <4>2, <4>3
    <3>10. Sorts(n + 1, T, s)
      <4>. HIDE DEF s
      <4>. QED  BY <3>8, <3>9
    <3>. HIDE DEF Sorts, s
    <3>. QED  BY <3>10
  <2>. HIDE DEF Sorts
  <2>. QED  BY <2>0, <2>1
<1>4. N \in K
  <2>. HIDE DEF K, N
  <2>. QED  BY <1>1, <1>2, <1>3, UpTo
<1>5. \E s : Sorts(N, S, s)
  <2>. HIDE DEF Sorts
  <2>. QED  BY <1>4
<1>6. \E s \in [1 .. N -> S] : \A i, j \in 1 .. N : i < j => s[i] < s[j]
  BY <1>5
<1>. QED  BY <1>1, <1>6, SameCardinality DEF Tree!Ascending

TreeNodes == [pid : Pids, ppid : Int, depth : Nat]

LEMMA PidsAreNumbers ==
     \A p \in Pids : p \in Int /\ p \in Nat /\ p > 0
BY TreeAssumption

\* The children of a node are nodes, each once, one level below it.
LEMMA ChildrenAreNodes ==
    ASSUME NEW n \in TreeNodes, NEW table, DOMAIN table \subseteq Pids
    PROVE  /\ Tree!Children(n, table) \in Seq(TreeNodes)
           /\ \A i \in 1 .. Len(Tree!Children(n, table)) :
                  LET c == Tree!Children(n, table)[i]
                  IN  /\ c.pid \in DOMAIN table /\ table[c.pid] = n.pid
                      /\ c.depth = n.depth + 1
           /\ \A i, j \in 1 .. Len(Tree!Children(n, table)) :
                  Tree!Children(n, table)[i].pid = Tree!Children(n, table)[j].pid => i = j
<1>. DEFINE S == {p \in DOMAIN table : table[p] = n.pid}
            N == Cardinality(S)
            kids == Tree!Ascending(S)
            c == [i \in 1 .. N |-> [pid |-> kids[i], ppid |-> n.pid, depth |-> n.depth + 1]]
<1>1. /\ N \in Nat /\ kids \in [1 .. N -> S]
      /\ \A i, j \in 1 .. N : i < j => kids[i] < kids[j]
  <2>1. S \in SUBSET Pids
    OBVIOUS
  <2>. HIDE DEF S
  <2>. QED  BY <2>1, AscendingSorts
<1>2. Tree!Children(n, table) = c
  <2>1. DOMAIN kids = 1 .. N
    <3>. HIDE DEF kids
    <3>. QED  BY <1>1
  <2>2. Tree!Children(n, table) =
            [i \in DOMAIN kids |-> [pid |-> kids[i], ppid |-> n.pid, depth |-> n.depth + 1]]
    BY DEF Tree!Children, Tree!Node
  <2>. HIDE DEF kids, N
  <2>. QED  BY <2>1, <2>2
<1>3. ASSUME NEW i \in 1 .. N
      PROVE  kids[i] \in Pids /\ kids[i] \in Int /\ kids[i] \in DOMAIN table /\ table[kids[i]] = n.pid
  <2>1. kids[i] \in S
    <3>. HIDE DEF kids, S
    <3>. QED  BY <1>1
  <2>2. kids[i] \in DOMAIN table /\ table[kids[i]] = n.pid
    <3>. HIDE DEF kids
    <3>. QED  BY <2>1
  <2>. HIDE DEF kids
  <2>3. kids[i] \in Pids
    BY <2>2
  <2>4. kids[i] \in Int
    BY <2>3, PidsAreNumbers
  <2>. QED  BY <2>2, <2>3, <2>4
<1>4. n.pid \in Int /\ n.depth + 1 \in Nat
  <2>1. n.pid \in Pids /\ n.depth \in Nat
    BY DEF TreeNodes
  <2>2. n.pid \in Int
    BY <2>1, PidsAreNumbers
  <2>. QED  BY <2>1, <2>2
<1>5. c \in [1 .. N -> TreeNodes]
  <2>. HIDE DEF kids, N
  <2>. QED  BY <1>3, <1>4 DEF TreeNodes
<1>6. ASSUME NEW i \in 1 .. N, NEW j \in 1 .. N, kids[i] = kids[j]  PROVE i = j
  <2>1. ~ (i < j) /\ ~ (j < i)
    <3>. HIDE DEF kids, N
    <3>. QED  BY <1>1, <1>3, <1>6
  <2>. HIDE DEF kids, N
  <2>. QED  BY <1>1, <2>1
<1>7. Len(c) = N /\ c \in Seq(TreeNodes)
  <2>. HIDE DEF kids, N
  <2>. QED  BY <1>1, <1>5
<1>8. \A i \in 1 .. N : c[i].pid = kids[i] /\ c[i].depth = n.depth + 1
  <2>. HIDE DEF kids, N
  <2>. QED  OBVIOUS
<1>. HIDE DEF kids, N, c
<1>. QED  BY <1>2, <1>3, <1>6, <1>7, <1>8

\* Ranks that put every process of a table below the one it is linked to.
Ranks(rank, table) ==
    /\ rank \in [Pids -> Int]
    /\ \A p \in DOMAIN table : p \in Pids /\ table[p] \in Pids /\ rank[table[p]] < rank[p]

\* What the loop of orderedTree has built after k turns: nodes of processes that
\* are all different, level by level, each but the root below one visited.
Walk(q, k, rank, table) ==
    /\ q \in Seq(TreeNodes) /\ Len(q) > 0 /\ q[1].pid = RootPid
    /\ \A i \in 2 .. Len(q) :
           /\ rank[RootPid] < rank[q[i].pid]
           /\ \E j \in 1 .. Len(q) : j <= k /\ table[q[i].pid] = q[j].pid
    /\ \A i, j \in 1 .. Len(q) : q[i].pid = q[j].pid => i = j
    /\ \A i, j \in 1 .. Len(q) : i <= j => q[i].depth <= q[j].depth
    /\ \A i, j \in 1 .. Len(q) : k < j => q[i].depth <= q[j].depth + 1

LEMMA WalkBegins ==
    ASSUME NEW rank, NEW table, NEW p \in Int
    PROVE  Walk(<<Tree!Node(RootPid, p, 0)>>, 0, rank, table)
<1>1. Tree!Node(RootPid, p, 0) \in TreeNodes
      /\ Tree!Node(RootPid, p, 0).pid = RootPid /\ Tree!Node(RootPid, p, 0).depth = 0
  BY TreeAssumption DEF Tree!Node, TreeNodes
<1>. DEFINE q == <<Tree!Node(RootPid, p, 0)>>
<1>2. q \in Seq(TreeNodes) /\ Len(q) = 1 /\ q[1].pid = RootPid /\ q[1].depth = 0
  BY <1>1
<1>. HIDE DEF q
<1>3. Walk(q, 0, rank, table)
  BY <1>2 DEF Walk
<1>. QED  BY <1>3 DEF q

LEMMA WalkGoesOn ==
    ASSUME NEW k \in Nat, NEW rank, NEW table, Ranks(rank, table),
           NEW q, Walk(q, k, rank, table)
    PROVE  Walk(Tree!Visit(q, k + 1, table), k + 1, rank, table)
<1>1. CASE k + 1 > Len(q)
  <2>1. Tree!Visit(q, k + 1, table) = q
    BY <1>1 DEF Tree!Visit, Walk
  <2>2. Walk(q, k + 1, rank, table)
    BY DEF Walk
  <2>. QED  BY <2>1, <2>2
<1>2. CASE k + 1 <= Len(q)
  <2>. DEFINE n == q[k + 1]
              c == Tree!Children(n, table)
              r == q \o c
              m == Len(q)
  <2>1. /\ q \in Seq(TreeNodes) /\ m \in Nat /\ m > 0 /\ q[1].pid = RootPid
        /\ k + 1 \in 1 .. m /\ n \in TreeNodes
    BY <1>2 DEF Walk
  <2>2. /\ c \in Seq(TreeNodes) /\ Len(c) \in Nat
        /\ \A i \in 1 .. Len(c) : /\ c[i].pid \in DOMAIN table /\ table[c[i].pid] = n.pid
                                  /\ c[i].depth = n.depth + 1
        /\ \A i, j \in 1 .. Len(c) : c[i].pid = c[j].pid => i = j
    <3>1. DOMAIN table \subseteq Pids
      BY DEF Ranks
    <3>. HIDE DEF n
    <3>. QED  BY <2>1, <3>1, ChildrenAreNodes
  <2>3. Tree!Visit(q, k + 1, table) = r
    BY <1>2 DEF Tree!Visit
  <2>4. /\ r \in Seq(TreeNodes) /\ Len(r) = m + Len(c) /\ Len(r) \in Nat
        /\ \A i \in 1 .. m : r[i] = q[i] /\ i \in 1 .. Len(r)
        /\ \A i \in 1 .. Len(r) : i <= m => i \in 1 .. m
        /\ \A i \in 1 .. Len(r) : i > m => i - m \in 1 .. Len(c) /\ r[i] = c[i - m]
    <3>. HIDE DEF c
    <3>. QED  BY <2>1, <2>2
  <2>5. \A i \in 1 .. m : r[i].pid \in Pids /\ r[i].depth \in Nat
    <3>. SUFFICES ASSUME NEW i \in 1 .. m  PROVE r[i].pid \in Pids /\ r[i].depth \in Nat
      OBVIOUS
    <3>1. r[i] = q[i] /\ q[i] \in TreeNodes
      BY <2>1, <2>4
    <3>. HIDE DEF r
    <3>. QED  BY <3>1 DEF TreeNodes
  <2>6. n.depth \in Nat /\ n = r[k + 1] /\ rank[RootPid] <= rank[n.pid] /\ n.pid \in Pids
        /\ rank[n.pid] \in Int /\ rank[RootPid] \in Int
    <3>1. n.depth \in Nat /\ n.pid \in Pids
      BY <2>1 DEF TreeNodes
    <3>2. rank[n.pid] \in Int /\ rank[RootPid] \in Int
      BY <3>1, TreeAssumption DEF Ranks
    <3>3. k + 1 # 1 => rank[RootPid] < rank[n.pid]
      BY <2>1 DEF Walk
    <3>4. k + 1 = 1 => n.pid = RootPid
      BY <2>1
    <3>. HIDE DEF n, r
    <3>5. rank[RootPid] <= rank[n.pid]
      BY <3>2, <3>3, <3>4
    <3>. QED  BY <2>1, <2>4, <3>1, <3>2, <3>5 DEF n
  <2>. HIDE DEF r
  <2>7. \A i \in 1 .. Len(r) : i > m =>
            /\ r[i].pid \in DOMAIN table /\ table[r[i].pid] = n.pid
            /\ r[i].depth = n.depth + 1
            /\ rank[RootPid] < rank[r[i].pid]
    <3>. SUFFICES ASSUME NEW i \in 1 .. Len(r), i > m
                  PROVE  /\ r[i].pid \in DOMAIN table /\ table[r[i].pid] = n.pid
                         /\ r[i].depth = n.depth + 1
                         /\ rank[RootPid] < rank[r[i].pid]
      OBVIOUS
    <3>1. i - m \in 1 .. Len(c) /\ r[i] = c[i - m]
      BY <2>4
    <3>2. /\ r[i].pid \in DOMAIN table /\ table[r[i].pid] = n.pid
          /\ r[i].depth = n.depth + 1
      <4>. HIDE DEF c, n
      <4>. QED  BY <2>2, <3>1
    <3>3. rank[n.pid] < rank[r[i].pid] /\ rank[r[i].pid] \in Int
      <4>. HIDE DEF n
      <4>. QED  BY <3>2 DEF Ranks
    <3>. HIDE DEF n
    <3>. QED  BY <2>6, <3>2, <3>3
  <2>8. \A i \in 2 .. Len(r) :
            /\ rank[RootPid] < rank[r[i].pid]
            /\ \E j \in 1 .. Len(r) : j <= k + 1 /\ table[r[i].pid] = r[j].pid
    <3>. SUFFICES ASSUME NEW i \in 2 .. Len(r)
                  PROVE  /\ rank[RootPid] < rank[r[i].pid]
                         /\ \E j \in 1 .. Len(r) : j <= k + 1 /\ table[r[i].pid] = r[j].pid
      OBVIOUS
    <3>1. CASE i <= m
      <4>1. i \in 2 .. m /\ r[i] = q[i]
        BY <2>1, <2>4, <3>1
      <4>2. rank[RootPid] < rank[q[i].pid]
        BY <4>1 DEF Walk
      <4>3. PICK j \in 1 .. m : j <= k /\ table[q[i].pid] = q[j].pid
        BY <4>1 DEF Walk
      <4>4. j \in 1 .. Len(r) /\ j <= k + 1 /\ r[j] = q[j]
        BY <2>4, <4>3
      <4>. QED  BY <4>1, <4>2, <4>3, <4>4
    <3>2. CASE i > m
      <4>1. i \in 1 .. Len(r) /\ k + 1 \in 1 .. Len(r)
        BY <2>1, <2>4
      <4>. HIDE DEF n
      <4>. QED  BY <2>6, <2>7, <3>2, <4>1
    <3>. QED  BY <2>1, <3>1, <3>2
  <2>9. ASSUME NEW i \in 1 .. Len(r), NEW j \in 1 .. Len(r), i < j  PROVE r[i].pid # r[j].pid
    <3>1. CASE j <= m
      <4>1. i \in 1 .. m /\ j \in 1 .. m /\ r[i] = q[i] /\ r[j] = q[j] /\ i # j
        BY <2>1, <2>4, <2>9, <3>1
      <4>. QED  BY <4>1 DEF Walk
    <3>2. CASE i > m
      <4>1. i - m \in 1 .. Len(c) /\ r[i] = c[i - m] /\ j - m \in 1 .. Len(c) /\ r[j] = c[j - m]
            /\ i - m # j - m
        BY <2>1, <2>4, <2>9, <3>2
      <4>. HIDE DEF c
      <4>. QED  BY <2>2, <4>1
    <3>3. CASE i <= m /\ j > m
      <4>1. i \in 1 .. m /\ r[i] = q[i]
        BY <2>4, <3>3
      <4>2. table[r[j].pid] = n.pid /\ rank[RootPid] < rank[r[j].pid] /\ rank[RootPid] \in Int
        <5>. HIDE DEF n
        <5>. QED  BY <2>6, <2>7, <3>3
      <4>3. CASE i = 1
        <5>1. r[i].pid = RootPid
          BY <2>1, <4>1, <4>3
        <5>. QED  BY <4>2, <5>1
      <4>4. CASE i # 1
        <5>1. i \in 2 .. m
          BY <4>1, <4>4
        <5>2. PICK l \in 1 .. m : l <= k /\ table[q[i].pid] = q[l].pid
          BY <5>1 DEF Walk
        <5>3. q[l].pid # q[k + 1].pid
          BY <2>1, <5>2 DEF Walk
        <5>. QED  BY <4>1, <4>2, <5>2, <5>3
      <4>. QED  BY <4>3, <4>4
    <3>. QED  BY <2>1, <2>9, <3>1, <3>2, <3>3
  <2>10. \A i, j \in 1 .. Len(r) : r[i].pid = r[j].pid => i = j
    <3>. SUFFICES ASSUME NEW i \in 1 .. Len(r), NEW j \in 1 .. Len(r), r[i].pid = r[j].pid, i # j
                  PROVE  FALSE
      OBVIOUS
    <3>1. i < j \/ j < i
      OBVIOUS
    <3>. QED  BY <2>9, <3>1
  <2>11. \A i \in 1 .. m : q[i].depth \in Nat /\ q[i].depth <= n.depth + 1
    <3>1. \A i \in 1 .. m : q[i].depth \in Nat
      BY <2>4, <2>5
    <3>2. k < k + 1 /\ k + 1 \in 1 .. m
      BY <2>1
    <3>3. \A i \in 1 .. m : q[i].depth <= q[k + 1].depth + 1
      BY <3>2, Zenon DEF Walk
    <3>. QED  BY <3>1, <3>3
  <2>12. \A i \in k + 1 .. m : n.depth <= q[i].depth
    BY <2>1 DEF Walk
  <2>13. \A i, j \in 1 .. Len(r) : i <= j => r[i].depth <= r[j].depth
    <3>. SUFFICES ASSUME NEW i \in 1 .. Len(r), NEW j \in 1 .. Len(r), i <= j
                  PROVE  r[i].depth <= r[j].depth
      OBVIOUS
    <3>1. CASE j <= m
      <4>1. i \in 1 .. m /\ j \in 1 .. m /\ r[i] = q[i] /\ r[j] = q[j]
        BY <2>1, <2>4, <3>1
      <4>. QED  BY <4>1 DEF Walk
    <3>2. CASE j > m
      <4>. HIDE DEF n
      <4>1. r[j].depth = n.depth + 1
        BY <2>7, <3>2
      <4>2. CASE i <= m
        BY <2>4, <2>11, <4>1, <4>2
      <4>3. CASE i > m
        BY <2>6, <2>7, <4>1, <4>3
      <4>. QED  BY <2>1, <4>2, <4>3
    <3>. QED  BY <2>1, <3>1, <3>2
  <2>14. \A i, j \in 1 .. Len(r) : k + 1 < j => r[i].depth <= r[j].depth + 1
    <3>. SUFFICES ASSUME NEW i \in 1 .. Len(r), NEW j \in 1 .. Len(r), k + 1 < j
                  PROVE  r[i].depth <= r[j].depth + 1
      OBVIOUS
    <3>. HIDE DEF n
    <3>1. r[i].depth \in Nat /\ r[i].depth <= n.depth + 1
      <4>1. CASE i <= m
        <5>1. r[i] = q[i] /\ i \in 1 .. m
          BY <2>4, <4>1
        <5>. QED  BY <2>11, <5>1
      <4>2. CASE i > m
        BY <2>6, <2>7, <4>2
      <4>. QED  BY <2>1, <4>1, <4>2
    <3>2. r[j].depth \in Nat /\ n.depth <= r[j].depth
      <4>1. CASE j <= m
        <5>1. r[j] = q[j] /\ j \in k + 1 .. m /\ j \in 1 .. m
          BY <2>1, <2>4, <4>1
        <5>. QED  BY <2>11, <2>12, <5>1
      <4>2. CASE j > m
        BY <2>6, <2>7, <4>2
      <4>. QED  BY <2>1, <4>1, <4>2
    <3>. QED  BY <2>6, <3>1, <3>2
  <2>15. Len(r) > 0 /\ r[1].pid = RootPid
    BY <2>1, <2>2, <2>4
  <2>16. Walk(r, k + 1, rank, table)
    BY <2>4, <2>8, <2>10, <2>13, <2>14, <2>15 DEF Walk
  <2>. QED  BY <2>3, <2>16
<1>3. Len(q) \in Nat
  BY DEF Walk
<1>4. k + 1 > Len(q) \/ k + 1 <= Len(q)
  BY <1>3
<1>. QED  BY <1>1, <1>2, <1>4, Zenon

\* Links that ranks go down along are followed to an end.
LEMMA TreeIsWalked ==
    ASSUME NEW rank, NEW table, Ranks(rank, table)
    PROVE  /\ Tree!OrderedTree(RootPid, table).ends
           /\ Walk(Tree!OrderedTree(RootPid, table).nodes, Cardinality(Pids), rank, table)
<1>. DEFINE N == Cardinality(Pids)
            first == <<Tree!Node(RootPid, IF RootPid \in DOMAIN table THEN table[RootPid] ELSE -1, 0)>>
            S == Seq(TreeNodes)
            F == [k \in 1 .. N |-> [q \in S |-> Tree!Visit(q, k, table)]]
            Turns(f) == [k \in 0 .. N |->
                            IF k = 0 THEN first ELSE Tree!Visit(f[k - 1], k, table)]
            result == CHOOSE f : f = Turns(f)
<1>1. N \in Nat
  BY FS_CardinalityType, TreeAssumption
<1>2. Walk(first, 0, rank, table) /\ first \in S
  <2>1. (IF RootPid \in DOMAIN table THEN table[RootPid] ELSE -1) \in Int
    BY PidsAreNumbers DEF Ranks
  <2>2. Walk(first, 0, rank, table)
    BY <2>1, WalkBegins
  <2>. HIDE DEF first
  <2>. QED  BY <2>2 DEF Walk
<1>3. \A k \in 1 .. N, q \in S : Tree!Visit(q, k, table) \in S
  <2>. SUFFICES ASSUME NEW k \in 1 .. N, NEW q \in S  PROVE Tree!Visit(q, k, table) \in S
    OBVIOUS
  <2>1. CASE k <= Len(q)
    <3>1. q[k] \in TreeNodes /\ DOMAIN table \subseteq Pids
      BY <1>1, <2>1 DEF Ranks
    <3>2. Tree!Children(q[k], table) \in Seq(TreeNodes)
      BY <3>1, ChildrenAreNodes
    <3>3. Tree!Visit(q, k, table) = q \o Tree!Children(q[k], table)
      BY <2>1 DEF Tree!Visit
    <3>. QED  BY <3>2, <3>3
  <2>2. CASE ~ (k <= Len(q))
    BY <2>2 DEF Tree!Visit
  <2>. QED  BY <2>1, <2>2
<1>4. result = Turns(result)
  <2>1. F \in [1 .. N -> [S -> S]]
    <3>. HIDE DEF S
    <3>. QED  BY <1>3
  <2>2. PICK g : IsLoop(g, N, S, first, F)
    <3>1. first \in S
      BY <1>2
    <3>. HIDE DEF F, N, S, first
    <3>. QED  BY <1>1, <2>1, <3>1, LoopValues
  <2>3. g \in [0 .. N -> S] /\ g[0] = first /\ \A k \in 1 .. N : g[k] = F[k][g[k - 1]]
    BY <2>2, Zenon DEF IsLoop
  <2>4. ASSUME NEW k \in 1 .. N  PROVE g[k] = Tree!Visit(g[k - 1], k, table)
    <3>1. k - 1 \in 0 .. N
      BY <1>1
    <3>2. g[k - 1] \in S
      BY <2>3, <3>1
    <3>4. g[k] = F[k][g[k - 1]]
      <4>. HIDE DEF F
      <4>. QED  BY <2>3
    <3>5. F[k][g[k - 1]] = Tree!Visit(g[k - 1], k, table)
      <4>. HIDE DEF S
      <4>. QED  BY <3>2
    <3>. HIDE DEF F
    <3>. QED  BY <3>4, <3>5
  <2>5. g = Turns(g)
    <3>1. \A k \in 0 .. N : g[k] = IF k = 0 THEN first ELSE Tree!Visit(g[k - 1], k, table)
      <4>. HIDE DEF first, F
      <4>. QED  BY <1>1, <2>3, <2>4
    <3>2. g = [k \in 0 .. N |-> g[k]]
      BY <2>3
    <3>. HIDE DEF first, F, S
    <3>. QED  BY <3>1, <3>2
  <2>. HIDE DEF Turns
  <2>. QED  BY <2>5
<1>. DEFINE all == result[N]
<1>5. Tree!OrderedTree(RootPid, table) = [nodes |-> all, ends |-> Len(all) <= N]
  BY SameCardinality DEF Tree!OrderedTree
<1>6. result[0] = first /\ \A k \in 1 .. N : result[k] = Tree!Visit(result[k - 1], k, table)
  <2>. HIDE DEF result, first
  <2>. QED  BY <1>1, <1>4
<1>. HIDE DEF result, Turns, first
<1>. DEFINE K == {k \in 0 .. N : Walk(result[k], k, rank, table)}
<1>7. 0 \in K
  BY <1>1, <1>2, <1>6
<1>8. ASSUME NEW k \in 0 .. N - 1, k \in K  PROVE k + 1 \in K
  <2>1. k \in Nat /\ k + 1 \in 1 .. N /\ (k + 1) - 1 = k /\ Walk(result[k], k, rank, table)
    BY <1>1, <1>8
  <2>2. result[k + 1] = Tree!Visit(result[k], k + 1, table)
    BY <1>6, <2>1
  <2>3. Walk(result[k + 1], k + 1, rank, table)
    BY <2>1, <2>2, WalkGoesOn
  <2>. QED  BY <1>1, <2>1, <2>3
<1>9. Walk(all, N, rank, table)
  <2>1. N \in K
    <3>. HIDE DEF K, N
    <3>. QED  BY <1>1, <1>7, <1>8, UpTo
  <2>. QED  BY <2>1
<1>10. Len(all) <= N
  <2>. DEFINE pids == [i \in 1 .. Len(all) |-> all[i].pid]
  <2>. HIDE DEF all
  <2>1. all \in Seq(TreeNodes) /\ Len(all) \in Nat
        /\ \A i, j \in 1 .. Len(all) : all[i].pid = all[j].pid => i = j
    BY <1>9 DEF Walk
  <2>2. \A i \in 1 .. Len(all) : all[i].pid \in Pids
    <3>. SUFFICES ASSUME NEW i \in 1 .. Len(all)  PROVE all[i].pid \in Pids
      OBVIOUS
    <3>1. all[i] \in TreeNodes
      BY <2>1
    <3>. QED  BY <3>1 DEF TreeNodes
  <2>3. pids \in Injection(1 .. Len(all), Pids)
    BY <2>1, <2>2 DEF Injection, IsInjective
  <2>4. Cardinality(1 .. Len(all)) <= N
    <3>. HIDE DEF pids
    <3>. QED  BY <2>3, FS_Injection, TreeAssumption
  <2>5. Cardinality(1 .. Len(all)) = Len(all)
    <3>. DEFINE l == Len(all)
    <3>1. l \in Int /\ l >= 0 /\ 1 \in Int
      BY <2>1
    <3>. HIDE DEF l
    <3>2. Cardinality(1 .. l) = IF 1 > l THEN 0 ELSE l - 1 + 1
      BY <3>1, FS_Interval
    <3>3. Cardinality(1 .. l) = l
      BY <3>1, <3>2
    <3>. QED  BY <3>3 DEF l
  <2>. QED  BY <2>4, <2>5
<1>11. Tree!OrderedTree(RootPid, table).ends = (Len(all) <= N)
       /\ Tree!OrderedTree(RootPid, table).nodes = all
  <2>. HIDE DEF all, N
  <2>. QED  BY <1>5
<1>. HIDE DEF all
<1>. QED  BY <1>9, <1>10, <1>11, Zenon
\* The rows of the tab and where they hang: types, and the levels.
Tabs == [nodes : Seq(TreeNodes), byDepth : Seq(Pids), under : Seq(Pids \cup {0})]

\* Every level above d has a row.
Full(s, d) == \A e \in 0 .. d - 1 : \E j \in 1 .. Len(s) : s[j].depth = e

\* The i-th row hangs at the top, or below one of the level above.
HangsRight(s, under, i) ==
    IF s[i].depth = 0 THEN under[i] = 0
    ELSE \E j \in 1 .. Len(s) : s[j].depth = s[i].depth - 1 /\ under[i] = s[j].pid

\* What the tab holds after k of the nodes q: some of them, in their order; the
\* stack has a row of every level down to the last one's, if they all have one.
Hung(t, k, q) ==
    /\ t \in Tabs /\ Len(t.under) = Len(t.nodes)
    /\ \A i \in 1 .. Len(t.nodes) : \E j \in 1 .. k : t.nodes[i] = q[j]
    /\ \A i, j \in 1 .. Len(t.nodes) : t.nodes[i].pid = t.nodes[j].pid => i = j
    /\ \A i, j \in 1 .. Len(t.nodes) : i <= j => t.nodes[i].depth <= t.nodes[j].depth
    /\ Len(t.nodes) > 0 /\ Full(t.nodes, t.nodes[Len(t.nodes)].depth) =>
           /\ Len(t.byDepth) = t.nodes[Len(t.nodes)].depth + 1
           /\ \A e \in 0 .. t.nodes[Len(t.nodes)].depth :
                  \E j \in 1 .. Len(t.nodes) :
                      t.nodes[j].depth = e /\ t.nodes[j].pid = t.byDepth[e + 1]
    /\ \A i \in 1 .. Len(t.nodes) :
           Full(t.nodes, t.nodes[i].depth) => HangsRight(t.nodes, t.under, i)

\* What one row does to the tab.
LEMMA HangEffect ==
    ASSUME NEW t \in Tabs, Len(t.under) = Len(t.nodes), NEW row \in TreeNodes
    PROVE  LET u == Tree!Hang(t, row)
               m == Len(t.nodes)
               d == row.depth
           IN  /\ u \in Tabs /\ Len(u.nodes) = m + 1 /\ Len(u.under) = m + 1
               /\ \A i \in 1 .. m : u.nodes[i] = t.nodes[i] /\ u.under[i] = t.under[i]
               /\ u.nodes[m + 1] = row
               /\ u.under[m + 1] = IF d > 0 /\ Len(t.byDepth) >= d THEN t.byDepth[d] ELSE 0
               /\ Len(t.byDepth) >= d =>
                      /\ Len(u.byDepth) = d + 1
                      /\ \A e \in 1 .. d : u.byDepth[e] = t.byDepth[e]
                      /\ u.byDepth[d + 1] = row.pid
<1>. DEFINE s == t.nodes
            b == t.byDepth
            w == t.under
            d == row.depth
            kept == IF Len(b) > d THEN d ELSE Len(b)
            place == IF d > 0 /\ Len(b) >= d THEN b[d] ELSE 0
            u == [nodes |-> Append(s, row), byDepth |-> Append(SubSeq(b, 1, kept), row.pid),
                  under |-> Append(w, place)]
<1>1. Tree!Hang(t, row) = u
  BY DEF Tree!Hang
<1>2. /\ s \in Seq(TreeNodes) /\ b \in Seq(Pids) /\ w \in Seq(Pids \cup {0}) /\ Len(w) = Len(s)
      /\ row.pid \in Pids /\ d \in Nat
  BY DEF Tabs, TreeNodes
<1>. HIDE DEF s, b, w, d
<1>3. kept \in 0 .. Len(b) /\ (Len(b) >= d => kept = d)
  BY <1>2
<1>4. place \in Pids \cup {0}
  BY <1>2
<1>. HIDE DEF kept, place
<1>5. SubSeq(b, 1, kept) \in Seq(Pids) /\ Len(SubSeq(b, 1, kept)) = kept
      /\ \A e \in 1 .. kept : SubSeq(b, 1, kept)[e] = b[e]
  BY <1>2, <1>3
<1>. DEFINE c == SubSeq(b, 1, kept)
            b1 == Append(c, row.pid)
<1>6. b1 \in Seq(Pids) /\ Len(b1) = kept + 1 /\ b1[kept + 1] = row.pid
      /\ \A e \in 1 .. kept : b1[e] = b[e]
  <2>. HIDE DEF c
  <2>1. c \in Seq(Pids) /\ Len(c) = kept /\ \A e \in 1 .. kept : c[e] = b[e]
    BY <1>5 DEF c
  <2>. QED  BY <1>2, <1>3, <2>1
<1>7. /\ Append(s, row) \in Seq(TreeNodes) /\ Len(Append(s, row)) = Len(s) + 1
      /\ \A i \in 1 .. Len(s) : Append(s, row)[i] = s[i]
      /\ Append(s, row)[Len(s) + 1] = row
  BY <1>2
<1>8. /\ Append(w, place) \in Seq(Pids \cup {0}) /\ Len(Append(w, place)) = Len(s) + 1
      /\ \A i \in 1 .. Len(s) : Append(w, place)[i] = w[i]
      /\ Append(w, place)[Len(s) + 1] = place
  BY <1>2, <1>4
<1>9. u \in Tabs
  BY <1>6, <1>7, <1>8 DEF Tabs
<1>10. u.nodes = Append(s, row) /\ u.under = Append(w, place) /\ u.byDepth = b1
  OBVIOUS
<1>11. Len(b) >= d => Len(b1) = d + 1 /\ b1[d + 1] = row.pid /\ \A e \in 1 .. d : b1[e] = b[e]
  <2>. HIDE DEF b1
  <2>. QED  BY <1>3, <1>6
<1>. HIDE DEF u, b1
<1>12. /\ u \in Tabs /\ Len(u.nodes) = Len(s) + 1 /\ Len(u.under) = Len(s) + 1
       /\ \A i \in 1 .. Len(s) : u.nodes[i] = s[i] /\ u.under[i] = w[i]
       /\ u.nodes[Len(s) + 1] = row
       /\ u.under[Len(s) + 1] = place
       /\ Len(b) >= d => /\ Len(u.byDepth) = d + 1
                         /\ \A e \in 1 .. d : u.byDepth[e] = b[e]
                         /\ u.byDepth[d + 1] = row.pid
  BY <1>7, <1>8, <1>9, <1>10, <1>11
<1>. QED  BY <1>1, <1>12, Zenon DEF s, b, w, d, place

\* If every level above the row has one, the stack has one of each above it.
LEMMA StackReaches ==
    ASSUME NEW t, NEW k \in Nat, NEW q, Hung(t, k, q), NEW row \in TreeNodes, row.depth > 0,
           Full(Append(t.nodes, row), row.depth),
           \A i \in 1 .. Len(t.nodes) : t.nodes[i].depth <= row.depth
    PROVE  /\ Len(t.byDepth) >= row.depth
           /\ \A e \in 0 .. row.depth - 1 : \E j \in 1 .. Len(t.nodes) :
                  t.nodes[j].depth = e /\ t.nodes[j].pid = t.byDepth[e + 1]
<1>. DEFINE s == t.nodes
            d == row.depth
            m == Len(s)
<1>1. s \in Seq(TreeNodes) /\ m \in Nat /\ d \in Nat /\ t.byDepth \in Seq(Pids)
  BY DEF Hung, Tabs, TreeNodes
<1>2. \A j \in 1 .. m : s[j].depth \in Nat /\ Append(s, row)[j] = s[j]
  <2>. SUFFICES ASSUME NEW j \in 1 .. m  PROVE s[j].depth \in Nat /\ Append(s, row)[j] = s[j]
    OBVIOUS
  <2>. HIDE DEF s
  <2>1. s[j] \in TreeNodes /\ Append(s, row)[j] = s[j]
    BY <1>1
  <2>. QED  BY <2>1 DEF TreeNodes
<1>3. Full(s, d)
  <2>1. ASSUME NEW e \in 0 .. d - 1  PROVE \E j \in 1 .. Len(s) : s[j].depth = e
    <3>1. PICK j \in 1 .. Len(Append(s, row)) : Append(s, row)[j].depth = e
      BY DEF Full
    <3>2. Len(Append(s, row)) = m + 1 /\ Append(s, row)[m + 1] = row
      BY <1>1
    <3>3. j # m + 1
      BY <1>1, <3>1, <3>2
    <3>4. j \in 1 .. m
      BY <1>1, <3>1, <3>2, <3>3
    <3>. QED  BY <1>2, <3>1, <3>4
  <2>. QED  BY <2>1 DEF Full
<1>. DEFINE l == s[m].depth
<1>4. m \in 1 .. m /\ l \in Nat /\ d - 1 <= l /\ l <= d
  <2>1. d - 1 \in 0 .. d - 1
    BY <1>1
  <2>2. PICK j \in 1 .. m : s[j].depth = d - 1
    BY <1>3, <2>1 DEF Full
  <2>3. m \in 1 .. m /\ j <= m
    BY <1>1, <2>2
  <2>4. s[j].depth <= s[m].depth
    BY <2>3 DEF Hung
  <2>5. s[m].depth <= d
    BY <2>3
  <2>. QED  BY <1>2, <2>2, <2>3, <2>4, <2>5
<1>5. Full(s, l)
  <2>1. \A e \in 0 .. l - 1 : e \in 0 .. d - 1
    BY <1>1, <1>4
  <2>. QED  BY <1>3, <2>1 DEF Full
<1>6. Len(t.byDepth) = l + 1
      /\ \A e \in 0 .. l : \E j \in 1 .. m : s[j].depth = e /\ s[j].pid = t.byDepth[e + 1]
  <2>1. m > 0
    BY <1>1, <1>4
  <2>. QED  BY <1>5, <2>1 DEF Hung
<1>7. \A e \in 0 .. d - 1 : e \in 0 .. l
  BY <1>1, <1>4
<1>8. Len(t.byDepth) >= d
  <2>. HIDE DEF l, d, m
  <2>. QED  BY <1>1, <1>4, <1>6
<1>9. \A e \in 0 .. d - 1 : \E j \in 1 .. m : s[j].depth = e /\ s[j].pid = t.byDepth[e + 1]
  <2>. HIDE DEF l, d, m
  <2>. QED  BY <1>6, <1>7
<1>. QED  BY <1>8, <1>9

LEMMA HungBegins ==
    ASSUME NEW q
    PROVE  Hung([nodes |-> <<>>, byDepth |-> <<>>, under |-> <<>>], 0, q)
BY DEF Hung, Tabs

\* A node without a /proc entry has no row.
LEMMA HungWithout ==
    ASSUME NEW t, NEW k \in Nat, NEW q, Hung(t, k, q)
    PROVE  Hung(t, k + 1, q)
<1>1. \A j \in 1 .. k : j \in 1 .. k + 1
  OBVIOUS
<1>. QED  BY <1>1 DEF Hung

\* One more row keeps all of it.
LEMMA HungWith ==
    ASSUME NEW q \in Seq(TreeNodes), NEW k \in Nat, k + 1 <= Len(q), NEW t, Hung(t, k, q),
           \A i, j \in 1 .. Len(q) : q[i].pid = q[j].pid => i = j,
           \A i, j \in 1 .. Len(q) : i <= j => q[i].depth <= q[j].depth
    PROVE  Hung(Tree!Hang(t, q[k + 1]), k + 1, q)
<1>. DEFINE row == q[k + 1]
            u == Tree!Hang(t, row)
            s == t.nodes
            b == t.byDepth
            w == t.under
            m == Len(s)
            d == row.depth
            r == u.nodes
            x == u.under
            b1 == u.byDepth
<1>0. t \in Tabs /\ Len(t.under) = Len(t.nodes)
  BY DEF Hung
<1>1. row \in TreeNodes /\ k + 1 \in 1 .. Len(q)
  OBVIOUS
<1>2. d \in Nat /\ row.pid \in Pids
  <2>. HIDE DEF row
  <2>. QED  BY <1>1 DEF TreeNodes
<1>3. s \in Seq(TreeNodes) /\ m \in Nat /\ b \in Seq(Pids) /\ w \in Seq(Pids \cup {0}) /\ Len(w) = m
  BY <1>0 DEF Tabs
<1>4. /\ u \in Tabs /\ Len(r) = m + 1 /\ Len(x) = m + 1
      /\ \A i \in 1 .. m : r[i] = s[i] /\ x[i] = w[i]
      /\ r[m + 1] = row
      /\ x[m + 1] = IF d > 0 /\ Len(b) >= d THEN b[d] ELSE 0
      /\ Len(b) >= d =>
             /\ Len(b1) = d + 1
             /\ \A e \in 1 .. d : b1[e] = b[e]
             /\ b1[d + 1] = row.pid
  <2>. HIDE DEF row
  <2>. QED  BY <1>0, <1>1, HangEffect
<1>5. r \in Seq(TreeNodes)
  BY <1>4 DEF Tabs
<1>6. /\ \A i \in 1 .. m : \E j \in 1 .. k : s[i] = q[j]
      /\ \A i, j \in 1 .. m : s[i].pid = s[j].pid => i = j
      /\ \A i, j \in 1 .. m : i <= j => s[i].depth <= s[j].depth
      /\ \A i \in 1 .. m : Full(s, s[i].depth) => HangsRight(s, w, i)
  BY DEF Hung
<1>7. ASSUME NEW i \in 1 .. m
      PROVE  /\ s[i].pid # row.pid /\ s[i].depth <= d
             /\ \E j \in 1 .. k + 1 : s[i] = q[j]
  <2>. HIDE DEF s
  <2>1. PICK j \in 1 .. k : s[i] = q[j]
    BY <1>6
  <2>2. j \in 1 .. k + 1 /\ j \in 1 .. Len(q) /\ j # k + 1 /\ j <= k + 1
    BY <1>1, <2>1
  <2>. QED  BY <1>1, <2>1, <2>2
<1>8. ASSUME Full(Append(s, row), d), d > 0
      PROVE  /\ Len(b) >= d
             /\ \A e \in 0 .. d - 1 : \E j \in 1 .. m : s[j].depth = e /\ s[j].pid = b[e + 1]
  <2>. HIDE DEF row
  <2>. QED  BY <1>1, <1>7, <1>8, StackReaches
<1>9. k + 1 \in 1 .. k + 1 /\ row = q[k + 1]
  OBVIOUS
<1>. HIDE DEF r, x, b1, u, s, b, w, row
<1>10. \A i \in 1 .. m : s[i].depth \in Nat
  <2>. SUFFICES ASSUME NEW i \in 1 .. m  PROVE s[i].depth \in Nat
    OBVIOUS
  <2>1. s[i] \in TreeNodes
    BY <1>3
  <2>. QED  BY <2>1 DEF TreeNodes
<1>. HIDE DEF m, d
<1>11. /\ \A i \in 1 .. m : i \in 1 .. m + 1 /\ i < m + 1 /\ r[i] = s[i] /\ x[i] = w[i]
       /\ \A i \in 1 .. m + 1 : i = m + 1 \/ i \in 1 .. m
       /\ m + 1 \in 1 .. m + 1 /\ r[m + 1] = row
  BY <1>3, <1>4
<1>12. r = Append(s, row)
  BY <1>1, <1>3, <1>4, <1>5 DEF m
<1>13. \A i \in 1 .. m + 1 : \E j \in 1 .. k + 1 : r[i] = q[j]
  BY <1>7, <1>9, <1>11
<1>14. \A i, j \in 1 .. m + 1 : r[i].pid = r[j].pid => i = j
  <2>. SUFFICES ASSUME NEW i \in 1 .. m + 1, NEW j \in 1 .. m + 1, r[i].pid = r[j].pid
                PROVE  i = j
    OBVIOUS
  <2>1. CASE i \in 1 .. m /\ j \in 1 .. m
    BY <1>6, <1>11, <2>1
  <2>2. CASE i = m + 1 \/ j = m + 1
    BY <1>7, <1>11, <2>2
  <2>. QED  BY <1>11, <2>1, <2>2
<1>15. \A i, j \in 1 .. m + 1 : i <= j => r[i].depth <= r[j].depth
  <2>1. \A i \in 1 .. m : ~ (m + 1 <= i)
    BY <1>3
  <2>2. row.depth <= row.depth
    BY <1>2 DEF d
  <2>. QED  BY <1>6, <1>7, <1>11, <2>1, <2>2 DEF d
<1>16. ASSUME Full(r, d)
       PROVE  /\ Len(b) >= d /\ Len(b1) = d + 1
              /\ \A e \in 0 .. d : \E j \in 1 .. m + 1 : r[j].depth = e /\ r[j].pid = b1[e + 1]
  <2>1. Len(b) >= d
    <3>1. CASE d = 0
      BY <1>3, <3>1
    <3>2. CASE d # 0
      BY <1>2, <1>8, <1>12, <1>16, <3>2
    <3>. QED  BY <3>1, <3>2
  <2>2. ASSUME NEW e \in 0 .. d
        PROVE  \E j \in 1 .. m + 1 : r[j].depth = e /\ r[j].pid = b1[e + 1]
    <3>1. CASE e = d
      BY <1>4, <1>11, <2>1, <3>1 DEF d
    <3>2. CASE e # d
      <4>1. e \in 0 .. d - 1 /\ d > 0 /\ e + 1 \in 1 .. d
        BY <1>2, <3>2
      <4>2. PICK j \in 1 .. m : s[j].depth = e /\ s[j].pid = b[e + 1]
        BY <1>8, <1>12, <1>16, <4>1
      <4>3. b1[e + 1] = b[e + 1]
        BY <1>4, <2>1, <4>1
      <4>. QED  BY <1>11, <4>2, <4>3
    <3>. QED  BY <3>1, <3>2
  <2>. QED  BY <1>4, <2>1, <2>2
<1>17. ASSUME NEW i \in 1 .. m + 1, Full(r, r[i].depth)
       PROVE  HangsRight(r, x, i)
  <2>1. CASE i = m + 1
    <3>1. r[i] = row /\ r[i].depth = d /\ Full(r, d)
      BY <1>11, <1>17, <2>1 DEF d
    <3>2. CASE d = 0
      BY <1>4, <2>1, <3>1, <3>2 DEF HangsRight
    <3>3. CASE d # 0
      <4>1. d > 0 /\ d - 1 \in 0 .. d - 1 /\ (d - 1) + 1 = d
        BY <1>2, <3>3
      <4>2. /\ Len(b) >= d
            /\ \A e \in 0 .. d - 1 : \E j \in 1 .. m : s[j].depth = e /\ s[j].pid = b[e + 1]
        BY <1>8, <1>12, <3>1, <4>1
      <4>3. PICK j \in 1 .. m : s[j].depth = d - 1 /\ s[j].pid = b[(d - 1) + 1]
        BY <4>1, <4>2
      <4>4. x[i] = b[d]
        BY <1>4, <2>1, <4>1, <4>2
      <4>5. j \in 1 .. m + 1 /\ r[j].depth = d - 1 /\ x[i] = r[j].pid
        BY <1>11, <4>1, <4>3, <4>4
      <4>. QED  BY <1>4, <3>1, <3>3, <4>5 DEF HangsRight
    <3>. QED  BY <3>2, <3>3
  <2>2. CASE i \in 1 .. m
    <3>1. r[i] = s[i] /\ x[i] = w[i] /\ s[i].depth \in Nat /\ s[i].depth <= d
      BY <1>7, <1>10, <1>11, <2>2
    <3>2. Full(s, s[i].depth)
      <4>1. ASSUME NEW e \in 0 .. s[i].depth - 1  PROVE \E j \in 1 .. m : s[j].depth = e
        <5>1. PICK j \in 1 .. m + 1 : r[j].depth = e
          BY <1>4, <1>17, <3>1 DEF Full
        <5>2. CASE j = m + 1
          <6>1. d = e
            BY <1>11, <5>1, <5>2 DEF d
          <6>. QED  BY <3>1, <6>1
        <5>3. CASE j \in 1 .. m
          BY <1>11, <5>1, <5>3
        <5>. QED  BY <1>11, <5>2, <5>3
      <4>. QED  BY <4>1 DEF Full, m
    <3>3. HangsRight(s, w, i)
      BY <1>6, <2>2, <3>2
    <3>4. CASE s[i].depth = 0
      BY <3>1, <3>3, <3>4 DEF HangsRight
    <3>5. CASE s[i].depth # 0
      <4>1. PICK j \in 1 .. m : s[j].depth = s[i].depth - 1 /\ w[i] = s[j].pid
        BY <3>3, <3>5 DEF HangsRight, m
      <4>2. j \in 1 .. m + 1 /\ r[j] = s[j]
        BY <1>11
      <4>. QED  BY <1>4, <3>1, <3>5, <4>1, <4>2 DEF HangsRight
    <3>. QED  BY <3>4, <3>5
  <2>. QED  BY <1>11, <2>1, <2>2
<1>18. /\ u \in Tabs /\ Len(x) = Len(r)
       /\ Len(r) > 0 /\ Full(r, r[Len(r)].depth) =>
              /\ Len(b1) = r[Len(r)].depth + 1
              /\ \A e \in 0 .. r[Len(r)].depth :
                     \E j \in 1 .. Len(r) : r[j].depth = e /\ r[j].pid = b1[e + 1]
  <2>1. r[Len(r)].depth = d
    BY <1>4 DEF d
  <2>. QED  BY <1>4, <1>16, <2>1
<1>19. Hung(u, k + 1, q)
  <2>1. Len(r) = m + 1
    BY <1>4
  <2>2. /\ u \in Tabs /\ Len(x) = Len(r)
        /\ \A i \in 1 .. Len(r) : \E j \in 1 .. k + 1 : r[i] = q[j]
        /\ \A i, j \in 1 .. Len(r) : r[i].pid = r[j].pid => i = j
        /\ \A i, j \in 1 .. Len(r) : i <= j => r[i].depth <= r[j].depth
        /\ Len(r) > 0 /\ Full(r, r[Len(r)].depth) =>
               /\ Len(b1) = r[Len(r)].depth + 1
               /\ \A e \in 0 .. r[Len(r)].depth :
                      \E j \in 1 .. Len(r) : r[j].depth = e /\ r[j].pid = b1[e + 1]
        /\ \A i \in 1 .. Len(r) : Full(r, r[i].depth) => HangsRight(r, x, i)
    BY <1>13, <1>14, <1>15, <1>17, <1>18, <2>1
  <2>. QED  BY <2>2, Zenon DEF Hung, r, x, b1
<1>. QED  BY <1>19 DEF u, row

\* What the tab shows: every row a node of the walk, at its place.
LEMMA TabIsHung ==
    ASSUME NEW q \in Seq(TreeNodes), NEW alive,
           \A i, j \in 1 .. Len(q) : q[i].pid = q[j].pid => i = j,
           \A i, j \in 1 .. Len(q) : i <= j => q[i].depth <= q[j].depth
    PROVE  Hung(Tree!Tab(q, alive), Len(q), q)
<1>. DEFINE N == Len(q)
            first == [nodes |-> <<>>, byDepth |-> <<>>, under |-> <<>>]
            S == {t \in Tabs : Len(t.under) = Len(t.nodes)}
            Turn(t, k) == IF q[k].pid \in alive THEN Tree!Hang(t, q[k]) ELSE t
            F == [k \in 1 .. N |-> [t \in S |-> Turn(t, k)]]
            Turns(f) == [i \in 0 .. N |-> IF i = 0 THEN first ELSE Turn(f[i - 1], i)]
            tab == CHOOSE f : f = Turns(f)
<1>1. N \in Nat
  OBVIOUS
<1>2. Hung(first, 0, q) /\ first \in S
  <2>1. Hung(first, 0, q)
    BY HungBegins
  <2>. HIDE DEF first
  <2>. QED  BY <2>1 DEF Hung
<1>3. \A k \in 1 .. N, t \in S : Turn(t, k) \in S
  <2>. SUFFICES ASSUME NEW k \in 1 .. N, NEW t \in S  PROVE Turn(t, k) \in S
    OBVIOUS
  <2>1. Tree!Hang(t, q[k]) \in S
    <3>1. q[k] \in TreeNodes /\ t \in Tabs /\ Len(t.under) = Len(t.nodes)
      BY <1>1
    <3>2. /\ Tree!Hang(t, q[k]) \in Tabs /\ Len(Tree!Hang(t, q[k]).nodes) = Len(t.nodes) + 1
          /\ Len(Tree!Hang(t, q[k]).under) = Len(t.nodes) + 1
      BY <3>1, HangEffect
    <3>. QED  BY <3>2
  <2>. HIDE DEF S
  <2>. QED  BY <2>1
<1>4. tab = Turns(tab)
  <2>1. F \in [1 .. N -> [S -> S]]
    <3>. HIDE DEF S, Turn
    <3>. QED  BY <1>3
  <2>2. PICK g : IsLoop(g, N, S, first, F)
    <3>1. first \in S
      BY <1>2
    <3>. HIDE DEF F, N, S, first
    <3>. QED  BY <1>1, <2>1, <3>1, LoopValues
  <2>3. g \in [0 .. N -> S] /\ g[0] = first /\ \A k \in 1 .. N : g[k] = F[k][g[k - 1]]
    BY <2>2, Zenon DEF IsLoop
  <2>4. ASSUME NEW k \in 1 .. N  PROVE g[k] = Turn(g[k - 1], k)
    <3>1. k - 1 \in 0 .. N
      BY <1>1
    <3>2. g[k - 1] \in S
      BY <2>3, <3>1
    <3>3. g[k] = F[k][g[k - 1]]
      <4>. HIDE DEF F
      <4>. QED  BY <2>3
    <3>4. F[k][g[k - 1]] = Turn(g[k - 1], k)
      <4>. HIDE DEF S, Turn
      <4>. QED  BY <3>2
    <3>. HIDE DEF F, Turn
    <3>. QED  BY <3>3, <3>4
  <2>5. g = Turns(g)
    <3>1. \A k \in 0 .. N : g[k] = IF k = 0 THEN first ELSE Turn(g[k - 1], k)
      <4>. HIDE DEF first, F, Turn
      <4>. QED  BY <1>1, <2>3, <2>4
    <3>2. g = [k \in 0 .. N |-> g[k]]
      BY <2>3
    <3>. HIDE DEF first, F, S, Turn
    <3>. QED  BY <3>1, <3>2
  <2>. HIDE DEF Turns
  <2>. QED  BY <2>5
<1>5. Tree!Tab(q, alive) = tab[N]
  BY DEF Tree!Tab
<1>6. tab[0] = first /\ \A k \in 1 .. N : tab[k] = Turn(tab[k - 1], k)
  <2>. HIDE DEF tab, first, Turn
  <2>. QED  BY <1>1, <1>4
<1>. HIDE DEF tab, Turns, first
<1>. DEFINE K == {k \in 0 .. N : Hung(tab[k], k, q)}
<1>7. 0 \in K
  BY <1>1, <1>2, <1>6
<1>8. ASSUME NEW k \in 0 .. N - 1, k \in K  PROVE k + 1 \in K
  <2>1. k \in Nat /\ k + 1 \in 1 .. N /\ k + 1 <= N /\ (k + 1) - 1 = k /\ Hung(tab[k], k, q)
    BY <1>1, <1>8
  <2>2. tab[k + 1] = Turn(tab[k], k + 1)
    <3>. HIDE DEF Turn
    <3>. QED  BY <1>6, <2>1
  <2>3. Hung(Tree!Hang(tab[k], q[k + 1]), k + 1, q)
    BY <2>1, HungWith
  <2>4. Hung(tab[k], k + 1, q)
    BY <2>1, HungWithout
  <2>5. Hung(tab[k + 1], k + 1, q)
    BY <2>2, <2>3, <2>4
  <2>. QED  BY <1>1, <2>1, <2>5
<1>9. N \in K
  <2>. HIDE DEF K, N
  <2>. QED  BY <1>1, <1>7, <1>8, UpTo
<1>. QED  BY <1>5, <1>9

-----------------------------------------------------------------------------
(* The invariant: kernel and links have ranks, as long as no pid of a link *)
(* was given out again.                                                    *)

\* Ranks that the links and the kernel's parents go down along, to init.
Ranked(rank) ==
    /\ rank \in [Pids -> Int]
    /\ \A p \in DOMAIN parent \ {1} : rank[parent[p]] < rank[p]
    /\ \A p \in DOMAIN links : rank[links[p]] < rank[p]
    /\ \A p \in Pids \ {1} : rank[1] < rank[p]

KernelIsTree ==
    /\ DOMAIN parent \subseteq Pids /\ 1 \in DOMAIN parent /\ parent[1] = 0
    /\ \A p \in DOMAIN parent \ {1} : parent[p] \in DOMAIN parent

TreeInv ==
    /\ KernelIsTree
    /\ unread \subseteq Pids /\ reused \in BOOLEAN
    /\ DOMAIN links \subseteq Pids /\ \A p \in DOMAIN links : links[p] \in Pids
    /\ ~reused => \E rank : Ranked(rank)
    /\ Tree!TreeIsShown

LEMMA TreeInit ==
    ASSUME Tree!Init  PROVE TreeInv
<1>1. PICK kin \in SUBSET (Pids \ {1, RootPid}) :
          parent = [p \in {1, RootPid} \cup kin |->
                       IF p = 1 THEN 0 ELSE IF p = RootPid THEN 1 ELSE RootPid]
  BY Zenon DEF Tree!Init
<1>2. 1 \in Pids /\ RootPid \in Pids /\ 0 \notin Pids
  BY TreeAssumption
<1>3. unread = DOMAIN parent \ {1} /\ links = <<>> /\ reused = FALSE /\ rows = {}
  BY DEF Tree!Init
<1>. DEFINE rank == [p \in Pids |-> IF p = 1 THEN 0 ELSE IF p = RootPid THEN 1 ELSE 2]
<1>4. KernelIsTree
  BY <1>1, <1>2 DEF KernelIsTree
<1>5. DOMAIN links = {}
  BY <1>3
<1>6. Ranked(rank)
  BY <1>1, <1>2, <1>5 DEF Ranked
<1>7. Tree!TreeIsShown
  BY <1>3 DEF Tree!TreeIsShown
<1>. HIDE DEF rank
<1>. QED  BY <1>3, <1>4, <1>5, <1>6, <1>7 DEF TreeInv, KernelIsTree

\* Nothing changes what is shown but Tree!Publish.
LEMMA TreeStaysShown ==
    ASSUME Tree!TreeIsShown, UNCHANGED rows, UNCHANGED reused \/ rows = {}  PROVE Tree!TreeIsShown'
BY DEF Tree!TreeIsShown

LEMMA ReadKeepsTree ==
    ASSUME TreeInv, NEW p \in Pids, Tree!ReadParent(p)  PROVE TreeInv'
<1>1. unread' \subseteq Pids /\ UNCHANGED <<parent, reused, rows>>
  BY DEF Tree!ReadParent, TreeInv
<1>2. KernelIsTree' /\ Tree!TreeIsShown'
  BY <1>1, TreeStaysShown DEF TreeInv, KernelIsTree
<1>3. CASE links' = links
  BY <1>1, <1>2, <1>3 DEF TreeInv, Ranked
<1>4. CASE links' = Tree!With(links, p, parent[p]) /\ p \in DOMAIN parent /\ parent[p] > 0
  <2>1. p # 1 /\ parent[p] \in Pids
    BY <1>4 DEF TreeInv, KernelIsTree
  <2>2. /\ DOMAIN links' = DOMAIN links \cup {p} /\ links'[p] = parent[p]
        /\ \A q \in DOMAIN links \ {p} : links'[q] = links[q]
    BY <1>4 DEF Tree!With
  <2>3. DOMAIN links' \subseteq Pids /\ \A q \in DOMAIN links' : links'[q] \in Pids
    BY <2>1, <2>2 DEF TreeInv
  <2>4. ASSUME NEW rank, Ranked(rank)  PROVE Ranked(rank)'
    BY <1>1, <1>4, <2>1, <2>2, <2>4 DEF Ranked
  <2>. QED  BY <1>1, <1>2, <2>3, <2>4 DEF TreeInv
<1>. QED  BY <1>3, <1>4 DEF Tree!ReadParent

LEMMA ExitKeepsTree ==
    ASSUME TreeInv, NEW p \in Pids, Tree!Exit(p)  PROVE TreeInv'
<1>1. /\ p \in DOMAIN parent \ {1} /\ rows = {} /\ UNCHANGED <<unread, links, reused, rows>>
      /\ parent' = [q \in DOMAIN parent \ {p} |-> IF parent[q] = p THEN 1 ELSE parent[q]]
  BY DEF Tree!Exit
<1>2. /\ DOMAIN parent' = DOMAIN parent \ {p}
      /\ \A q \in DOMAIN parent \ {p} : parent'[q] = IF parent[q] = p THEN 1 ELSE parent[q]
  BY <1>1
<1>3. p # 0
  BY PidsAreNumbers
<1>4. KernelIsTree'
  BY <1>1, <1>2, <1>3 DEF TreeInv, KernelIsTree
<1>5. Tree!TreeIsShown'
  BY <1>1, TreeStaysShown DEF TreeInv
<1>6. ASSUME NEW rank, Ranked(rank)  PROVE Ranked(rank)'
  <2>1. \A q \in DOMAIN parent' \ {1} : rank[parent'[q]] < rank[q]
    BY <1>1, <1>2, <1>6 DEF Ranked, TreeInv, KernelIsTree
  <2>. QED  BY <1>1, <1>6, <2>1 DEF Ranked
<1>. QED  BY <1>1, <1>4, <1>5, <1>6 DEF TreeInv

LEMMA ForkKeepsTree ==
    ASSUME TreeInv, NEW p \in Pids, NEW kid \in Pids, Tree!Fork(p, kid)
    PROVE  TreeInv'
<1>1. /\ p \in DOMAIN parent /\ kid \notin DOMAIN parent /\ rows = {}
      /\ parent' = Tree!With(parent, kid, p)
      /\ reused' = (reused \/ kid \in DOMAIN links \cup {links[q] : q \in DOMAIN links})
      /\ UNCHANGED <<unread, links, rows>>
  BY DEF Tree!Fork
<1>2. /\ DOMAIN parent' = DOMAIN parent \cup {kid} /\ parent'[kid] = p
      /\ \A q \in DOMAIN parent : parent'[q] = parent[q]
  BY <1>1 DEF Tree!With
<1>3. KernelIsTree'
  BY <1>1, <1>2 DEF TreeInv, KernelIsTree
<1>4. Tree!TreeIsShown'
  BY <1>1, TreeStaysShown DEF TreeInv
<1>5. ASSUME ~reused'  PROVE \E rank : Ranked(rank)'
  <2>1. /\ ~reused /\ kid \notin DOMAIN links
        /\ \A q \in DOMAIN links : links[q] # kid
    BY <1>1, <1>5
  <2>2. PICK rank : Ranked(rank)
    BY <2>1 DEF TreeInv
  <2>. DEFINE new == [rank EXCEPT ![kid] = rank[p] + 1]
  <2>3. /\ new \in [Pids -> Int] /\ new[kid] = rank[p] + 1 /\ rank[p] \in Int
        /\ \A q \in Pids \ {kid} : new[q] = rank[q] /\ rank[q] \in Int
    BY <2>2 DEF Ranked
  <2>. HIDE DEF new
  <2>4. \A q \in DOMAIN parent \ {1} : q # kid /\ parent[q] # kid
                                       /\ parent[q] \in Pids /\ q \in Pids /\ rank[parent[q]] < rank[q]
    BY <1>1, <2>2 DEF TreeInv, KernelIsTree, Ranked
  <2>5. p # kid /\ kid # 1 /\ 1 \in Pids
    BY <1>1 DEF TreeInv, KernelIsTree
  <2>6. \A q \in DOMAIN parent' \ {1} : new[parent'[q]] < new[q]
    BY <1>2, <2>3, <2>4, <2>5
  <2>7. \A q \in DOMAIN links' : new[links'[q]] < new[q]
    BY <1>1, <2>1, <2>2, <2>3 DEF TreeInv, Ranked
  <2>8. \A q \in Pids \ {1} : new[1] < new[q]
    <3>1. p = 1 \/ rank[1] < rank[p]
      BY <2>2 DEF Ranked
    <3>2. \A q \in Pids \ {1} : rank[1] < rank[q]
      BY <2>2 DEF Ranked
    <3>. QED  BY <2>3, <2>5, <3>1, <3>2
  <2>. QED  BY <2>3, <2>6, <2>7, <2>8 DEF Ranked
<1>6. unread' \subseteq Pids /\ reused' \in BOOLEAN
      /\ DOMAIN links' \subseteq Pids /\ \A q \in DOMAIN links' : links'[q] \in Pids
  BY <1>1 DEF TreeInv
<1>. QED  BY <1>3, <1>4, <1>5, <1>6 DEF TreeInv

\* What Tree!TreeIsShown says of a snapshot.
IsShown(r) ==
    /\ r.ends
    /\ \A i, j \in DOMAIN r.nodes : r.nodes[i].pid = r.nodes[j].pid => i = j
    /\ \A i \in DOMAIN r.nodes :
           (\A d \in 0 .. r.nodes[i].depth - 1 : {j \in DOMAIN r.nodes : r.nodes[j].depth = d} # {}) =>
               LET depth == r.nodes[i].depth
                   pidsAbove == {r.nodes[j].pid : j \in {j \in DOMAIN r.nodes : r.nodes[j].depth = depth - 1}}
               IN  IF depth = 0 THEN r.under[i] = 0
                   ELSE /\ r.under[i] \in pidsAbove
                        /\ pidsAbove = {r.nodes[i].ppid} => r.under[i] = r.nodes[i].ppid

LEMMA PublishKeepsTree ==
    ASSUME TreeInv, Tree!Publish  PROVE TreeInv'
<1>. DEFINE tree == Tree!OrderedTree(RootPid, links)
            tab == Tree!Tab(tree.nodes, DOMAIN parent)
            r == [ends |-> tree.ends, nodes |-> tab.nodes, under |-> tab.under]
<1>1. rows' = {r} /\ UNCHANGED <<parent, births, unread, links, reused>>
  BY Zenon DEF Tree!Publish
<1>2. ASSUME ~reused
      PROVE  /\ r.ends
             /\ \A i, j \in DOMAIN r.nodes : r.nodes[i].pid = r.nodes[j].pid => i = j
             /\ \A i \in DOMAIN r.nodes :
                    Full(r.nodes, r.nodes[i].depth) => HangsRight(r.nodes, r.under, i)
             /\ r.nodes \in Seq(TreeNodes)
  <2>1. PICK rank : Ranked(rank)
    BY <1>2 DEF TreeInv
  <2>2. Ranks(rank, links)
    BY <2>1 DEF Ranked, Ranks, TreeInv
  <2>3. tree.ends /\ Walk(tree.nodes, Cardinality(Pids), rank, links)
    BY <2>2, TreeIsWalked
  <2>. HIDE DEF tree
  <2>4. Hung(tab, Len(tree.nodes), tree.nodes)
    BY <2>3, TabIsHung DEF Walk
  <2>. HIDE DEF tab
  <2>5. /\ tab.nodes \in Seq(TreeNodes) /\ DOMAIN tab.nodes = 1 .. Len(tab.nodes)
        /\ \A i, j \in 1 .. Len(tab.nodes) : tab.nodes[i].pid = tab.nodes[j].pid => i = j
        /\ \A i \in 1 .. Len(tab.nodes) :
               Full(tab.nodes, tab.nodes[i].depth) => HangsRight(tab.nodes, tab.under, i)
    <3>1. tab.nodes \in Seq(TreeNodes)
      BY <2>4 DEF Hung, Tabs
    <3>. QED  BY <2>4, <3>1 DEF Hung
  <2>6. r.ends = tree.ends /\ r.nodes = tab.nodes /\ r.under = tab.under
    OBVIOUS
  <2>. HIDE DEF r
  <2>. QED  BY <2>3, <2>5, <2>6
<1>. HIDE DEF r
<1>3. ASSUME ~reused, NEW i \in DOMAIN r.nodes,
             \A d \in 0 .. r.nodes[i].depth - 1 : {j \in DOMAIN r.nodes : r.nodes[j].depth = d} # {}
      PROVE  LET depth == r.nodes[i].depth
                 pidsAbove == {r.nodes[j].pid : j \in {j \in DOMAIN r.nodes : r.nodes[j].depth = depth - 1}}
             IN  IF depth = 0 THEN r.under[i] = 0
                 ELSE /\ r.under[i] \in pidsAbove
                      /\ pidsAbove = {r.nodes[i].ppid} => r.under[i] = r.nodes[i].ppid
  <2>. DEFINE s == r.nodes
  <2>1. DOMAIN s = 1 .. Len(s)
    BY <1>2, <1>3
  <2>2. Full(s, s[i].depth)
    BY <1>3, <2>1 DEF Full
  <2>3. HangsRight(s, r.under, i)
    BY <1>2, <1>3, <2>2
  <2>4. CASE s[i].depth = 0
    BY <2>3, <2>4 DEF HangsRight
  <2>5. CASE s[i].depth # 0
    <3>1. PICK j \in 1 .. Len(s) : s[j].depth = s[i].depth - 1 /\ r.under[i] = s[j].pid
      BY <2>3, <2>5 DEF HangsRight
    <3>. QED  BY <2>1, <2>5, <3>1
  <2>. QED  BY <2>4, <2>5
<1>4. Tree!TreeIsShown'
  <2>1. \A t \in rows' : t = r
    BY <1>1
  <2>2. reused' = reused
    BY <1>1
  <2>3. ~reused => IsShown(r)
    BY <1>2, <1>3, Zenon DEF IsShown
  <2>4. Tree!TreeIsShown' <=> \A t \in rows' : ~reused' => IsShown(t)
    BY Zenon DEF Tree!TreeIsShown, IsShown
  <2>. QED  BY <2>1, <2>2, <2>3, <2>4
<1>. QED  BY <1>1, <1>4 DEF TreeInv, KernelIsTree, Ranked

LEMMA TreeStep ==
    ASSUME TreeInv, [Tree!Next]_(Tree!vars)  PROVE TreeInv'
<1>1. CASE UNCHANGED Tree!vars
  BY <1>1 DEF Tree!vars, TreeInv, KernelIsTree, Ranked, Tree!TreeIsShown
<1>2. CASE Tree!Publish
  BY <1>2, PublishKeepsTree
<1>3. ASSUME NEW p \in Pids, Tree!ReadParent(p) \/ Tree!Exit(p) \/ \E kid \in Pids : Tree!Fork(p, kid)
      PROVE  TreeInv'
  BY <1>3, ReadKeepsTree, ExitKeepsTree, ForkKeepsTree
<1>. QED  BY <1>1, <1>2, <1>3, Zenon DEF Tree!Next
=============================================================================
