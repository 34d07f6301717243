----------------------------- MODULE TableProofs -----------------------------
(***************************************************************************)
(* Inductive invariants of the parts that keep tables, each part by itself: *)
(* RateTrackers, SbomSource, Configuration, ServicesSource, JournalSource,  *)
(* SloTracker and Watchdog.                                                 *)
(***************************************************************************)
EXTENDS Tables, FiniteSetTheorems, WellFoundedInduction, TLAPS

-----------------------------------------------------------------------------
(* RateTrackers: a reading never claims more than was moved before it.      *)

\* A reading against the count and the movement of now.
Fair(reading, count, real) ==
    /\ reading.count \in Nat /\ reading.moved \in Nat /\ reading.at \in Nat
    /\ reading.moved <= real /\ count - reading.count <= real - reading.moved

CountOf(k) == IF k \in DOMAIN counter THEN counter[k] ELSE 0

Counters ==
    /\ tracker \in {"entries", "listing", "threads", "total"}
    /\ now \in Nat
    /\ counter \in [DOMAIN counter -> Nat] /\ DOMAIN counter \subseteq CounterKeys
    /\ moved \in [CounterKeys -> Nat]
    /\ IsFiniteSet(Rates!Units(counter)) /\ IsFiniteSet(Rates!Units(moved))

\* The three trackers that read key by key.
EntriesFair ==
    tracker # "total" =>
        \A k \in DOMAIN last :
            /\ k \in CounterKeys /\ Fair(last[k], CountOf(k), moved[k])
            /\ tracker # "entries" => last[k].at = since

\* The one that reads totals, unless its reading failed.
TotalFair ==
    tracker = "total" =>
        /\ last # <<>> => DOMAIN last = {"all"} /\ "gap" \in DOMAIN last.all
        /\ \A k \in DOMAIN last :
               last[k].gap \/ (/\ Fair(last[k], Rates!SumOver(counter), Rates!SumOver(moved))
                               /\ last[k].at = since)

RatesInv == Counters /\ EntriesFair /\ TotalFair /\ Rates!RatesCoverTheirTime

\* The rate of a fair reading is covered by what was moved.
LEMMA FairRate ==
    ASSUME now \in Nat, NEW old, NEW count \in Nat, NEW real \in Nat, Fair(old, count, real),
           NEW time, time = now - old.at,
           NEW new, new.count = count, new.moved = real, NEW r, r = Rates!Rate(old, new, time)
    PROVE  r.amount <= r.real /\ r.time = r.took
<1>2. /\ r.amount = Rates!Gain(old.count, count, time) /\ r.real = real - old.moved
      /\ r.time = time /\ r.took = now - old.at
  BY DEF Rates!Rate
<1>3. /\ old.count \in Nat /\ old.moved \in Nat /\ old.at \in Nat
      /\ old.moved <= real /\ count - old.count <= real - old.moved
  BY Zenon DEF Fair
<1>. QED  BY <1>2, <1>3 DEF Rates!Gain

\* A fresh reading is fair, and stays so while count and movement grow together
\* or the count starts again.
LEMMA FreshIsFair ==
    ASSUME now \in Nat, NEW count \in Nat, NEW real \in Nat, NEW gap,
           NEW new, new = Rates!Reading(count, real, gap)
    PROVE  Fair(new, count, real) /\ new.at = now
BY DEF Fair, Rates!Reading

LEMMA FairStaysFair ==
    ASSUME NEW r, NEW c \in Int, NEW m \in Int, NEW c1 \in Int, NEW m1 \in Int,
           Fair(r, c, m), m <= m1, c1 - c <= m1 - m
    PROVE  Fair(r, c1, m1)
BY DEF Fair

\* What a step of the kernel does to the sums.
LEMMA UnitIsAdded ==
    ASSUME NEW table, table \in [DOMAIN table -> Nat], NEW k \in DOMAIN table,
           IsFiniteSet(Rates!Units(table)), NEW more, more = [table EXCEPT ![k] = table[k] + 1]
    PROVE  /\ IsFiniteSet(Rates!Units(more))
           /\ Rates!SumOver(table) \in Nat /\ Rates!SumOver(more) = Rates!SumOver(table) + 1
<1>1. Rates!Units(more) = Rates!Units(table) \cup {<<k, table[k] + 1>>}
  <2>1. DOMAIN more = DOMAIN table /\ more[k] = table[k] + 1 /\ \A j \in DOMAIN table \ {k} : more[j] = table[j]
    OBVIOUS
  <2>2. 1 .. table[k] + 1 = (1 .. table[k]) \cup {table[k] + 1}
    OBVIOUS
  <2>3. ASSUME NEW j \in DOMAIN table
        PROVE  {j} \X (1 .. more[j]) = IF j = k THEN ({j} \X (1 .. table[j])) \cup {<<k, table[k] + 1>>}
                                       ELSE {j} \X (1 .. table[j])
    BY <2>1, <2>2
  <2>. QED  BY <2>1, <2>3 DEF Rates!Units
<1>2. <<k, table[k] + 1>> \notin Rates!Units(table)
  BY DEF Rates!Units
<1>3. \A S : Rates!Cardinality(S) = Cardinality(S)
  BY Zenon DEF Cardinality, Rates!Cardinality
<1> DEFINE U == Rates!Units(table)
           x == <<k, table[k] + 1>>
<1>4. Rates!SumOver(table) = Cardinality(U) /\ Rates!SumOver(more) = Cardinality(U \cup {x})
  BY <1>1, <1>3, Zenon DEF Rates!SumOver
<1>5. IsFiniteSet(U) /\ x \notin U
  BY <1>2
<1> HIDE DEF U, x
<1>6. Cardinality(U) \in Nat
  BY <1>5, FS_CardinalityType
<1>7. IsFiniteSet(U \cup {x}) /\ Cardinality(U \cup {x}) = Cardinality(U) + 1
  BY <1>5, FS_AddElement
<1>8. Rates!Units(more) = U \cup {x}
  BY <1>1 DEF U, x
<1>. QED  BY <1>4, <1>6, <1>7, <1>8

LEMMA FewerUnits ==
    ASSUME NEW table, NEW fewer, IsFiniteSet(Rates!Units(table)),
           DOMAIN fewer \subseteq DOMAIN table, \A k \in DOMAIN fewer : fewer[k] = table[k]
    PROVE  /\ IsFiniteSet(Rates!Units(fewer))
           /\ Rates!SumOver(fewer) \in Nat /\ Rates!SumOver(table) \in Nat
           /\ Rates!SumOver(fewer) <= Rates!SumOver(table)
<1>1. Rates!Units(fewer) \subseteq Rates!Units(table)
  BY Zenon DEF Rates!Units
<1>2. \A S : Rates!Cardinality(S) = Cardinality(S)
  BY Zenon DEF Cardinality, Rates!Cardinality
<1>. QED  BY <1>1, <1>2, FS_Subset, FS_CardinalityType DEF Rates!SumOver

LEMMA ZeroHasNoUnit ==
    ASSUME NEW table, NEW k, k \notin DOMAIN table,
           NEW wider, wider = [j \in DOMAIN table \cup {k} |-> IF j = k THEN 0 ELSE table[j]]
    PROVE  Rates!Units(wider) = Rates!Units(table)
<1>1. {k} \X (1 .. 0) = {}
  OBVIOUS
<1>2. \A j \in DOMAIN wider : {j} \X (1 .. wider[j]) = IF j = k THEN {} ELSE {j} \X (1 .. table[j])
  BY <1>1
<1>. QED  BY <1>2 DEF Rates!Units

LEMMA RatesInvInit ==
    ASSUME Rates!Init  PROVE RatesInv
<1>1. /\ tracker \in {"entries", "listing", "threads", "total"}
      /\ now = 0 /\ counter = <<>> /\ moved = [k \in CounterKeys |-> 0] /\ last = <<>> /\ shown = {}
  BY DEF Rates!Init
<1>2. Rates!Units(counter) = {} /\ Rates!Units(moved) = {}
  <2>1. \A k \in CounterKeys : {k} \X (1 .. moved[k]) = {}
    BY <1>1
  <2>. QED  BY <1>1, <2>1 DEF Rates!Units
<1>3. IsFiniteSet(Rates!Units(counter)) /\ IsFiniteSet(Rates!Units(moved))
  BY <1>2, FS_EmptySet, Zenon
<1>4. counter \in [DOMAIN counter -> Nat] /\ DOMAIN counter \subseteq CounterKeys
  BY <1>1
<1>5. moved \in [CounterKeys -> Nat] /\ now \in Nat
  BY <1>1
<1>6. Counters
  BY <1>1, <1>3, <1>4, <1>5, Zenon DEF Counters
<1>7. (\A k : k \notin DOMAIN last) /\ (\A r : r \notin shown)
  BY <1>1
<1>8. TotalFair
  BY <1>1, <1>7, Zenon DEF TotalFair
<1>9. EntriesFair /\ Rates!RatesCoverTheirTime
  BY <1>7, Zenon DEF EntriesFair, Rates!RatesCoverTheirTime
<1>. QED  BY <1>6, <1>8, <1>9, Zenon DEF RatesInv

\* The world moves: keys come and go, and count.
LEMMA WorldStep ==
    ASSUME RatesInv, Rates!Move \/ Rates!Appear \/ Rates!Vanish \/ Rates!Elapse
    PROVE  RatesInv'
<1>1. UNCHANGED <<tracker, last, since, shown>>
  BY Zenon DEF Rates!Move, Rates!Appear, Rates!Vanish, Rates!Elapse
<1>2. Rates!RatesCoverTheirTime'
  BY <1>1, Zenon DEF RatesInv, Rates!RatesCoverTheirTime
<1>3. /\ counter \in [DOMAIN counter -> Nat] /\ DOMAIN counter \subseteq CounterKeys
      /\ moved \in [CounterKeys -> Nat] /\ now \in Nat
      /\ IsFiniteSet(Rates!Units(counter)) /\ IsFiniteSet(Rates!Units(moved))
  BY Zenon DEF RatesInv, Counters
<1>4. Rates!SumOver(counter) \in Nat /\ Rates!SumOver(moved) \in Nat
  BY <1>3, FewerUnits
<1>5. ASSUME Counters',
             \A k \in CounterKeys : /\ moved[k] <= moved'[k]
                            /\ CountOf(k)' - CountOf(k) <= moved'[k] - moved[k],
             Rates!SumOver(counter)' \in Nat, Rates!SumOver(moved)' \in Nat,
             Rates!SumOver(moved) <= Rates!SumOver(moved)',
             Rates!SumOver(counter)' - Rates!SumOver(counter)
                 <= Rates!SumOver(moved)' - Rates!SumOver(moved)
      PROVE  RatesInv'
  <2>1. \A k \in CounterKeys : /\ CountOf(k) \in Int /\ CountOf(k)' \in Int
                        /\ moved[k] \in Int /\ moved'[k] \in Int
    BY <1>3, <1>5 DEF Counters, CountOf
  <2>2. EntriesFair'
    <3> SUFFICES ASSUME tracker # "total", NEW k \in DOMAIN last
                 PROVE  /\ k \in CounterKeys /\ Fair(last[k], CountOf(k)', moved'[k])
                        /\ tracker # "entries" => last[k].at = since
      BY <1>1, Zenon DEF EntriesFair
    <3>1. /\ k \in CounterKeys /\ Fair(last[k], CountOf(k), moved[k])
          /\ tracker # "entries" => last[k].at = since
      BY Zenon DEF RatesInv, EntriesFair
    <3>. QED  BY <1>5, <2>1, <3>1, FairStaysFair
  <2>3. TotalFair'
    <3> SUFFICES ASSUME tracker = "total", NEW k \in DOMAIN last, ~last[k].gap
                 PROVE  /\ Fair(last[k], Rates!SumOver(counter)', Rates!SumOver(moved)')
                        /\ last[k].at = since
      BY <1>1, Zenon DEF RatesInv, TotalFair
    <3>1. /\ Fair(last[k], Rates!SumOver(counter), Rates!SumOver(moved)) /\ last[k].at = since
      BY Zenon DEF RatesInv, TotalFair
    <3>. QED  BY <1>4, <1>5, <3>1, FairStaysFair
  <2>. QED  BY <1>2, <1>5, <2>2, <2>3, Zenon DEF RatesInv
<1>6. CASE Rates!Move
  <2>1. PICK k \in DOMAIN counter : /\ counter' = [counter EXCEPT ![k] = counter[k] + 1]
                                   /\ moved' = [moved EXCEPT ![k] = moved[k] + 1]
    BY <1>6 DEF Rates!Move
  <2>2. k \in DOMAIN moved
    BY <1>3
  <2>3. /\ IsFiniteSet(Rates!Units(counter')) /\ IsFiniteSet(Rates!Units(moved'))
        /\ Rates!SumOver(counter') = Rates!SumOver(counter) + 1
        /\ Rates!SumOver(moved') = Rates!SumOver(moved) + 1
    BY <1>3, <2>1, <2>2, UnitIsAdded
  <2>4. now' = now
    BY <1>6 DEF Rates!Move
  <2>5. /\ counter' \in [DOMAIN counter' -> Nat] /\ DOMAIN counter' \subseteq CounterKeys
        /\ moved' \in [CounterKeys -> Nat]
    BY <1>3, <2>1, <2>2
  <2>6. Counters'
    BY <1>1, <1>3, <2>3, <2>4, <2>5 DEF RatesInv, Counters
  <2>7. \A j \in CounterKeys : moved[j] <= moved'[j] /\ CountOf(j)' - CountOf(j) <= moved'[j] - moved[j]
    BY <1>3, <2>1 DEF CountOf
  <2>. QED  BY <1>4, <1>5, <2>3, <2>6, <2>7
<1>7. CASE Rates!Appear
  <2>1. PICK k \in CounterKeys \ DOMAIN counter :
            counter' = [j \in DOMAIN counter \cup {k} |-> IF j = k THEN 0 ELSE counter[j]]
    BY <1>7 DEF Rates!Appear
  <2>2. UNCHANGED <<now, moved>>
    BY <1>7 DEF Rates!Appear
  <2>3. Rates!Units(counter') = Rates!Units(counter)
    BY <2>1, ZeroHasNoUnit
  <2>4. Counters'
    BY <1>1, <1>3, <2>1, <2>2, <2>3 DEF RatesInv, Counters
  <2>5. \A j \in CounterKeys : CountOf(j)' = CountOf(j) /\ moved[j] \in Nat /\ CountOf(j) \in Nat
    BY <1>3, <2>1 DEF CountOf
  <2>6. Rates!SumOver(counter)' = Rates!SumOver(counter) /\ Rates!SumOver(moved)' = Rates!SumOver(moved)
    BY <2>2, <2>3, Zenon DEF Rates!SumOver
  <2>. QED  BY <1>4, <1>5, <2>2, <2>4, <2>5, <2>6
<1>8. CASE Rates!Vanish
  <2>1. PICK k \in DOMAIN counter : counter' = [j \in DOMAIN counter \ {k} |-> counter[j]]
    BY <1>8 DEF Rates!Vanish
  <2>2. UNCHANGED <<now, moved>>
    BY <1>8 DEF Rates!Vanish
  <2>3. /\ IsFiniteSet(Rates!Units(counter')) /\ Rates!SumOver(counter') \in Nat
        /\ Rates!SumOver(counter') <= Rates!SumOver(counter)
    BY <1>3, <2>1, FewerUnits
  <2>4. Counters'
    BY <1>1, <1>3, <2>1, <2>2, <2>3 DEF RatesInv, Counters
  <2>5. \A j \in CounterKeys : /\ CountOf(j)' <= CountOf(j) /\ moved[j] \in Nat
                        /\ CountOf(j) \in Nat /\ CountOf(j)' \in Nat
    BY <1>3, <2>1 DEF CountOf
  <2>6. Rates!SumOver(moved)' = Rates!SumOver(moved)
    BY <2>2
  <2>. QED  BY <1>4, <1>5, <2>2, <2>3, <2>4, <2>5, <2>6
<1>9. CASE Rates!Elapse
  <2>1. UNCHANGED <<counter, moved>> /\ now' = now + 1
    BY <1>9 DEF Rates!Elapse
  <2>2. Counters'
    BY <1>1, <1>3, <2>1 DEF RatesInv, Counters
  <2>3. \A j \in CounterKeys : CountOf(j)' = CountOf(j) /\ moved[j] \in Nat /\ CountOf(j) \in Nat
    BY <1>3, <2>1 DEF CountOf
  <2>4. Rates!SumOver(counter)' = Rates!SumOver(counter) /\ Rates!SumOver(moved)' = Rates!SumOver(moved)
    BY <2>1
  <2>. QED  BY <1>4, <1>5, <2>1, <2>2, <2>3, <2>4
<1>. QED  BY <1>6, <1>7, <1>8, <1>9

\* A sample of keys: every one that was read before is shown, all of those read
\* now get a reading of now.
LEMMA KeysAreSampled ==
    ASSUME RatesInv, tracker # "total", NEW keys, keys \subseteq DOMAIN counter,
           UNCHANGED <<tracker, now, counter, moved>>,
           \A k \in DOMAIN last' :
               \/ k \in keys /\ last'[k] = Rates!ReadingOf(k)
               \/ k \in DOMAIN last /\ last'[k] = last[k] /\ tracker = "entries",
           tracker # "entries" => since' = now,
           \A r \in shown' : \E k \in keys \cap DOMAIN last :
               r = Rates!Rate(last[k], Rates!ReadingOf(k), now - last[k].at)
    PROVE  RatesInv'
<1>1. /\ counter \in [DOMAIN counter -> Nat] /\ DOMAIN counter \subseteq CounterKeys
      /\ moved \in [CounterKeys -> Nat] /\ now \in Nat
  BY Zenon DEF RatesInv, Counters
<1>2. \A k \in keys : /\ k \in CounterKeys /\ counter[k] \in Nat /\ moved[k] \in Nat
                      /\ Rates!ReadingOf(k) = Rates!Reading(counter[k], moved[k], FALSE)
                      /\ CountOf(k) = counter[k]
  BY <1>1 DEF Rates!ReadingOf, CountOf
<1>3. \A k \in DOMAIN last :
          /\ k \in CounterKeys /\ Fair(last[k], CountOf(k), moved[k])
          /\ tracker # "entries" => last[k].at = since
  BY Zenon DEF RatesInv, EntriesFair
<1>4. Rates!RatesCoverTheirTime'
  <2> SUFFICES ASSUME NEW r \in shown'  PROVE r.amount <= r.real /\ r.time = r.took
    BY Zenon DEF Rates!RatesCoverTheirTime
  <2>1. PICK k \in keys \cap DOMAIN last :
            r = Rates!Rate(last[k], Rates!ReadingOf(k), now - last[k].at)
    BY Zenon
  <2> DEFINE new == Rates!ReadingOf(k)
             old == last[k]
             time == now - old.at
  <2>2. /\ counter[k] \in Nat /\ moved[k] \in Nat /\ Fair(old, counter[k], moved[k])
        /\ new.count = counter[k] /\ new.moved = moved[k] /\ r = Rates!Rate(old, new, time)
    BY <1>2, <1>3, <2>1 DEF Rates!Reading
  <2>3. time = now - old.at /\ now \in Nat
    BY <1>1
  <2> HIDE DEF new, old, time
  <2>. QED  BY <2>2, <2>3, FairRate
<1>5. EntriesFair'
  <2> SUFFICES ASSUME NEW k \in DOMAIN last'
               PROVE  /\ k \in CounterKeys /\ Fair(last'[k], CountOf(k)', moved'[k])
                      /\ tracker # "entries" => last'[k].at = since'
    BY Zenon DEF EntriesFair
  <2>1. CountOf(k)' = CountOf(k) /\ moved' = moved
    BY Zenon DEF CountOf
  <2>2. CASE k \in keys /\ last'[k] = Rates!ReadingOf(k)
    <3>1. /\ k \in CounterKeys /\ counter[k] \in Nat /\ moved[k] \in Nat /\ CountOf(k) = counter[k]
          /\ last'[k] = Rates!Reading(counter[k], moved[k], FALSE)
      BY <1>2, <2>2
    <3>2. Fair(last'[k], counter[k], moved[k]) /\ last'[k].at = now
      BY <1>1, <3>1, FreshIsFair
    <3>. QED  BY <2>1, <3>1, <3>2
  <2>3. CASE k \in DOMAIN last /\ last'[k] = last[k] /\ tracker = "entries"
    BY <1>3, <2>1, <2>3
  <2>. QED  BY <2>2, <2>3
<1>6. Counters'
  BY Zenon DEF RatesInv, Counters
<1>7. TotalFair'
  BY Zenon DEF TotalFair
<1>. QED  BY <1>4, <1>5, <1>6, <1>7, Zenon DEF RatesInv

LEMMA EntriesStep ==
    ASSUME RatesInv, Rates!SampleEntries \/ Rates!SampleListing \/ Rates!SampleThreads
    PROVE  RatesInv'
<1>1. CASE Rates!SampleEntries
  <2>1. PICK keys \in {DOMAIN counter} \cup {{k} : k \in DOMAIN counter} :
            /\ last' = Rates!Updated(keys)
            /\ shown' = {Rates!Rate(last[k], Rates!ReadingOf(k), now - last[k].at) :
                             k \in keys \cap DOMAIN last}
    BY <1>1, Zenon DEF Rates!SampleEntries
  <2>2. tracker = "entries" /\ UNCHANGED <<tracker, now, counter, moved>>
    BY <1>1, Zenon DEF Rates!SampleEntries
  <2>3. keys \subseteq DOMAIN counter
    OBVIOUS
  <2>4. \A k \in DOMAIN last' :
            \/ k \in keys /\ last'[k] = Rates!ReadingOf(k)
            \/ k \in DOMAIN last /\ last'[k] = last[k]
    BY <2>1 DEF Rates!Updated
  <2>5. \A r \in shown' : \E k \in keys \cap DOMAIN last :
            r = Rates!Rate(last[k], Rates!ReadingOf(k), now - last[k].at)
    BY <2>1
  <2>. QED  BY <2>2, <2>3, <2>4, <2>5, KeysAreSampled
<1>2. CASE Rates!SampleListing \/ Rates!SampleThreads
  <2>1. PICK keys \in SUBSET DOMAIN counter :
            /\ last' = [k \in keys |-> Rates!ReadingOf(k)]
            /\ shown' = {Rates!Rate(last[k], Rates!ReadingOf(k), now - since) :
                             k \in keys \cap DOMAIN last}
    <3>1. CASE Rates!SampleListing
      <4>1. DOMAIN counter \in SUBSET DOMAIN counter
        OBVIOUS
      <4>. QED  BY <3>1, <4>1, Zenon DEF Rates!SampleListing
    <3>2. CASE Rates!SampleThreads
      BY <3>2, Zenon DEF Rates!SampleThreads
    <3>. QED  BY <1>2, <3>1, <3>2
  <2>2. tracker \in {"listing", "threads"} /\ since' = now /\ UNCHANGED <<tracker, now, counter, moved>>
    BY <1>2 DEF Rates!SampleListing, Rates!SampleThreads
  <2>3. \A k \in DOMAIN last' : k \in keys /\ last'[k] = Rates!ReadingOf(k)
    BY <2>1
  <2>4. \A k \in DOMAIN last : last[k].at = since
    BY <2>2 DEF RatesInv, EntriesFair
  <2>5. \A r \in shown' : \E k \in keys \cap DOMAIN last :
            r = Rates!Rate(last[k], Rates!ReadingOf(k), now - last[k].at)
    BY <2>1, <2>4
  <2>. QED  BY <2>1, <2>2, <2>3, <2>5, KeysAreSampled
<1>. QED  BY <1>1, <1>2

LEMMA TotalStep ==
    ASSUME RatesInv, Rates!SampleTotal \/ Rates!ResetTotal  PROVE RatesInv'
<1>1. tracker = "total" /\ UNCHANGED <<tracker, now, counter, moved>>
  BY Zenon DEF Rates!SampleTotal, Rates!ResetTotal
<1>2. Counters' /\ EntriesFair'
  BY <1>1, Zenon DEF RatesInv, Counters, EntriesFair
<1>3. CASE Rates!ResetTotal
  <2>1. last' = <<>> /\ shown' = {}
    BY <1>3, Zenon DEF Rates!ResetTotal
  <2>2. \A k : k \notin DOMAIN last'
    BY <2>1
  <2>3. TotalFair'
    BY <2>1, <2>2, Zenon DEF TotalFair
  <2>. QED  BY <1>2, <2>1, <2>3, Zenon DEF RatesInv, Rates!RatesCoverTheirTime
<1> DEFINE total == Rates!Reading(Rates!SumOver(counter), Rates!SumOver(moved), FALSE)
<1>4. CASE /\ last' = [all |-> total] /\ since' = now
           /\ shown' = {Rates!Rate(last[k], total, now - since) : k \in DOMAIN last}
  <2>1. now \in Nat /\ Rates!SumOver(counter) \in Nat /\ Rates!SumOver(moved) \in Nat
    BY FewerUnits DEF RatesInv, Counters
  <2>2. /\ Fair(total, Rates!SumOver(counter), Rates!SumOver(moved)) /\ total.at = now
    BY <2>1, FreshIsFair
  <2> HIDE DEF total
  <2>3. Rates!SumOver(counter)' = Rates!SumOver(counter) /\ Rates!SumOver(moved)' = Rates!SumOver(moved)
    BY <1>1, Zenon
  <2>4. /\ \A k \in DOMAIN last' : last'[k] = total
        /\ DOMAIN last' = {"all"} /\ last'.all = total
    BY <1>4
  <2>5. ASSUME NEW r \in shown', ~r.gap  PROVE r.amount <= r.real /\ r.time = r.took
    <3>1. PICK k \in DOMAIN last : r = Rates!Rate(last[k], total, now - since)
      BY <1>4, Zenon
    <3>2. r.gap = last[k].gap
      BY <3>1 DEF Rates!Rate
    <3>3. Fair(last[k], Rates!SumOver(counter), Rates!SumOver(moved)) /\ last[k].at = since
      BY <1>1, <2>5, <3>2, Zenon DEF RatesInv, TotalFair
    <3> DEFINE old == last[k]
               time == now - old.at
    <3>4. /\ Fair(old, Rates!SumOver(counter), Rates!SumOver(moved)) /\ time = now - old.at
          /\ r = Rates!Rate(old, total, time)
      BY <3>1, <3>3
    <3>5. total.count = Rates!SumOver(counter) /\ total.moved = Rates!SumOver(moved)
      BY DEF total, Rates!Reading
    <3> HIDE DEF old, time
    <3>. QED  BY <2>1, <3>4, <3>5, FairRate
  <2>6. TotalFair'
    <3>1. "gap" \in DOMAIN total
      BY DEF total, Rates!Reading
    <3>. QED  BY <1>4, <2>2, <2>3, <2>4, <3>1, Zenon DEF TotalFair
  <2>. QED  BY <1>2, <2>5, <2>6, Zenon DEF RatesInv, Rates!RatesCoverTheirTime
<1>5. CASE /\ last' = [all |-> IF last = <<>> THEN Rates!Reading(0, 0, TRUE)
                               ELSE [last.all EXCEPT !.gap = TRUE]]
           /\ shown' = {}
  <2>1. \A k \in DOMAIN last' : last'[k].gap
    <3>1. CASE last = <<>>
      <4>1. last' = [all |-> Rates!Reading(0, 0, TRUE)]
        BY <1>5, <3>1, Zenon
      <4>. QED  BY <4>1 DEF Rates!Reading
    <3>2. CASE last # <<>>
      <4>1. last' = [all |-> [last.all EXCEPT !.gap = TRUE]]
        BY <1>5, <3>2, Zenon
      <4>2. DOMAIN last' = {"all"} /\ last'["all"] = [last.all EXCEPT !.gap = TRUE]
        BY <4>1
      <4>3. "gap" \in DOMAIN last.all
        BY <1>1, <3>2, Zenon DEF RatesInv, TotalFair
      <4>4. [last.all EXCEPT !.gap = TRUE].gap
        BY <4>3
      <4>. QED  BY <4>2, <4>4
    <3>. QED  BY <3>1, <3>2
  <2>2. DOMAIN last' = {"all"} /\ "gap" \in DOMAIN last'.all
    <3>1. CASE last = <<>>
      BY <1>5, <3>1 DEF Rates!Reading
    <3>2. CASE last # <<>>
      <4>1. last' = [all |-> [last.all EXCEPT !.gap = TRUE]]
        BY <1>5, <3>2, Zenon
      <4>2. "gap" \in DOMAIN last.all
        BY <1>1, <3>2, Zenon DEF RatesInv, TotalFair
      <4>. QED  BY <4>1, <4>2
    <3>. QED  BY <3>1, <3>2
  <2>3. TotalFair'
    BY <2>1, <2>2, Zenon DEF TotalFair
  <2>. QED  BY <1>2, <1>5, <2>3 DEF RatesInv, Rates!RatesCoverTheirTime
<1>. QED  BY <1>3, <1>4, <1>5, Zenon DEF Rates!SampleTotal

LEMMA RatesInvStep ==
    ASSUME RatesInv, [Rates!Next]_(Rates!vars)  PROVE RatesInv'
<1>1. CASE UNCHANGED Rates!vars
  BY <1>1, Zenon DEF Rates!vars, RatesInv, Counters, EntriesFair, TotalFair, CountOf,
                     Rates!RatesCoverTheirTime, Fair
<1>. QED  BY <1>1, WorldStep, EntriesStep, TotalStep, Zenon DEF Rates!Next

-----------------------------------------------------------------------------
(* SbomSource: what is known of a path is the answer its query got.         *)

Mapped == [file : DOMAIN PackageOf, deleted : BOOLEAN]
Bare(f) == [file |-> f, deleted |-> FALSE]

\* What is known of a path once the query about it has ended.
ToldOwner(a) == IF a.told THEN Sbom!OwnerNow(a.path, a.host) ELSE ""

AllAsked ==
    /\ installed \subseteq Sbom!Packages /\ packages \subseteq Sbom!Packages
    /\ DOMAIN owner = {a.path : a \in asked}
    /\ \A a \in asked : /\ a.path \in Mapped /\ a.host \subseteq Sbom!Packages
                        /\ owner[a.path] = ToldOwner(a)
    /\ \A a, b \in asked : a.path = b.path => a = b

\* The report is the one of what is known now.
Reported ==
    \A s \in shown : /\ s.known \subseteq Sbom!Packages
                     /\ \A p \in Sbom!Range(s.paths) : p \in Mapped
                     /\ s.report = Sbom!BuildSbom(s.paths, s.known, owner)

SbomInv == AllAsked /\ Reported

LEMMA SbomInvInit ==
    ASSUME Sbom!Init  PROVE SbomInv
<1>1. /\ installed \subseteq Sbom!Packages /\ packages = {} /\ owner = <<>> /\ asked = {}
      /\ shown = {}
  BY DEF Sbom!Init
<1>2. DOMAIN owner = {}
  BY <1>1
<1>. QED  BY <1>1, <1>2 DEF SbomInv, AllAsked, Reported

LEMMA QueriedArePaths ==
    ASSUME NEW paths \in LoadedLists, NEW k
    PROVE  /\ \A p \in Sbom!Range(paths) : p \in Mapped
           /\ \A p \in Sbom!Queried(paths, k) : p \in Mapped /\ p \notin DOMAIN owner
<1>1. paths \in Seq(Mapped)
  BY TablesAssumption, Zenon DEF Mapped
<1>2. \A i \in DOMAIN paths : paths[i] \in Mapped
  BY <1>1
<1>. QED  BY <1>2 DEF Sbom!Range, Sbom!Queried, Sbom!Unknown

LEMMA ResolveStep ==
    ASSUME SbomInv, Sbom!Resolve  PROVE SbomInv'
<1> DEFINE Asked(p, silent) == [path |-> p, host |-> installed, told |-> p \notin silent]
           After(paths, k, known, silent) ==
               /\ packages' = known
               /\ owner' = Sbom!KnownAfter(paths, k, silent)
               /\ asked' = asked \cup {Asked(p, silent) : p \in Sbom!Queried(paths, k)}
               /\ shown' = {[paths |-> paths, known |-> known,
                             report |-> Sbom!BuildSbom(paths, known, owner')]}
<1>1. PICK paths \in LoadedLists :
          \E k \in 0..((Sbom!Cardinality(Sbom!Unknown(paths)) + Chunk - 1) \div Chunk),
             known \in IF loaded THEN {packages} ELSE {installed, {}} :
             \E silent \in SUBSET Sbom!Queried(paths, k) : After(paths, k, known, silent)
  BY Zenon DEF Sbom!Resolve
<1>2. PICK k : \E known \in IF loaded THEN {packages} ELSE {installed, {}} :
                 \E silent \in SUBSET Sbom!Queried(paths, k) : After(paths, k, known, silent)
  <2> HIDE DEF After
  <2>. QED  BY <1>1, Zenon
<1>2a. PICK known \in IF loaded THEN {packages} ELSE {installed, {}} :
          \E silent \in SUBSET Sbom!Queried(paths, k) : After(paths, k, known, silent)
  <2> HIDE DEF After
  <2>. QED  BY <1>2, Zenon
<1>2b. PICK silent : After(paths, k, known, silent)
  <2> HIDE DEF After
  <2>. QED  BY <1>2a, Zenon
<1>3. installed' = installed
  BY Zenon DEF Sbom!Resolve
<1> DEFINE queried == Sbom!Queried(paths, k)
<1>4. /\ \A p \in Sbom!Range(paths) : p \in Mapped
      /\ \A p \in queried : p \in Mapped /\ p \notin DOMAIN owner
  BY QueriedArePaths, Zenon
<1>5. /\ DOMAIN owner' = DOMAIN owner \cup queried
      /\ \A p \in DOMAIN owner : owner'[p] = owner[p]
      /\ \A p \in queried : owner'[p] = IF p \in silent THEN "" ELSE Sbom!OwnerNow(p, installed)
  <2>1. owner' = Sbom!KnownAfter(paths, k, silent)
    BY <1>2b
  <2>. QED  BY <1>4, <2>1 DEF Sbom!KnownAfter
<1>6. asked' = asked \cup {Asked(p, silent) : p \in queried}
  BY <1>2b
<1>7. known \subseteq Sbom!Packages
  BY <1>2a DEF SbomInv, AllAsked
<1> HIDE DEF queried
<1>8. AllAsked
  BY Zenon DEF SbomInv
<1>9. \A a \in asked' : \/ a \in asked /\ a.path \in DOMAIN owner
                        \/ /\ a.path \in queried /\ a.host = installed
                           /\ a.told = (a.path \notin silent) /\ a = Asked(a.path, silent)
  <2>1. \A p : /\ Asked(p, silent).path = p /\ Asked(p, silent).host = installed
               /\ Asked(p, silent).told = (p \notin silent)
    OBVIOUS
  <2> HIDE DEF Asked
  <2>2. \A a \in asked : a.path \in DOMAIN owner
    BY <1>8 DEF AllAsked
  <2>3. ASSUME NEW p \in queried
        PROVE  /\ Asked(p, silent).path \in queried /\ Asked(p, silent).host = installed
               /\ Asked(p, silent).told = (Asked(p, silent).path \notin silent)
               /\ Asked(p, silent) = Asked(Asked(p, silent).path, silent)
    <3>1. Asked(p, silent).path = p
      BY <2>1, Zenon
    <3>. QED  BY <2>1, <3>1, Zenon
  <2>4. \A a \in asked' : a \in asked \/ \E p \in queried : a = Asked(p, silent)
    BY <1>6, Zenon
  <2>. QED  BY <2>2, <2>3, <2>4, Zenon
<1>10. AllAsked'
  <2>1. DOMAIN owner' = {a.path : a \in asked'}
    <3>1. DOMAIN owner = {a.path : a \in asked}
      BY <1>8, Zenon DEF AllAsked
    <3>2. \A p \in queried : Asked(p, silent) \in asked' /\ Asked(p, silent).path = p
      BY <1>6
    <3>3. asked \subseteq asked'
      BY <1>6
    <3> HIDE DEF Asked
    <3>4. ASSUME NEW a \in asked'
          PROVE  a.path \in DOMAIN owner'
      <4>1. a.path \in DOMAIN owner \/ a.path \in queried
        BY <1>9, Zenon
      <4>. QED  BY <1>5, <4>1
    <3>5. ASSUME NEW p \in DOMAIN owner'
          PROVE  \E a \in asked' : a.path = p
      <4>1. CASE p \in DOMAIN owner
        <5>1. \E a \in asked : a.path = p
          BY <3>1, <4>1
        <5>. QED  BY <3>3, <5>1, Zenon
      <4>2. CASE p \in queried
        BY <3>2, <4>2, Zenon
      <4>3. p \in DOMAIN owner \cup queried
        BY <1>5, Zenon
      <4>. QED  BY <4>1, <4>2, <4>3
    <3>. QED  BY <3>4, <3>5
  <2>2. ASSUME NEW a \in asked'
        PROVE  a.path \in Mapped /\ a.host \subseteq Sbom!Packages /\ owner'[a.path] = ToldOwner(a)
    <3>1. CASE a \in asked /\ a.path \in DOMAIN owner
      BY <1>5, <1>8, <3>1 DEF AllAsked
    <3>2. CASE a.path \in queried /\ a.host = installed /\ a.told = (a.path \notin silent)
      <4>1. a.path \in Mapped /\ a.host \subseteq Sbom!Packages
        BY <1>4, <1>8, <3>2 DEF AllAsked
      <4>2. owner'[a.path] = IF a.path \in silent THEN "" ELSE Sbom!OwnerNow(a.path, installed)
        BY <1>5, <3>2, Zenon
      <4>. QED  BY <3>2, <4>1, <4>2, Zenon DEF ToldOwner
    <3> HIDE DEF Asked
    <3>. QED  BY <1>9, <3>1, <3>2, Zenon
  <2>3. \A a, b \in asked' : a.path = b.path => a = b
    <3>1. \A a, b \in asked : a.path = b.path => a = b
      BY <1>8, Zenon DEF AllAsked
    <3> HIDE DEF Asked
    <3>. QED  BY <1>4, <1>9, <3>1, Zenon
  <2>4. packages' = known
    BY <1>2b
  <2>. QED  BY <1>3, <1>7, <1>8, <2>1, <2>2, <2>3, <2>4, Zenon DEF AllAsked, ToldOwner
<1>11. Reported'
  <2> SUFFICES ASSUME NEW s \in shown'
               PROVE  /\ s.known \subseteq Sbom!Packages
                      /\ \A p \in Sbom!Range(s.paths) : p \in Mapped
                      /\ s.report = Sbom!BuildSbom(s.paths, s.known, owner')
    BY Zenon DEF Reported
  <2>1. s = [paths |-> paths, known |-> known, report |-> Sbom!BuildSbom(paths, known, owner')]
    BY <1>2b
  <2>2. s.paths = paths /\ s.known = known /\ s.report = Sbom!BuildSbom(paths, known, owner')
    BY <2>1, Zenon
  <2>. QED  BY <1>4, <1>7, <2>2, Zenon
<1>. QED  BY <1>10, <1>11 DEF SbomInv

LEMMA SbomInvStep ==
    ASSUME SbomInv, [Sbom!Next]_(Sbom!vars)  PROVE SbomInv'
<1>1. CASE Sbom!Upgrade \/ UNCHANGED Sbom!vars
  <2>1. UNCHANGED <<packages, owner, asked, shown>>
    BY <1>1, Zenon DEF Sbom!Upgrade, Sbom!vars
  <2>2. installed' \subseteq Sbom!Packages
    BY <1>1 DEF Sbom!Upgrade, Sbom!vars, SbomInv, AllAsked
  <2>. QED  BY <2>1, <2>2, Zenon DEF SbomInv, AllAsked, Reported
<1>. QED  BY <1>1, ResolveStep, Zenon DEF Sbom!Next

\* Which libraries buildSbom lists: those whose bare path has an owner that is known.
LEMMA ListedByOwner ==
    ASSUME NEW paths, \A p \in Sbom!Range(paths) : p \in Mapped, NEW known, NEW own,
           NEW library \in Sbom!Range(paths), NEW hits,
           \A e : e \in hits <=> /\ e \in Sbom!BuildSbom(paths, known, own).entries
                               /\ library.file \in e.files
    PROVE  /\ Sbom!Cardinality(hits) <= 1
           /\ hits # {} <=> /\ Bare(library.file) \in DOMAIN own
                            /\ own[Bare(library.file)] \in known
<1> DEFINE Has(f) == Bare(f) \in DOMAIN own /\ own[Bare(f)] \in known
           Entry(q) == [package |-> q, files |-> {p.file : p \in {r \in Sbom!Range(paths) :
                                                      q \in Sbom!PackageIn(r, own, known)}}]
           f == library.file
<1>1. ASSUME NEW p \in Mapped
      PROVE  \A q : q \in Sbom!PackageIn(p, own, known) <=> Has(p.file) /\ q = own[Bare(p.file)]
  <2>1. [p EXCEPT !.deleted = FALSE] = Bare(p.file)
    <3>1. p = [file |-> p.file, deleted |-> p.deleted]
      BY Zenon DEF Mapped
    <3>2. ASSUME NEW x, NEW y, NEW b
          PROVE  [[file |-> x, deleted |-> y] EXCEPT !.deleted = b] = [file |-> x, deleted |-> b]
      OBVIOUS
    <3>. QED  BY <3>1, <3>2, Zenon DEF Bare
  <2>. QED  BY <2>1 DEF Sbom!PackageIn
<1>2. Sbom!BuildSbom(paths, known, own).entries
          = {Entry(q) : q \in UNION {Sbom!PackageIn(p, own, known) : p \in Sbom!Range(paths)}}
  BY DEF Sbom!BuildSbom
<1>3. ASSUME NEW q
      PROVE  f \in Entry(q).files <=> Has(f) /\ q = own[Bare(f)]
  <2>1. Entry(q).files = {p.file : p \in {r \in Sbom!Range(paths) :
                                              q \in Sbom!PackageIn(r, own, known)}}
    OBVIOUS
  <2>2. \A p \in Sbom!Range(paths) :
            q \in Sbom!PackageIn(p, own, known) <=> Has(p.file) /\ q = own[Bare(p.file)]
    BY <1>1
  <2>3. f \in Entry(q).files <=> \E p \in Sbom!Range(paths) : /\ q \in Sbom!PackageIn(p, own, known)
                                                            /\ f = p.file
    BY <2>1
  <2> HIDE DEF Has, Entry
  <2>. QED  BY <2>2, <2>3, Zenon DEF f
<1>4. \A q \in UNION {Sbom!PackageIn(p, own, known) : p \in Sbom!Range(paths)} :
          \E p \in Sbom!Range(paths) : Has(p.file) /\ q = own[Bare(p.file)]
  BY <1>1
<1>5. Has(f) => own[Bare(f)] \in UNION {Sbom!PackageIn(p, own, known) : p \in Sbom!Range(paths)}
  <2> SUFFICES ASSUME Has(f)  PROVE own[Bare(f)] \in Sbom!PackageIn(library, own, known)
    OBVIOUS
  <2>. QED  BY <1>1
<1> HIDE DEF Has, Entry, f
<1>6. hits \subseteq {Entry(own[Bare(f)])}
  BY <1>2, <1>3 DEF f
<1>7. hits # {} <=> Has(f)
  BY <1>2, <1>3, <1>5 DEF f
<1>8. Sbom!Cardinality(hits) <= 1
  <2>1. Sbom!Cardinality(hits) = Cardinality(hits)
    BY Zenon DEF Cardinality, Sbom!Cardinality
  <2> DEFINE e == Entry(own[Bare(f)])
  <2>2. hits = {} \/ hits = {e}
    BY <1>6
  <2> HIDE DEF e
  <2>3. CASE hits = {}
    BY <2>1, <2>3, FS_EmptySet
  <2>4. CASE hits = {e}
    <3>1. Cardinality({e}) = 1
      BY FS_Singleton, Zenon
    <3>. QED  BY <2>1, <2>4, <3>1
  <2>. QED  BY <2>2, <2>3, <2>4
<1>. QED  BY <1>7, <1>8, Zenon DEF Has, f

LEMMA SbomInvListsTheAsked ==
    ASSUME SbomInv  PROVE Sbom!SbomListsTheAsked
<1>1. AllAsked /\ Reported
  BY Zenon DEF SbomInv
<1>2. /\ DOMAIN owner = {a.path : a \in asked}
      /\ \A a, b \in asked : a.path = b.path => a = b
  BY <1>1, Zenon DEF AllAsked
<1>3. ASSUME NEW s \in shown, NEW library \in Sbom!Range(s.paths), NEW hits,
             hits = {e \in s.report.entries : library.file \in e.files}
      PROVE  /\ Sbom!Cardinality(hits) <= 1
             /\ hits # {} <=> \E a \in asked : /\ a.path = [file |-> library.file, deleted |-> FALSE]
                                               /\ a.told
                                               /\ PackageOf[library.file] \in a.host \cap s.known
  <2>1. /\ s.known \subseteq Sbom!Packages /\ \A p \in Sbom!Range(s.paths) : p \in Mapped
        /\ s.report = Sbom!BuildSbom(s.paths, s.known, owner)
    BY <1>1, Zenon DEF Reported
  <2>2. /\ Sbom!Cardinality(hits) <= 1
        /\ hits # {} <=> /\ Bare(library.file) \in DOMAIN owner
                         /\ owner[Bare(library.file)] \in s.known
    <3>1. \A e : e \in hits <=> /\ e \in Sbom!BuildSbom(s.paths, s.known, owner).entries
                              /\ library.file \in e.files
      BY <1>3, <2>1, Zenon
    <3>. QED  BY <2>1, <3>1, ListedByOwner, Zenon
  <2>3. "" \notin s.known
    BY <2>1 DEF Sbom!Packages
  <2>4. ASSUME NEW a \in asked, a.path = Bare(library.file)
        PROVE  owner[Bare(library.file)] \in s.known
               <=> a.told /\ PackageOf[library.file] \in a.host \cap s.known
    <3>1. owner[Bare(library.file)]
              = IF a.told THEN Sbom!OwnerNow(Bare(library.file), a.host) ELSE ""
      BY <1>1, <2>4, Zenon DEF AllAsked, ToldOwner
    <3>2. ~Bare(library.file).deleted /\ Bare(library.file).file = library.file
      BY Zenon DEF Bare
    <3>3. Sbom!OwnerNow(Bare(library.file), a.host)
              = IF PackageOf[library.file] \in a.host THEN PackageOf[library.file] ELSE ""
      BY <3>2, Zenon DEF Sbom!OwnerNow
    <3>4. CASE a.told
      BY <2>3, <3>1, <3>3, <3>4
    <3>5. CASE ~ a.told
      BY <2>3, <3>1, <3>5
    <3>. QED  BY <3>4, <3>5
  <2>5. Bare(library.file) \in DOMAIN owner <=> \E a \in asked : a.path = Bare(library.file)
    BY <1>2
  <2>. QED  BY <2>2, <2>4, <2>5, Zenon DEF Bare
<1>4. ASSUME NEW s \in shown, NEW f \in {p.file : p \in Sbom!Range(s.paths)}
      PROVE  LET hits == {e \in s.report.entries : f \in e.files}
             IN  /\ Sbom!Cardinality(hits) <= 1
                 /\ hits # {} <=> \E a \in asked : /\ a.path = [file |-> f, deleted |-> FALSE] /\ a.told
                                                   /\ PackageOf[f] \in a.host \cap s.known
  <2>1. PICK library \in Sbom!Range(s.paths) : f = library.file
    BY Zenon
  <2>. QED  BY <1>3, <2>1, Zenon
<1>. QED  BY <1>2, <1>4, Zenon DEF Sbom!SbomListsTheAsked

-----------------------------------------------------------------------------
(* Configuration: every table is sound, and what validate() leaves is final. *)

\* The table that brings a key.
TableOf(k) == CHOOSE i \in DOMAIN Config!Tables : k \in DOMAIN Config!Tables[i]

Rules == {"any", "positive", "natural"}
KeyRecords == [default : Int, rule : Rules, low : Int, high : Int]

\* A table of keys whose defaults are in their ranges.
Sound(keys) ==
    \A k \in DOMAIN keys :
        /\ keys[k] \in KeyRecords
        /\ keys[k].low <= keys[k].default /\ keys[k].default <= keys[k].high

-----------------------------------------------------------------------------
(* The tables.                                                             *)

LEMMA HealthIsSound == Sound(Config!HealthKeys)
BY DEF Sound, Config!HealthKeys, Config!Key, KeyRecords, Rules

LEMMA DockerIsSound == Sound(Config!DockerKeys)
BY DEF Sound, Config!DockerKeys, Config!Key, KeyRecords, Rules, Config!Hour

LEMMA KubeIsSound == Sound(Config!KubeKeys)
BY DEF Sound, Config!KubeKeys, Config!Key, KeyRecords, Rules, Config!Hour

LEMMA OthersAreSound ==
    /\ Sound(Config!OverlayKeys) /\ Sound(Config!SyntheticKeys) /\ Sound(Config!TraceKeys) /\ Sound(Config!PathKeys)
    /\ Sound(Config!StatsdKeys) /\ Sound(Config!DatabaseKeys) /\ Sound(Config!TlsKeys)
<1>1. Sound(Config!OverlayKeys)
  BY DEF Sound, Config!OverlayKeys, Config!Key, KeyRecords, Rules
<1>2. Sound(Config!SyntheticKeys)
  BY DEF Sound, Config!SyntheticKeys, Config!Key, KeyRecords, Rules, Config!Hour
<1>3. Sound(Config!TraceKeys) /\ Sound(Config!StatsdKeys)
  BY DEF Sound, Config!TraceKeys, Config!StatsdKeys, Config!Key, KeyRecords, Rules
<1>4. Sound(Config!PathKeys)
  BY DEF Sound, Config!PathKeys, Config!Key, KeyRecords, Rules, Config!Hour
<1>5. Sound(Config!DatabaseKeys)
  BY DEF Sound, Config!DatabaseKeys, Config!Key, KeyRecords, Rules
<1>6. Sound(Config!TlsKeys)
  BY DEF Sound, Config!TlsKeys, Config!Key, KeyRecords, Rules
<1>. QED  BY <1>1, <1>2, <1>3, <1>4, <1>5, <1>6

LEMMA TableIsSound == \A i \in DOMAIN Config!Tables : Sound(Config!Tables[i])
BY HealthIsSound, DockerIsSound, KubeIsSound, OthersAreSound DEF Config!Tables

LEMMA KeysAreSound ==
    /\ Sound(Config!Keys)
    /\ \A k \in DOMAIN Config!Keys : TableOf(k) \in DOMAIN Config!Tables /\ k \in DOMAIN Config!Tables[TableOf(k)]
<1>1. \A k \in DOMAIN Config!Keys :
         /\ TableOf(k) \in DOMAIN Config!Tables /\ k \in DOMAIN Config!Tables[TableOf(k)]
         /\ Config!Keys[k] = Config!Tables[TableOf(k)][k]
  BY DEF Config!Keys, TableOf
<1>. QED  BY <1>1, TableIsSound DEF Sound

\* The pairs share their range, and their defaults are in order.
LEMMA PairsAreSound ==
    \A p \in Config!Ordered :
        /\ p[1] \in DOMAIN Config!Keys /\ p[2] \in DOMAIN Config!Keys
        /\ Config!Keys[p[1]].low = Config!Keys[p[2]].low /\ Config!Keys[p[1]].high = Config!Keys[p[2]].high
        /\ Config!Keys[p[1]].default <= Config!Keys[p[2]].default
        /\ \A q \in Config!Ordered : p[1] # q[2] /\ (p[2] = q[2] => p = q)
<1>1. ASSUME NEW k, NEW i \in DOMAIN Config!Tables, k \in DOMAIN Config!Tables[i],
             \A j \in DOMAIN Config!Tables : k \in DOMAIN Config!Tables[j] => j = i
      PROVE  k \in DOMAIN Config!Keys /\ Config!Keys[k] = Config!Tables[i][k]
  BY <1>1 DEF Config!Keys, TableOf
<1>2. DOMAIN Config!Tables = 1 .. 10
  BY DEF Config!Tables
<1>3. \A k \in {"cpu_warn_percent", "cpu_high_percent"} :
         k \in DOMAIN Config!Keys /\ Config!Keys[k] = Config!HealthKeys[k]
  <2> SUFFICES ASSUME NEW k \in {"cpu_warn_percent", "cpu_high_percent"}
               PROVE  k \in DOMAIN Config!Keys /\ Config!Keys[k] = Config!HealthKeys[k]
    OBVIOUS
  <2>1. k \in DOMAIN Config!Tables[1] /\ Config!Tables[1] = Config!HealthKeys
    BY DEF Config!Tables, Config!HealthKeys
  <2>2. \A j \in DOMAIN Config!Tables : k \in DOMAIN Config!Tables[j] => j = 1
    BY <1>2 DEF Config!Tables, Config!DockerKeys, Config!KubeKeys, Config!OverlayKeys,
                Config!SyntheticKeys, Config!TraceKeys, Config!PathKeys,
                Config!StatsdKeys, Config!DatabaseKeys, Config!TlsKeys
  <2>. QED  BY <1>1, <1>2, <2>1, <2>2
<1>4. \A k \in {"backoff_start_ms", "backoff_cap_ms"} :
         k \in DOMAIN Config!Keys /\ Config!Keys[k] = Config!DockerKeys[k]
  <2> SUFFICES ASSUME NEW k \in {"backoff_start_ms", "backoff_cap_ms"}
               PROVE  k \in DOMAIN Config!Keys /\ Config!Keys[k] = Config!DockerKeys[k]
    OBVIOUS
  <2>1. k \in DOMAIN Config!Tables[2] /\ Config!Tables[2] = Config!DockerKeys
    BY DEF Config!Tables, Config!DockerKeys
  <2>2. \A j \in DOMAIN Config!Tables : k \in DOMAIN Config!Tables[j] => j = 2
    BY <1>2 DEF Config!Tables, Config!HealthKeys, Config!KubeKeys, Config!OverlayKeys,
                Config!SyntheticKeys, Config!TraceKeys, Config!PathKeys,
                Config!StatsdKeys, Config!DatabaseKeys, Config!TlsKeys
  <2>. QED  BY <1>1, <1>2, <2>1, <2>2
<1>5. \A k \in {"kube_backoff_start_ms", "kube_backoff_cap_ms"} :
         k \in DOMAIN Config!Keys /\ Config!Keys[k] = Config!KubeKeys[k]
  <2> SUFFICES ASSUME NEW k \in {"kube_backoff_start_ms", "kube_backoff_cap_ms"}
               PROVE  k \in DOMAIN Config!Keys /\ Config!Keys[k] = Config!KubeKeys[k]
    OBVIOUS
  <2>1. k \in DOMAIN Config!Tables[3] /\ Config!Tables[3] = Config!KubeKeys
    BY DEF Config!Tables, Config!KubeKeys
  <2>2. \A j \in DOMAIN Config!Tables : k \in DOMAIN Config!Tables[j] => j = 3
    BY <1>2 DEF Config!Tables, Config!HealthKeys, Config!DockerKeys, Config!OverlayKeys,
                Config!SyntheticKeys, Config!TraceKeys, Config!PathKeys,
                Config!StatsdKeys, Config!DatabaseKeys, Config!TlsKeys
  <2>. QED  BY <1>1, <1>2, <2>1, <2>2
<1>6. /\ Config!HealthKeys["cpu_warn_percent"] = Config!Key(70, "any", 0, 100)
      /\ Config!HealthKeys["cpu_high_percent"] = Config!Key(90, "any", 0, 100)
      /\ Config!DockerKeys["backoff_start_ms"] = Config!Key(15000, "positive", 1000, Config!Hour)
      /\ Config!DockerKeys["backoff_cap_ms"] = Config!Key(240000, "positive", 1000, Config!Hour)
      /\ Config!KubeKeys["kube_backoff_start_ms"] = Config!Key(15000, "positive", 1000, Config!Hour)
      /\ Config!KubeKeys["kube_backoff_cap_ms"] = Config!Key(240000, "positive", 1000, Config!Hour)
  BY DEF Config!HealthKeys, Config!DockerKeys, Config!KubeKeys
<1>7. \A p \in Config!Ordered : \/ p = <<"cpu_warn_percent", "cpu_high_percent">>
                        \/ p = <<"backoff_start_ms", "backoff_cap_ms">>
                        \/ p = <<"kube_backoff_start_ms", "kube_backoff_cap_ms">>
  BY DEF Config!Ordered
<1>8. \A p, q \in Config!Ordered : p[1] # q[2] /\ (p[2] = q[2] => p = q)
  BY <1>7
<1>9. \A p \in Config!Ordered :
         /\ p[1] \in DOMAIN Config!Keys /\ p[2] \in DOMAIN Config!Keys
         /\ Config!Keys[p[1]].low = Config!Keys[p[2]].low /\ Config!Keys[p[1]].high = Config!Keys[p[2]].high
         /\ Config!Keys[p[1]].default <= Config!Keys[p[2]].default
  BY <1>3, <1>4, <1>5, <1>6, <1>7 DEF Config!Key
<1>. QED  BY <1>8, <1>9

-----------------------------------------------------------------------------
(* validate().                                                             *)

WholeNumbers == [DOMAIN Config!Keys -> Int]
Clamped(v, k) == Config!Clamp(v[k], Config!Keys[k].low, Config!Keys[k].high)

LEMMA ClampIsBounded ==
    ASSUME NEW v \in WholeNumbers, NEW k \in DOMAIN Config!Keys
    PROVE  /\ Clamped(v, k) \in Int /\ Config!Keys[k].low <= Clamped(v, k) /\ Clamped(v, k) <= Config!Keys[k].high
           /\ Config!Keys[k].low \in Int /\ Config!Keys[k].high \in Int /\ Config!Keys[k].default \in Int
           /\ Config!Keys[k].low <= v[k] /\ v[k] <= Config!Keys[k].high => Clamped(v, k) = v[k]
BY KeysAreSound DEF Sound, KeyRecords, WholeNumbers, Clamped, Config!Clamp

\* What becomes of a value: its range, and its partner if that is more.
LEMMA ValidatedValues ==
    ASSUME NEW v \in WholeNumbers
    PROVE  /\ Config!Validated(v) \in WholeNumbers
           /\ \A k \in DOMAIN Config!Keys :
                 (\A p \in Config!Ordered : p[2] # k) => Config!Validated(v)[k] = Clamped(v, k)
           /\ \A p \in Config!Ordered :
                 Config!Validated(v)[p[2]] = IF Clamped(v, p[1]) > Clamped(v, p[2]) THEN Clamped(v, p[1]) ELSE Clamped(v,
                 p[2])
<1> DEFINE forced == Config!Forced(v)
           Raised(k) == {forced[p[1]] : p \in {q \in Config!Ordered : q[2] = k}}
<1>1. \A k \in DOMAIN Config!Keys : forced[k] = Clamped(v, k)
  BY DEF Config!Forced, Clamped, WholeNumbers
<1>2. Config!Validated(v) = [k \in DOMAIN Config!Keys |-> Config!Max(Raised(k) \cup {forced[k]})]
  BY DEF Config!Validated, WholeNumbers
<1>3. ASSUME NEW k \in DOMAIN Config!Keys, \A p \in Config!Ordered : p[2] # k
      PROVE  Config!Validated(v)[k] = Clamped(v, k)
  <2>1. Raised(k) \cup {forced[k]} = {Clamped(v, k)}
    BY <1>1, <1>3
  <2>2. Clamped(v, k) \in Int
    BY ClampIsBounded
  <2>3. Config!Max({Clamped(v, k)}) = Clamped(v, k)
    BY <2>2 DEF Config!Max
  <2>. QED  BY <1>2, <2>1, <2>3
<1>4. ASSUME NEW p \in Config!Ordered
      PROVE  Config!Validated(v)[p[2]] = IF Clamped(v, p[1]) > Clamped(v, p[2]) THEN Clamped(v, p[1]) ELSE Clamped(v, p[2])
  <2>1. p[1] \in DOMAIN Config!Keys /\ p[2] \in DOMAIN Config!Keys
    BY PairsAreSound
  <2>2. {q \in Config!Ordered : q[2] = p[2]} = {p}
    BY PairsAreSound
  <2>3. Raised(p[2]) \cup {forced[p[2]]} = {Clamped(v, p[1]), Clamped(v, p[2])}
    BY <1>1, <2>1, <2>2
  <2>4. Clamped(v, p[1]) \in Int /\ Clamped(v, p[2]) \in Int
    BY <2>1, ClampIsBounded
  <2> DEFINE a == Clamped(v, p[1])
             b == Clamped(v, p[2])
  <2>5. Config!Max({a, b}) = IF a > b THEN a ELSE b
    <3> HIDE DEF a, b
    <3>1. a \in Int /\ b \in Int
      BY <2>4 DEF a, b
    <3>2. \E x \in {a, b} : \A y \in {a, b} : x >= y
      BY <3>1
    <3>. QED  BY <3>1, <3>2 DEF Config!Max
  <2>. QED  BY <1>2, <2>1, <2>3, <2>5
<1>5. Config!Validated(v) \in WholeNumbers
  <2>1. \A k \in DOMAIN Config!Keys : Config!Validated(v)[k] \in Int
    <3> SUFFICES ASSUME NEW k \in DOMAIN Config!Keys  PROVE Config!Validated(v)[k] \in Int
      OBVIOUS
    <3>1. CASE \A p \in Config!Ordered : p[2] # k
      BY <1>3, <3>1, ClampIsBounded
    <3>2. CASE \E p \in Config!Ordered : p[2] = k
      <4>1. PICK p \in Config!Ordered : p[2] = k
        BY <3>2
      <4>2. Clamped(v, p[1]) \in Int /\ Clamped(v, p[2]) \in Int
        BY ClampIsBounded, PairsAreSound
      <4>. QED  BY <1>4, <4>1, <4>2
    <3>. QED  BY <3>1, <3>2
  <2>. QED  BY <1>2, <2>1 DEF WholeNumbers
<1>. QED  BY <1>3, <1>4, <1>5

\* What is in its ranges and in order.
Sorted(v) ==
    /\ \A k \in DOMAIN Config!Keys : Config!Keys[k].low <= v[k] /\ v[k] <= Config!Keys[k].high
    /\ \A p \in Config!Ordered : v[p[1]] <= v[p[2]]

LEMMA SortedIsFinal ==
    ASSUME NEW v \in WholeNumbers, Sorted(v)
    PROVE  Config!Validated(v) = v
<1>1. \A k \in DOMAIN Config!Keys : Clamped(v, k) = v[k]
  BY ClampIsBounded DEF Sorted
<1>2. ASSUME NEW k \in DOMAIN Config!Keys  PROVE Config!Validated(v)[k] = v[k]
  <2>1. CASE \A p \in Config!Ordered : p[2] # k
    BY <1>1, <2>1, ValidatedValues
  <2>2. CASE \E p \in Config!Ordered : p[2] = k
    <3>1. PICK p \in Config!Ordered : p[2] = k
      BY <2>2
    <3>2. p[1] \in DOMAIN Config!Keys /\ v[p[1]] \in Int /\ v[k] \in Int /\ v[p[1]] <= v[k]
      BY <3>1, PairsAreSound DEF Sorted, WholeNumbers
    <3>. QED  BY <1>1, <3>1, <3>2, ValidatedValues
  <2>. QED  BY <2>1, <2>2
<1>3. Config!Validated(v) \in WholeNumbers
  BY ValidatedValues
<1>. QED  BY <1>2, <1>3 DEF WholeNumbers

LEMMA ValidatedIsSorted ==
    ASSUME NEW v \in WholeNumbers
    PROVE  Sorted(Config!Validated(v))
<1>1. \A k \in DOMAIN Config!Keys :
         /\ Clamped(v, k) \in Int /\ Config!Keys[k].low <= Clamped(v, k) /\ Clamped(v, k) <= Config!Keys[k].high
  BY ClampIsBounded
<1>2. ASSUME NEW k \in DOMAIN Config!Keys
      PROVE  Config!Keys[k].low <= Config!Validated(v)[k] /\ Config!Validated(v)[k] <= Config!Keys[k].high
  <2>1. CASE \A p \in Config!Ordered : p[2] # k
    BY <1>1, <2>1, ValidatedValues
  <2>2. CASE \E p \in Config!Ordered : p[2] = k
    <3>1. PICK p \in Config!Ordered : p[2] = k
      BY <2>2
    <3>2. /\ p[1] \in DOMAIN Config!Keys
          /\ Config!Keys[p[1]].low = Config!Keys[k].low /\ Config!Keys[p[1]].high = Config!Keys[k].high
      BY <3>1, PairsAreSound
    <3>. QED  BY <1>1, <3>1, <3>2, ValidatedValues
  <2>. QED  BY <2>1, <2>2
<1>3. ASSUME NEW p \in Config!Ordered  PROVE Config!Validated(v)[p[1]] <= Config!Validated(v)[p[2]]
  <2>1. /\ p[1] \in DOMAIN Config!Keys /\ p[2] \in DOMAIN Config!Keys
        /\ \A q \in Config!Ordered : q[2] # p[1]
    BY PairsAreSound
  <2>. QED  BY <1>1, <2>1, ValidatedValues
<1>. QED  BY <1>2, <1>3 DEF Sorted

-----------------------------------------------------------------------------
(* loadConfig().                                                           *)

FileIsWhole == \A k \in DOMAIN file : file[k] \in Int

LEMMA LoadedValues ==
    ASSUME NEW contents, \A k \in DOMAIN contents : contents[k] \in Int
    PROVE  /\ Config!Loaded(contents) \in WholeNumbers
           /\ \A k \in DOMAIN Config!Keys \ DOMAIN contents :
                 Config!Loaded(contents)[k] = Config!Keys[k].default
<1>1. \A k \in DOMAIN Config!Keys : Config!Keys[k].default \in Int
  BY KeysAreSound DEF Sound, KeyRecords
<1> DEFINE value(k) == IF k \in DOMAIN contents /\ Config!Taken(Config!Keys[k].rule, contents[k])
                       THEN contents[k] ELSE Config!Keys[k].default
<1>2. Config!Loaded(contents) = [k \in DOMAIN Config!Keys |-> value(k)]
  BY DEF Config!Loaded
<1>3. \A k \in DOMAIN Config!Keys : value(k) \in Int
  BY <1>1
<1>4. \A k \in DOMAIN Config!Keys \ DOMAIN contents : value(k) = Config!Keys[k].default
  OBVIOUS
<1> HIDE DEF value
<1>. QED  BY <1>2, <1>3, <1>4 DEF WholeNumbers

\* Usable is what the theorem says of a configuration read from a file.
Usable(c, f) ==
    /\ \A k \in DOMAIN Config!Keys : c[k] \in Config!Keys[k].low .. Config!Keys[k].high
    /\ \A p \in Config!Ordered : c[p[1]] <= c[p[2]]
    /\ Config!Validated(c) = c
    /\ \A k \in DOMAIN Config!Keys \ DOMAIN f :
           \/ c[k] = Config!Keys[k].default
           \/ \E p \in Config!Ordered : p[2] = k /\ c[k] = c[p[1]]

LEMMA SortedIsUsable ==
    ASSUME NEW c \in WholeNumbers, Sorted(c), NEW f,
           \A k \in DOMAIN Config!Keys \ DOMAIN f :
              \/ c[k] = Config!Keys[k].default
              \/ \E p \in Config!Ordered : p[2] = k /\ c[k] = c[p[1]]
    PROVE  Usable(c, f)
<1>1. \A k \in DOMAIN Config!Keys : c[k] \in Int /\ Config!Keys[k].low \in Int /\ Config!Keys[k].high \in Int
  BY ClampIsBounded DEF WholeNumbers
<1>. QED  BY <1>1, SortedIsFinal DEF Usable, Sorted

LEMMA LoadIsUsable ==
    ASSUME FileIsWhole, Config!Load  PROVE Usable(config', file)
<1>1. CASE config' = Config!Validated(Config!Loaded(file))
  <2> DEFINE v == Config!Loaded(file)
  <2>1. /\ v \in WholeNumbers
        /\ \A k \in DOMAIN Config!Keys \ DOMAIN file : v[k] = Config!Keys[k].default
    BY LoadedValues DEF FileIsWhole
  <2> HIDE DEF v
  <2>2. Config!Validated(v) \in WholeNumbers /\ Sorted(Config!Validated(v))
    BY <2>1, ValidatedValues, ValidatedIsSorted
  <2>3. ASSUME NEW k \in DOMAIN Config!Keys \ DOMAIN file
        PROVE  \/ Config!Validated(v)[k] = Config!Keys[k].default
               \/ \E p \in Config!Ordered : p[2] = k /\ Config!Validated(v)[k] = Config!Validated(v)[p[1]]
    <3>1. Clamped(v, k) = Config!Keys[k].default
      BY <2>1, ClampIsBounded, KeysAreSound DEF Sound
    <3>2. CASE \A p \in Config!Ordered : p[2] # k
      BY <2>1, <3>1, <3>2, ValidatedValues
    <3>3. CASE \E p \in Config!Ordered : p[2] = k
      <4>1. PICK p \in Config!Ordered : p[2] = k
        BY <3>3
      <4>2. p[1] \in DOMAIN Config!Keys /\ \A q \in Config!Ordered : q[2] # p[1]
        BY PairsAreSound
      <4>3. Config!Validated(v)[p[1]] = Clamped(v, p[1])
        BY <2>1, <4>2, ValidatedValues
      <4>. QED  BY <2>1, <3>1, <4>1, <4>3, ValidatedValues
    <3>. QED  BY <3>2, <3>3
  <2>. QED  BY <1>1, <2>2, <2>3, SortedIsUsable DEF v
<1>2. CASE config' = Config!Loaded(<<>>)
  <2> DEFINE v == Config!Loaded(<<>>)
  <2>1. v \in WholeNumbers /\ \A k \in DOMAIN Config!Keys : v[k] = Config!Keys[k].default
    BY LoadedValues
  <2> HIDE DEF v
  <2>2. Sorted(v)
    BY <2>1, KeysAreSound, PairsAreSound DEF Sorted, Sound
  <2>. QED  BY <1>2, <2>1, <2>2, SortedIsUsable DEF v
<1>. QED  BY <1>1, <1>2 DEF Config!Load

ConfigInv == FileIsWhole /\ (config # <<>> => Usable(config, file))

LEMMA ConfigInvInit ==
    ASSUME Config!Init  PROVE ConfigInv
BY DEF Config!Init, ConfigInv, FileIsWhole

LEMMA ConfigInvStep ==
    ASSUME ConfigInv, [Config!Next]_(Config!vars)  PROVE ConfigInv'
<1>1. CASE Config!Edit
  <2>1. config = <<>> /\ config' = config
    BY <1>1, Zenon DEF Config!Edit
  <2>2. PICK k \in DOMAIN Config!Keys \ DOMAIN file, raw \in Raw :
            file' = [key \in DOMAIN file \cup {k} |-> IF key = k THEN raw ELSE file[key]]
    BY <1>1, Zenon DEF Config!Edit
  <2>. QED  BY <2>1, <2>2, TablesAssumption DEF ConfigInv, FileIsWhole
<1>2. CASE Config!Load
  <2>1. file' = file
    BY <1>2, Zenon DEF Config!Load
  <2>. QED  BY <1>2, <2>1, LoadIsUsable, Zenon DEF ConfigInv, FileIsWhole
<1>3. CASE UNCHANGED Config!vars
  <2>1. file' = file /\ config' = config
    BY <1>3, Zenon DEF Config!vars
  <2>. QED  BY <2>1, Zenon DEF ConfigInv, FileIsWhole
<1>. QED  BY <1>1, <1>2, <1>3, Zenon DEF Config!Next

-----------------------------------------------------------------------------
(* ServicesSource: the log chains from state to state.                     *)

\* An entry of the log.
Logs == [unit : ServiceUnits, from : SUBSET UnitStates, to : SUBSET UnitStates]

\* SetToSeq lists every member of a finite set, once.
LEMMA SetInSequence ==
    ASSUME NEW S, IsFiniteSet(S)
    PROVE  /\ Services!SetToSeq(S) \in Seq(S)
           /\ \A e \in S : \E i \in DOMAIN Services!SetToSeq(S) : Services!SetToSeq(S)[i] = e
           /\ \A i, j \in DOMAIN Services!SetToSeq(S) :
                 Services!SetToSeq(S)[i] = Services!SetToSeq(S)[j] => i = j
<1>. DEFINE n == Cardinality(S)
            s == Services!SetToSeq(S)
<1>1. n \in Nat /\ ExistsBijection(1 .. n, S)
  BY FS_CardinalityType
<1>2. Services!Cardinality(S) = n
  BY Zenon DEF Cardinality, Services!Cardinality
<1>3. s = CHOOSE f \in [1 .. n -> S] : Services!IsInjective(f)
  BY <1>2, Zenon DEF Services!SetToSeq
<1>4. PICK g \in [1 .. n -> S] : \A a, b \in 1 .. n : g[a] = g[b] => a = b
  BY <1>1 DEF ExistsBijection, Bijection, Injection, IsInjective
<1>5. Services!IsInjective(g)
  BY <1>4 DEF Services!IsInjective
<1>. HIDE DEF n, s
<1>6. s \in [1 .. n -> S] /\ Services!IsInjective(s)
  BY <1>3, <1>5, Zenon
<1>7. \A a, b \in 1 .. n : s[a] = s[b] => a = b
  BY <1>6 DEF Services!IsInjective
<1>8. s \in Injection(1 .. n, S)
  BY <1>6, <1>7 DEF Injection, IsInjective
<1>9. IsFiniteSet(1 .. n) /\ Cardinality(1 .. n) = n
  BY <1>1, FS_Interval
<1>10. s \in Surjection(1 .. n, S)
  BY <1>8, <1>9, FS_Injection DEF n
<1>11. \A e \in S : \E i \in 1 .. n : s[i] = e
  BY <1>10 DEF Surjection
<1>12. s \in Seq(S)
  BY <1>1, <1>6
<1>. QED  BY <1>6, <1>7, <1>11, <1>12 DEF s

\* The entries about some units, as diffServices lists them.
InSequence(old, new, U) ==
    Services!SetToSeq({Services!Change(u, Services!StateIn(old, u), Services!StateIn(new, u))
                       : u \in U})

\* What is logged of some units: each of them once, with its two states.
LEMMA UnitsInSequence ==
    ASSUME NEW old, NEW new, NEW U \in SUBSET ServiceUnits,
           \A u \in U : /\ Services!StateIn(old, u) \in SUBSET UnitStates
                        /\ Services!StateIn(new, u) \in SUBSET UnitStates,
           NEW s, s = InSequence(old, new, U)
    PROVE  /\ s \in Seq(Logs)
           /\ \A i \in DOMAIN s : /\ s[i].unit \in U
                                  /\ s[i].from = Services!StateIn(old, s[i].unit)
                                  /\ s[i].to = Services!StateIn(new, s[i].unit)
           /\ \A i, j \in DOMAIN s : s[i].unit = s[j].unit => i = j
           /\ \A u \in U : \E i \in DOMAIN s : s[i].unit = u
<1>. DEFINE entry == [u \in U |-> Services!Change(u, Services!StateIn(old, u),
                                                  Services!StateIn(new, u))]
            S == {entry[u] : u \in U}
<1>1. \A u \in U : /\ entry[u] \in Logs /\ entry[u].unit = u
                   /\ entry[u].from = Services!StateIn(old, u)
                   /\ entry[u].to = Services!StateIn(new, u)
  BY DEF Services!Change, Logs
<1>2. s = Services!SetToSeq(S)
  <2>1. S = {Services!Change(u, Services!StateIn(old, u), Services!StateIn(new, u)) : u \in U}
    BY Zenon
  <2>. QED  BY <2>1 DEF InSequence
<1>3. IsFiniteSet(S)
  <2>1. IsFiniteSet(U)
    BY ServicesAssumption, FS_Subset
  <2>2. entry \in Surjection(U, S)
    BY DEF Surjection
  <2>. QED  BY <2>1, <2>2, FS_Surjection
<1>. HIDE DEF entry, S
<1>4. /\ s \in Seq(S)
      /\ \A e \in S : \E i \in DOMAIN s : s[i] = e
      /\ \A i, j \in DOMAIN s : s[i] = s[j] => i = j
  <2>. DEFINE q == Services!SetToSeq(S)
  <2>1. /\ q \in Seq(S)
        /\ \A e \in S : \E i \in DOMAIN q : q[i] = e
        /\ \A i, j \in DOMAIN q : q[i] = q[j] => i = j
    BY <1>3, SetInSequence
  <2>2. s = q
    BY <1>2
  <2>. HIDE DEF q
  <2>. QED  BY <2>1, <2>2
<1>5. \A i \in DOMAIN s : s[i].unit \in U /\ s[i] = entry[s[i].unit]
  <2>1. ASSUME NEW i \in DOMAIN s  PROVE s[i].unit \in U /\ s[i] = entry[s[i].unit]
    <3>1. s[i] \in S
      BY <1>4
    <3>2. PICK u \in U : s[i] = entry[u]
      BY <3>1 DEF S
    <3>. QED  BY <1>1, <3>2
  <2>. QED  BY <2>1
<1>6. \A u \in U : \E i \in DOMAIN s : s[i].unit = u
  <2>1. ASSUME NEW u \in U  PROVE \E i \in DOMAIN s : s[i].unit = u
    <3>1. entry[u] \in S
      BY DEF S
    <3>2. PICK i \in DOMAIN s : s[i] = entry[u]
      BY <1>4, <3>1
    <3>. QED  BY <1>1, <3>2
  <2>. QED  BY <2>1
<1>7. s \in Seq(Logs)
  <2>1. \A i \in DOMAIN s : s[i] \in Logs
    BY <1>1, <1>5
  <2>. QED  BY <1>4, <2>1
<1>8. \A i, j \in DOMAIN s : s[i].unit = s[j].unit => i = j
  BY <1>4, <1>5
<1>9. ASSUME NEW i \in DOMAIN s
      PROVE  /\ s[i].unit \in U
             /\ s[i].from = Services!StateIn(old, s[i].unit)
             /\ s[i].to = Services!StateIn(new, s[i].unit)
  <2>. DEFINE u == s[i].unit
  <2>1. u \in U /\ s[i] = entry[u]
    BY <1>5
  <2>. HIDE DEF u
  <2>2. s[i].from = Services!StateIn(old, u) /\ s[i].to = Services!StateIn(new, u)
    BY <1>1, <2>1
  <2>. QED  BY <2>1, <2>2 DEF u
<1>. QED  BY <1>6, <1>7, <1>8, <1>9

\* A listing knows the states of some units.
LEMMA StatesInListings ==
    ASSUME NEW l \in Services!Listings
    PROVE  /\ DOMAIN l \subseteq ServiceUnits
           /\ \A u : Services!StateIn(l, u) \in SUBSET UnitStates
           /\ \A u : u \notin DOMAIN l <=> Services!StateIn(l, u) = {}
<1>1. PICK U \in SUBSET ServiceUnits : l \in [U -> UnitStates]
  BY DEF Services!Listings
<1>. QED  BY <1>1 DEF Services!StateIn

\* diffServices: every unit whose state is another one, once.
LEMMA DiffTellsUnits ==
    ASSUME NEW old \in Services!Listings, NEW new \in Services!Listings,
           NEW D, D = Services!DiffServices(old, new)
    PROVE  /\ D \in Seq(Logs)
           /\ \A i \in DOMAIN D : /\ D[i].from = Services!StateIn(old, D[i].unit)
                                  /\ D[i].to = Services!StateIn(new, D[i].unit)
           /\ \A i, j \in DOMAIN D : D[i].unit = D[j].unit => i = j
           /\ \A u : Services!StateIn(old, u) # Services!StateIn(new, u)
                        => \E i \in DOMAIN D : D[i].unit = u
<1>. DEFINE U == {u \in DOMAIN new : Services!StateIn(old, u) # Services!StateIn(new, u)}
            V == DOMAIN old \ DOMAIN new
            a == InSequence(old, new, U)
            b == InSequence(old, new, V)
<1>1. D = a \o b
  BY Zenon DEF Services!DiffServices, InSequence
<1>2. /\ \A u : Services!StateIn(old, u) \in SUBSET UnitStates
      /\ \A u : Services!StateIn(new, u) \in SUBSET UnitStates
      /\ U \in SUBSET ServiceUnits /\ V \in SUBSET ServiceUnits
      /\ \A u : u \notin DOMAIN new <=> Services!StateIn(new, u) = {}
      /\ \A u : u \notin DOMAIN old <=> Services!StateIn(old, u) = {}
  BY StatesInListings
<1>3. /\ a \in Seq(Logs)
      /\ \A i \in DOMAIN a : /\ a[i].unit \in U
                             /\ a[i].from = Services!StateIn(old, a[i].unit)
                             /\ a[i].to = Services!StateIn(new, a[i].unit)
      /\ \A i, j \in DOMAIN a : a[i].unit = a[j].unit => i = j
      /\ \A u \in U : \E i \in DOMAIN a : a[i].unit = u
  <2>1. a = InSequence(old, new, U)
    OBVIOUS
  <2>. HIDE DEF U, a
  <2>. QED  BY <1>2, <2>1, UnitsInSequence
<1>4. /\ b \in Seq(Logs)
      /\ \A i \in DOMAIN b : /\ b[i].unit \in V
                             /\ b[i].from = Services!StateIn(old, b[i].unit)
                             /\ b[i].to = Services!StateIn(new, b[i].unit)
      /\ \A i, j \in DOMAIN b : b[i].unit = b[j].unit => i = j
      /\ \A u \in V : \E i \in DOMAIN b : b[i].unit = u
  <2>1. b = InSequence(old, new, V)
    OBVIOUS
  <2>. HIDE DEF V, b
  <2>. QED  BY <1>2, <2>1, UnitsInSequence
<1>5. /\ \A u \in U : u \notin V
      /\ \A u : Services!StateIn(old, u) # Services!StateIn(new, u) => u \in U \cup V
  BY <1>2
<1>. HIDE DEF a, b, U, V
<1>. DEFINE m == Len(a)
            n == Len(b)
<1>6. /\ m \in Nat /\ n \in Nat
      /\ DOMAIN a = 1 .. m /\ DOMAIN b = 1 .. n
      /\ D \in Seq(Logs) /\ DOMAIN D = 1 .. m + n
      /\ \A i \in 1 .. m : D[i] = a[i]
      /\ \A i \in 1 .. m + n : i > m => i - m \in 1 .. n /\ D[i] = b[i - m]
      /\ \A i \in 1 .. n : i + m \in 1 .. m + n /\ D[i + m] = b[i]
  BY <1>1, <1>3, <1>4
<1>. HIDE DEF m, n
<1>7. ASSUME NEW i \in DOMAIN D
      PROVE  /\ D[i].from = Services!StateIn(old, D[i].unit)
             /\ D[i].to = Services!StateIn(new, D[i].unit)
             /\ i <= m => D[i].unit \in U
             /\ i > m => D[i].unit \in V
  <2>1. CASE i <= m
    BY <1>3, <1>6, <2>1
  <2>2. CASE i > m
    BY <1>4, <1>6, <2>2
  <2>. QED  BY <1>6, <2>1, <2>2
<1>8. ASSUME NEW i \in DOMAIN D, NEW j \in DOMAIN D, D[i].unit = D[j].unit
      PROVE  i = j
  <2>1. CASE i <= m /\ j <= m
    BY <1>3, <1>6, <1>8, <2>1
  <2>2. CASE i > m /\ j > m
    <3>1. /\ i - m \in DOMAIN b /\ D[i] = b[i - m]
          /\ j - m \in DOMAIN b /\ D[j] = b[j - m]
      BY <1>6, <2>2
    <3>2. i - m = j - m
      BY <1>4, <1>8, <3>1
    <3>. QED  BY <1>6, <3>2
  <2>3. CASE (i <= m /\ j > m) \/ (i > m /\ j <= m)
    BY <1>5, <1>7, <1>8, <2>3
  <2>. QED  BY <1>6, <2>1, <2>2, <2>3
<1>9. ASSUME NEW u, Services!StateIn(old, u) # Services!StateIn(new, u)
      PROVE  \E i \in DOMAIN D : D[i].unit = u
  <2>1. CASE u \in U
    <3>1. PICK i \in DOMAIN a : a[i].unit = u
      BY <1>3, <2>1
    <3>. QED  BY <1>6, <3>1
  <2>2. CASE u \in V
    <3>1. PICK i \in DOMAIN b : b[i].unit = u
      BY <1>4, <2>2
    <3>. QED  BY <1>6, <3>1
  <2>. QED  BY <1>5, <1>9, <2>1, <2>2
<1>. QED  BY <1>6, <1>7, <1>8, <1>9

\* The newest of the entries below another one exists.
LEMMA MaxOfSome ==
    ASSUME NEW n \in Nat, NEW S \in SUBSET (1 .. n), S # {}
    PROVE  /\ Services!Max(S) \in S
           /\ \A k \in S : k <= Services!Max(S)
<1>. DEFINE T == {n - k : k \in S}
            less == {p \in Nat \X Nat : p[1] < p[2]}
<1>1. T \subseteq Nat /\ T # {}
  <2>1. \A k \in S : n - k \in Nat
    OBVIOUS
  <2>2. PICK x : x \in S
    OBVIOUS
  <2>3. n - x \in T
    BY <2>2
  <2>4. T \subseteq Nat
    BY <2>1, Zenon
  <2>. HIDE DEF T
  <2>. QED  BY <2>3, <2>4
<1>2. IsWellFoundedOn(less, Nat)
  BY NatLessThanWellFounded, Zenon DEF OpToRel
<1>3. PICK m \in T : \A k \in T : ~ (<<k, m>> \in less)
  <2>. HIDE DEF T, less
  <2>. QED  BY <1>1, <1>2, WFMin
<1>4. PICK x \in S : m = n - x
  BY <1>3
<1>5. \A k \in S : x >= k
  <2>1. ASSUME NEW k \in S, ~ (x >= k)  PROVE FALSE
    <3>1. n - k \in T /\ n - k \in Nat /\ m \in Nat /\ n - k < m
      BY <1>4, <2>1
    <3>2. <<n - k, m>> \in less
      BY <3>1
    <3>. HIDE DEF T, less
    <3>. QED  BY <1>3, <3>1, <3>2
  <2>. QED  BY <2>1
<1>6. Services!Max(S) = CHOOSE y \in S : \A k \in S : y >= k
  BY Zenon DEF Services!Max
<1>. DEFINE top == Services!Max(S)
<1>7. top \in S /\ \A k \in S : top >= k
  <2>. HIDE DEF top
  <2>1. top = CHOOSE y \in S : \A k \in S : y >= k
    BY <1>6 DEF top
  <2>. QED  BY <1>4, <1>5, <2>1, Zenon
<1>. HIDE DEF top
<1>8. top \in S /\ \A k \in S : k <= top
  BY <1>7
<1>. QED  BY <1>8 DEF top

\* The changes go in front, the last one first, and the oldest entries go.
LEMMA LoggedEntries ==
    ASSUME NEW D \in Seq(Logs), log \in Seq(Logs), NEW new, new = Services!Logged(D),
           NEW n, n = Len(D)
    PROVE  /\ new \in Seq(Logs)
           /\ \A i \in DOMAIN new :
                 IF i <= n THEN new[i] = D[n + 1 - i]
                 ELSE i - n \in DOMAIN log /\ new[i] = log[i - n]
<1>. DEFINE first == Services!Reverse(D)
            all == first \o log
            size == IF Len(all) < MaxLog THEN Len(all) ELSE MaxLog
<1>1. n \in Nat /\ Len(log) \in Nat /\ MaxLog \in Nat
  BY ServicesAssumption
<1>2. first \in Seq(Logs) /\ Len(first) = n /\ \A i \in 1 .. n : first[i] = D[n + 1 - i]
  <2>1. first = [i \in 1 .. n |-> D[(n - i) + 1]]
    BY DEF Services!Reverse
  <2>2. \A i \in 1 .. n : (n - i) + 1 \in 1 .. n /\ (n - i) + 1 = n + 1 - i
    BY <1>1
  <2>. HIDE DEF first
  <2>3. \A i \in 1 .. n : D[(n - i) + 1] \in Logs
    BY <2>2
  <2>. QED  BY <1>1, <2>1, <2>2, <2>3
<1>3. new = SubSeq(all, 1, size)
  BY Zenon DEF Services!Logged
<1>. HIDE DEF first
<1>4. /\ all \in Seq(Logs) /\ Len(all) = n + Len(log)
      /\ \A i \in 1 .. n : all[i] = D[n + 1 - i]
      /\ \A i \in n + 1 .. n + Len(log) : all[i] = log[i - n]
  <2>1. all \in Seq(Logs) /\ Len(all) = n + Len(log)
    <3>1. first \in Seq(Logs) /\ log \in Seq(Logs)
      BY <1>2
    <3>2. first \o log \in Seq(Logs) /\ Len(first \o log) = Len(first) + Len(log)
      BY <3>1
    <3>. QED  BY <1>2, <3>2
  <2>2. ASSUME NEW i \in 1 .. n  PROVE all[i] = D[n + 1 - i]
    <3>1. all[i] = first[i]
      BY <1>1, <1>2
    <3>. QED  BY <1>2, <3>1
  <2>3. ASSUME NEW i \in n + 1 .. n + Len(log)  PROVE all[i] = log[i - n]
    BY <1>1, <1>2
  <2>. HIDE DEF all
  <2>. QED  BY <2>1, <2>2, <2>3
<1>. HIDE DEF all
<1>5. size \in Nat /\ size <= Len(all)
  BY <1>1, <1>4
<1>. HIDE DEF size
<1>6. new \in Seq(Logs) /\ \A i \in DOMAIN new : i \in 1 .. Len(all) /\ new[i] = all[i]
  BY <1>3, <1>4, <1>5
<1>7. ASSUME NEW i \in DOMAIN new
      PROVE  IF i <= n THEN new[i] = D[n + 1 - i]
             ELSE i - n \in DOMAIN log /\ new[i] = log[i - n]
  <2>1. i \in 1 .. n + Len(log) /\ new[i] = all[i]
    BY <1>4, <1>6
  <2>. QED  BY <1>1, <1>4, <2>1
<1>. QED  BY <1>6, <1>7

\* An entry leads to the one above it about the same unit, or to the listing.
Leads(t, i, listing) ==
    \/ /\ \A j \in 1 .. i - 1 : t[j].unit # t[i].unit
       /\ t[i].to = Services!StateIn(listing, t[i].unit)
    \/ \E m \in 1 .. i - 1 :
          /\ t[m].unit = t[i].unit /\ t[m].from = t[i].to
          /\ \A j \in m + 1 .. i - 1 : t[j].unit # t[i].unit

\* What ServiceLogTellsUnits says, entry by entry.
LEMMA LeadsIsTelling ==
    ASSUME log \in Seq(Logs), NEW l, prev = {l}
    PROVE  Services!ServiceLogTellsUnits <=> \A i \in DOMAIN log : Leads(log, i, l)
<1>. DEFINE newer(i) == {j \in 1 .. (i - 1) : log[j].unit = log[i].unit}
            Tells(i) == IF newer(i) = {} THEN \A p \in prev : log[i].to = Services!StateIn(p, log[i].unit)
                        ELSE log[Services!Max(newer(i))].from = log[i].to
<1>1. ASSUME NEW i \in DOMAIN log  PROVE Tells(i) <=> Leads(log, i, l)
  <2>0. i \in Nat /\ i >= 1
    OBVIOUS
  <2>1. CASE newer(i) = {}
    <3>1. \A j \in 1 .. i - 1 : log[j].unit # log[i].unit
      BY <2>1
    <3>2. Tells(i) <=> log[i].to = Services!StateIn(l, log[i].unit)
      BY <2>1
    <3>. QED  BY <3>1, <3>2 DEF Leads
  <2>2. CASE newer(i) # {}
    <3>. DEFINE S == newer(i)
                top == Services!Max(S)
    <3>1. i - 1 \in Nat /\ S \in SUBSET (1 .. i - 1) /\ S # {}
      BY <2>0, <2>2
    <3>2. top \in S /\ \A k \in S : k <= top
      <4>. HIDE DEF S
      <4>. QED  BY <3>1, MaxOfSome
    <3>3. Tells(i) <=> log[top].from = log[i].to
      BY <2>2
    <3>4. top \in 1 .. i - 1 /\ log[top].unit = log[i].unit
      <4>. HIDE DEF top
      <4>. QED  BY <3>2
    <3>5. \A j \in top + 1 .. i - 1 : log[j].unit # log[i].unit
      <4>. HIDE DEF top
      <4>1. ASSUME NEW j \in top + 1 .. i - 1, log[j].unit = log[i].unit  PROVE FALSE
        <5>1. j \in 1 .. i - 1 /\ j > top
          BY <2>0, <3>4
        <5>2. j \in S
          BY <4>1, <5>1
        <5>. QED  BY <3>2, <3>4, <5>1, <5>2
      <4>. QED  BY <4>1
    <3>6. ASSUME NEW m \in 1 .. i - 1, log[m].unit = log[i].unit,
                 \A j \in m + 1 .. i - 1 : log[j].unit # log[i].unit
          PROVE  m = top
      <4>1. m \in S
        BY <3>6
      <4>. HIDE DEF top, S
      <4>2. m <= top
        BY <3>2, <4>1
      <4>. QED  BY <2>0, <3>4, <3>6, <4>2
    <3>. HIDE DEF top, S, Tells
    <3>7. Tells(i) => Leads(log, i, l)
      BY <3>3, <3>4, <3>5 DEF Leads
    <3>8. Leads(log, i, l) => Tells(i)
      BY <3>3, <3>4, <3>6 DEF Leads
    <3>. QED  BY <3>7, <3>8
  <2>. QED  BY <2>1, <2>2
<1>2. Services!ServiceLogTellsUnits <=> \A i \in DOMAIN log : Tells(i)
  BY DEF Services!ServiceLogTellsUnits
<1>. HIDE DEF Tells
<1>. QED  BY <1>1, <1>2

\* A listing that succeeds keeps every entry leading on.
LEMMA LoggedLeads ==
    ASSUME log \in Seq(Logs), NEW old \in Services!Listings, NEW new \in Services!Listings,
           \A i \in DOMAIN log : Leads(log, i, old),
           NEW t, t = Services!Logged(Services!DiffServices(old, new))
    PROVE  t \in Seq(Logs) /\ \A i \in DOMAIN t : Leads(t, i, new)
<1>. DEFINE D == Services!DiffServices(old, new)
            n == Len(D)
<1>1. /\ D \in Seq(Logs)
      /\ \A i \in DOMAIN D : /\ D[i].from = Services!StateIn(old, D[i].unit)
                             /\ D[i].to = Services!StateIn(new, D[i].unit)
      /\ \A i, j \in DOMAIN D : D[i].unit = D[j].unit => i = j
      /\ \A u : Services!StateIn(old, u) # Services!StateIn(new, u)
                   => \E i \in DOMAIN D : D[i].unit = u
  <2>. HIDE DEF D
  <2>. QED  BY DiffTellsUnits DEF D
<1>. HIDE DEF D
<1>2. /\ t \in Seq(Logs)
      /\ \A i \in DOMAIN t : IF i <= n THEN t[i] = D[n + 1 - i]
                             ELSE i - n \in DOMAIN log /\ t[i] = log[i - n]
  BY <1>1, LoggedEntries DEF D
<1>3. n \in Nat /\ DOMAIN D = 1 .. n
  BY <1>1
<1>. HIDE DEF n
<1>4. ASSUME NEW i \in DOMAIN t  PROVE Leads(t, i, new)
  <2>0. /\ i \in Nat /\ i >= 1
        /\ \A j \in 1 .. i : j \in DOMAIN t
    BY <1>2
  <2>1. CASE i <= n
    <3>1. t[i] = D[n + 1 - i] /\ n + 1 - i \in DOMAIN D
      BY <1>2, <1>3, <2>0, <2>1
    <3>2. ASSUME NEW j \in 1 .. i - 1, t[j].unit = t[i].unit  PROVE FALSE
      <4>1. t[j] = D[n + 1 - j] /\ n + 1 - j \in DOMAIN D /\ n + 1 - j # n + 1 - i
        <5>0. j \in 1 .. i /\ j \in Int /\ j < i
          BY <2>0
        <5>1. j \in DOMAIN t /\ j <= n
          BY <1>3, <2>0, <2>1, <5>0
        <5>2. t[j] = D[n + 1 - j]
          BY <1>2, <5>1
        <5>3. n + 1 - j \in 1 .. n /\ n + 1 - j # n + 1 - i
          BY <1>3, <2>0, <2>1, <5>0, <5>1
        <5>. QED  BY <1>3, <5>2, <5>3, Zenon
      <4>. QED  BY <1>1, <3>1, <3>2, <4>1
    <3>3. t[i].to = Services!StateIn(new, t[i].unit)
      <4>. DEFINE d == n + 1 - i
      <4>1. t[i] = D[d] /\ d \in DOMAIN D
        BY <3>1
      <4>. HIDE DEF d
      <4>. QED  BY <1>1, <4>1
    <3>. QED  BY <3>2, <3>3 DEF Leads
  <2>2. CASE i > n
    <3>. DEFINE k == i - n
                u == log[k].unit
    <3>1. k \in DOMAIN log /\ k \in Nat /\ k >= 1 /\ t[i] = log[k] /\ i = k + n
      BY <1>2, <1>3, <2>0, <2>2
    <3>2. \A j \in 1 .. k - 1 : j + n \in 1 .. i - 1 /\ t[j + n] = log[j]
      <4>1. ASSUME NEW j \in 1 .. k - 1  PROVE j + n \in 1 .. i - 1 /\ t[j + n] = log[j]
        <5>1. j + n \in DOMAIN t /\ ~ (j + n <= n) /\ (j + n) - n = j /\ j + n \in 1 .. i - 1
          BY <1>3, <2>0, <3>1
        <5>. QED  BY <1>2, <5>1
      <4>. QED  BY <4>1
    <3>3. Leads(log, k, old)
      BY <3>1
    <3>. HIDE DEF k
    <3>4. CASE \E m \in 1 .. k - 1 : /\ log[m].unit = log[k].unit /\ log[m].from = log[k].to
                                    /\ \A j \in m + 1 .. k - 1 : log[j].unit # log[k].unit
      <4>1. PICK m \in 1 .. k - 1 : /\ log[m].unit = log[k].unit /\ log[m].from = log[k].to
                                    /\ \A j \in m + 1 .. k - 1 : log[j].unit # log[k].unit
        BY <3>4
      <4>2. m + n \in 1 .. i - 1 /\ t[m + n] = log[m]
        BY <3>2
      <4>3. ASSUME NEW j \in (m + n) + 1 .. i - 1  PROVE t[j].unit # t[i].unit
        <5>1. j - n \in m + 1 .. k - 1 /\ j - n \in 1 .. k - 1 /\ (j - n) + n = j
          BY <1>3, <2>0, <3>1
        <5>. QED  BY <3>1, <3>2, <4>1, <5>1
      <4>. QED  BY <3>1, <4>1, <4>2, <4>3 DEF Leads
    <3>5. CASE /\ \A j \in 1 .. k - 1 : log[j].unit # log[k].unit
               /\ log[k].to = Services!StateIn(old, log[k].unit)
      <4>1. ASSUME NEW j \in n + 1 .. i - 1  PROVE t[j].unit # t[i].unit
        <5>1. j - n \in 1 .. k - 1 /\ (j - n) + n = j
          BY <1>3, <2>0, <3>1
        <5>. QED  BY <3>1, <3>2, <3>5, <5>1
      <4>2. CASE \E d \in DOMAIN D : D[d].unit = u
        <5>1. PICK d \in DOMAIN D : D[d].unit = u
          BY <4>2
        <5>. DEFINE m == n + 1 - d
        <5>2. m \in 1 .. n /\ m \in 1 .. i - 1 /\ m \in DOMAIN t /\ n + 1 - m = d
          BY <1>3, <2>0, <2>2
        <5>. HIDE DEF m
        <5>3. t[m] = D[d]
          BY <1>2, <5>2
        <5>4. t[m].unit = t[i].unit /\ t[m].from = t[i].to
          BY <1>1, <3>1, <3>5, <5>1, <5>3
        <5>5. ASSUME NEW j \in m + 1 .. i - 1, t[j].unit = t[i].unit  PROVE FALSE
          <6>1. j <= n /\ j \in DOMAIN t /\ j # m /\ j \in 1 .. n
            BY <1>3, <2>0, <4>1, <5>2, <5>5
          <6>2. t[j] = D[n + 1 - j] /\ n + 1 - j \in DOMAIN D /\ n + 1 - j # d
            BY <1>2, <1>3, <5>2, <6>1
          <6>. QED  BY <1>1, <3>1, <5>1, <5>5, <6>2
        <5>. QED  BY <5>2, <5>4, <5>5 DEF Leads
      <4>3. CASE ~ \E d \in DOMAIN D : D[d].unit = u
        <5>1. Services!StateIn(new, u) = Services!StateIn(old, u)
          BY <1>1, <4>3
        <5>2. ASSUME NEW j \in 1 .. i - 1, t[j].unit = t[i].unit  PROVE FALSE
          <6>1. j <= n /\ j \in DOMAIN t
            BY <1>3, <2>0, <4>1, <5>2
          <6>2. t[j] = D[n + 1 - j] /\ n + 1 - j \in DOMAIN D
            BY <1>2, <1>3, <6>1
          <6>. QED  BY <3>1, <4>3, <5>2, <6>2
        <5>. QED  BY <3>1, <3>5, <5>1, <5>2 DEF Leads
      <4>. QED  BY <4>2, <4>3
    <3>. QED  BY <3>3, <3>4, <3>5 DEF Leads
  <2>. QED  BY <1>3, <2>0, <2>1, <2>2
<1>. QED  BY <1>2, <1>4

\* The listing compared with next is the one the log leads to.
LogInv ==
    /\ log \in Seq(Logs)
    /\ prev = {} => log = <<>>
    /\ prev # {} => \E l \in Services!Listings : prev = {l}
    /\ \A l : prev = {l} => \A i \in DOMAIN log : Leads(log, i, l)

LEMMA LogInvInit ==
    ASSUME Services!Init  PROVE LogInv
<1>1. prev = {} /\ log = <<>>
  BY Zenon DEF Services!Init
<1>. QED  BY <1>1 DEF LogInv

\* A listing that succeeds is the one the log leads to from then on.
LEMMA SucceedKeepsLog ==
    ASSUME LogInv, NEW units \in Services!Listings, Services!Succeed(units)
    PROVE  LogInv'
<1>1. /\ prev' = {units}
      /\ log' \in IF prev = {} THEN {log}
                  ELSE {Services!Logged(Services!DiffServices(p, units)) : p \in prev}
  BY Zenon DEF Services!Succeed
<1>2. log \in Seq(Logs)
  BY Zenon DEF LogInv
<1>3. log' \in Seq(Logs) /\ \A i \in DOMAIN log' : Leads(log', i, units)
  <2>1. CASE prev = {}
    <3>1. log' = <<>>
      BY <1>1, <2>1, Zenon DEF LogInv
    <3>. QED  BY <3>1
  <2>2. CASE prev # {}
    <3>1. PICK l \in Services!Listings : prev = {l}
      BY <2>2, Zenon DEF LogInv
    <3>2. log' = Services!Logged(Services!DiffServices(l, units))
      BY <1>1, <3>1, Zenon
    <3>3. \A i \in DOMAIN log : Leads(log, i, l)
      BY <3>1, Zenon DEF LogInv
    <3>. QED  BY <1>2, <3>2, <3>3, LoggedLeads, Zenon
  <2>. QED  BY <2>1, <2>2
<1>4. \A l : prev' = {l} => l = units
  BY <1>1, Zenon
<1>. QED  BY <1>1, <1>3, <1>4, Zenon DEF LogInv, Leads

LEMMA LogInvStep ==
    ASSUME LogInv, [Services!Next]_(Services!vars)  PROVE LogInv'
<1>1. CASE UNCHANGED <<prev, log>>
  BY <1>1, Zenon DEF LogInv, Leads
<1>2. CASE Services!OnFinished
  <2>1. CASE \E units \in Services!Listings : Services!Succeed(units)
    BY <2>1, SucceedKeepsLog, Zenon
  <2>2. CASE Services!EmitFailure
    BY <1>1, <2>2, Zenon DEF Services!EmitFailure
  <2>. QED  BY <1>2, <2>1, <2>2, Zenon DEF Services!OnFinished
<1>3. Services!Start \/ Services!OnTimeout \/ Services!OnStarted \/ Services!OnStartFailure
      \/ Services!Stop \/ UNCHANGED Services!vars => UNCHANGED <<prev, log>>
  BY Zenon DEF Services!Start, Services!OnTimeout, Services!OnStarted, Services!OnStartFailure,
     Services!Stop, Services!BeginQuery, Services!EmitFailure, Services!vars
<1>. QED  BY <1>1, <1>2, <1>3, Zenon DEF Services!Next

\* The log tells the units because its entries lead to the listing.
LEMMA LogInvTells ==
    ASSUME LogInv  PROVE Services!ServiceLogTellsUnits
<1>1. CASE prev = {}
  <2>1. log = <<>>
    BY <1>1, Zenon DEF LogInv
  <2>2. DOMAIN log = {}
    BY <2>1
  <2>. QED  BY <2>2, Zenon DEF Services!ServiceLogTellsUnits
<1>2. CASE prev # {}
  <2>1. PICK l \in Services!Listings : prev = {l}
    BY <1>2, Zenon DEF LogInv
  <2>. QED  BY <2>1, LeadsIsTelling, Zenon DEF LogInv
<1>. QED  BY <1>1, <1>2

-----------------------------------------------------------------------------
(* Counting.                                                               *)

\* Induction up to a bound, over a set in place of a predicate.
LEMMA CountUp ==
    ASSUME NEW n \in Nat, NEW K, 0 \in K, \A k \in 0 .. n - 1 : k \in K => k + 1 \in K
    PROVE  n \in K
<1>. SUFFICES ASSUME n \notin K  PROVE FALSE
  OBVIOUS
<1>. DEFINE rest == (0 .. n) \ K
            less == {p \in Nat \X Nat : p[1] < p[2]}
<1>1. rest \subseteq Nat /\ rest # {}
  OBVIOUS
<1>2. IsWellFoundedOn(less, Nat)
  BY NatLessThanWellFounded, Zenon DEF OpToRel
<1>3. PICK m \in rest : \A k \in rest : ~ (<<k, m>> \in less)
  <2>. HIDE DEF rest, less
  <2>. QED  BY <1>1, <1>2, WFMin
<1>4. m \in 1 .. n /\ m - 1 \in 0 .. n
  OBVIOUS
<1>5. m - 1 \in K
  <2>1. <<m - 1, m>> \in less
    BY <1>4
  <2>2. m - 1 \notin rest
    <3>. HIDE DEF rest, less
    <3>. QED  BY <1>3, <2>1
  <2>. QED  BY <1>4, <2>2
<1>. QED  BY <1>4, <1>5

LEMMA LeastOf ==
    ASSUME NEW S \in SUBSET Nat, S # {}
    PROVE  \E m \in S : \A k \in S : m <= k
<1>. DEFINE less == {p \in Nat \X Nat : p[1] < p[2]}
<1>2. IsWellFoundedOn(less, Nat)
  BY NatLessThanWellFounded, Zenon DEF OpToRel
<1>3. PICK m \in S : \A k \in S : ~ (<<k, m>> \in less)
  <2>. HIDE DEF less
  <2>. QED  BY <1>2, WFMin
<1>4. ASSUME NEW k \in S  PROVE m <= k
  <2>1. ~ (<<k, m>> \in less)
    <3>. HIDE DEF less
    <3>. QED  BY <1>3
  <2>. QED  BY <2>1
<1>. QED  BY <1>4

LEMMA LargestOf ==
    ASSUME NEW S \in SUBSET Int, IsFiniteSet(S), S # {}
    PROVE  \E m \in S : \A k \in S : k <= m
<1>. DEFINE Has(T) == \E m \in T : \A k \in T : k <= m
            N == Cardinality(S)
            K == {n \in 0 .. N : \A T \in SUBSET S : (Cardinality(T) = n /\ T # {}) => Has(T)}
<1>1. /\ N \in Nat
      /\ \A T \in SUBSET S : IsFiniteSet(T) /\ Cardinality(T) \in Nat
  BY FS_Subset, FS_CardinalityType
<1>2. 0 \in K
  <2>1. \A T \in SUBSET S : Cardinality(T) = 0 => T = {}
    BY <1>1, FS_EmptySet
  <2>2. 0 \in 0 .. N
    BY <1>1
  <2>. HIDE DEF Has, N
  <2>. QED  BY <2>1, <2>2
<1>3. ASSUME NEW n \in 0 .. N - 1, n \in K  PROVE n + 1 \in K
  <2>1. n \in Nat /\ n + 1 \in 0 .. N
    BY <1>1
  <2>2. ASSUME NEW T \in SUBSET S, Cardinality(T) = n + 1, T # {}  PROVE Has(T)
    <3>1. PICK x \in T : TRUE
      BY <2>2
    <3>2. T \ {x} \in SUBSET S /\ Cardinality(T \ {x}) = n
      <4>1. Cardinality(T \ {x}) = Cardinality(T) - 1
        BY <1>1, <3>1, FS_RemoveElement
      <4>. QED  BY <2>1, <2>2, <4>1
    <3>3. CASE T \ {x} = {}
      <4>1. T = {x} /\ x \in Int
        BY <3>1, <3>3
      <4>. QED  BY <4>1
    <3>4. CASE T \ {x} # {}
      <4>1. Has(T \ {x})
        <5>. HIDE DEF Has
        <5>. QED  BY <1>3, <3>2, <3>4
      <4>2. PICK m \in T \ {x} : \A k \in T \ {x} : k <= m
        BY <4>1
      <4>3. CASE x <= m
        BY <4>2, <4>3
      <4>4. CASE ~ (x <= m)
        <5>1. x \in Int /\ m \in Int
          BY <3>1
        <5>2. \A k \in T : k <= x
          <6>1. ASSUME NEW k \in T, k # x  PROVE k <= x
            <7>1. k \in Int /\ k <= m
              BY <4>2, <6>1
            <7>. QED  BY <4>4, <5>1, <7>1
          <6>. QED  BY <5>1, <6>1
        <5>. QED  BY <5>2
      <4>. QED  BY <4>3, <4>4
    <3>. QED  BY <3>3, <3>4
  <2>. HIDE DEF Has
  <2>. QED  BY <2>1, <2>2
<1>4. N \in K
  <2>. HIDE DEF K, N
  <2>. QED  BY <1>1, <1>2, <1>3, CountUp
<1>5. Has(S)
  <2>. HIDE DEF Has
  <2>. QED  BY <1>4
<1>. QED  BY <1>5

LEMMA PartOf ==
    ASSUME NEW S, NEW t \in Seq(S), NEW a \in 1 .. Len(t), NEW b \in a .. Len(t)
    PROVE  /\ SubSeq(t, a, b) \in Seq(S) /\ Len(SubSeq(t, a, b)) = b - a + 1
           /\ \A i \in 1 .. b - a + 1 : SubSeq(t, a, b)[i] = t[i + a - 1]
<1>1. a \in Nat /\ b \in Nat /\ a <= b /\ b <= Len(t) /\ a >= 1 /\ b - a + 1 \in Nat
  OBVIOUS
<1>2. SubSeq(t, a, b) \in Seq(S) /\ Len(SubSeq(t, a, b)) = b - a + 1
  BY <1>1
<1>3. ASSUME NEW i \in 1 .. b - a + 1  PROVE SubSeq(t, a, b)[i] = t[i + a - 1]
  <2>1. SubSeq(t, a, b)[i] = t[a + i - 1] /\ a + i - 1 = i + a - 1
    BY <1>1
  <2>. QED  BY <2>1
<1>. QED  BY <1>2, <1>3

LEMMA MovedCount ==
    ASSUME NEW S \in SUBSET Int, IsFiniteSet(S), NEW d \in Int
    PROVE  IsFiniteSet({i + d : i \in S}) /\ Cardinality({i + d : i \in S}) = Cardinality(S)
<1>. DEFINE T == {i + d : i \in S}
            f == [i \in S |-> i + d]
<1>1. f \in Injection(S, T)
  <2>1. \A i, j \in S : i + d = j + d => i = j
    <3>1. \A i, j \in Int : i + d = j + d => i = j
      OBVIOUS
    <3>. QED  BY <3>1
  <2>2. f \in [S -> T] /\ \A i \in S : f[i] = i + d
    OBVIOUS
  <2>. HIDE DEF f, T
  <2>3. \A i, j \in S : f[i] = f[j] => i = j
    BY <2>1, <2>2
  <2>. QED  BY <2>2, <2>3, Zenon DEF Injection, IsInjective
<1>2. f \in Surjection(S, T)
  BY DEF Surjection
<1>3. ExistsBijection(S, T)
  <2>. HIDE DEF f, T
  <2>. QED  BY <1>1, <1>2 DEF ExistsBijection, Bijection
<1>4. IsFiniteSet(T) /\ Cardinality(T) = Cardinality(S)
  <2>. HIDE DEF T
  <2>. QED  BY <1>3, FS_Bijection
<1>. QED  BY <1>4

-----------------------------------------------------------------------------
(* Sums over finite sets.                                                  *)

\* FS_Induction over a set of sets in place of a predicate.
LEMMA SetByElements ==
    ASSUME NEW S, IsFiniteSet(S), NEW K, {} \in K,
           \A T \in SUBSET S : \A x \in S \ T : T \in K => T \cup {x} \in K
    PROVE  S \in K
<1>. DEFINE N == Cardinality(S)
            C == {n \in 0 .. N : \A T \in SUBSET S : Cardinality(T) = n => T \in K}
<1>1. /\ N \in Nat
      /\ \A T \in SUBSET S : IsFiniteSet(T) /\ Cardinality(T) \in Nat
  BY FS_Subset, FS_CardinalityType
<1>2. 0 \in C
  <2>1. \A T \in SUBSET S : Cardinality(T) = 0 => T = {}
    BY <1>1, FS_EmptySet
  <2>2. 0 \in 0 .. N
    BY <1>1
  <2>. HIDE DEF N
  <2>. QED  BY <2>1, <2>2
<1>3. ASSUME NEW n \in 0 .. N - 1, n \in C  PROVE n + 1 \in C
  <2>1. n \in Nat /\ n + 1 \in 0 .. N
    BY <1>1
  <2>2. ASSUME NEW T \in SUBSET S, Cardinality(T) = n + 1  PROVE T \in K
    <3>1. T # {}
      BY <2>1, <2>2, FS_EmptySet
    <3>2. PICK x \in T : TRUE
      BY <3>1
    <3>3. Cardinality(T \ {x}) = Cardinality(T) - 1
      BY <1>1, FS_RemoveElement
    <3>4. Cardinality(T \ {x}) = n /\ T \ {x} \in SUBSET S
      BY <2>1, <2>2, <3>3
    <3>5. T \ {x} \in K
      BY <1>3, <3>4
    <3>6. x \in S \ (T \ {x}) /\ (T \ {x}) \cup {x} = T
      OBVIOUS
    <3>. QED  BY <3>4, <3>5, <3>6
  <2>. QED  BY <2>1, <2>2
<1>4. N \in C
  <2>. HIDE DEF C, N
  <2>. QED  BY <1>1, <1>2, <1>3, CountUp
<1>. QED  BY <1>4

\* A table of the sums of f over the subsets of S, as the fold computes them.
Pick(T) == CHOOSE x \in T : TRUE

IsSum(g, f, S) ==
    /\ g \in [SUBSET S -> Int]
    /\ \A T \in SUBSET S : g[T] = IF T = {} THEN 0 ELSE f[Pick(T)] + g[T \ {Pick(T)}]

LEMMA SumTable ==
    ASSUME NEW f, NEW S, IsFiniteSet(S), \A x \in S : f[x] \in Int
    PROVE  \E g : IsSum(g, f, S)
<1>. DEFINE N == Cardinality(S)
            Sub(n) == {T \in SUBSET S : Cardinality(T) <= n}
            Runs(g, n) == \A T \in Sub(n) :
                             g[T] = IF T = {} THEN 0 ELSE f[Pick(T)] + g[T \ {Pick(T)}]
            K == {n \in 0 .. N : \E g \in [Sub(n) -> Int] : Runs(g, n)}
<1>1. /\ N \in Nat
      /\ \A T \in SUBSET S : IsFiniteSet(T) /\ Cardinality(T) \in Nat /\ Cardinality(T) <= N
  BY FS_Subset, FS_CardinalityType
<1>2. \A T \in SUBSET S : T # {} => /\ Pick(T) \in T /\ Pick(T) \in S /\ T \ {Pick(T)} \in SUBSET S
                                    /\ Cardinality(T \ {Pick(T)}) = Cardinality(T) - 1
  <2>1. ASSUME NEW T \in SUBSET S, T # {}  PROVE Pick(T) \in T
    BY <2>1, Zenon DEF Pick
  <2>. QED  BY <1>1, <2>1, FS_RemoveElement
<1>3. 0 \in K
  <2>. DEFINE g == [T \in Sub(0) |-> 0]
  <2>1. \A T \in Sub(0) : T = {}
    BY <1>1, FS_EmptySet
  <2>2. g \in [Sub(0) -> Int] /\ Runs(g, 0)
    <3>1. \A T \in Sub(0) : g[T] = 0
      OBVIOUS
    <3>2. g \in [Sub(0) -> Int]
      OBVIOUS
    <3>. HIDE DEF g, Sub
    <3>. QED  BY <2>1, <3>1, <3>2
  <2>3. 0 \in 0 .. N
    BY <1>1
  <2>. HIDE DEF g, Runs, Sub, N
  <2>. QED  BY <2>2, <2>3
<1>4. ASSUME NEW n \in 0 .. N - 1, n \in K  PROVE n + 1 \in K
  <2>1. PICK g \in [Sub(n) -> Int] : Runs(g, n)
    BY <1>4
  <2>2. n \in Nat /\ n + 1 \in 0 .. N
    BY <1>1
  <2>. DEFINE Value(T) == IF T = {} THEN 0 ELSE f[Pick(T)] + g[T \ {Pick(T)}]
              h == [T \in Sub(n + 1) |-> IF T \in Sub(n) THEN g[T] ELSE Value(T)]
  <2>3. ASSUME NEW T \in Sub(n + 1)
        PROVE  Value(T) \in Int /\ (T # {} => T \ {Pick(T)} \in Sub(n))
    <3>1. T \in SUBSET S /\ Cardinality(T) \in Nat /\ Cardinality(T) <= n + 1
      BY <1>1
    <3>2. CASE T = {}
      BY <3>2
    <3>3. CASE T # {}
      <4>1. /\ Pick(T) \in S /\ T \ {Pick(T)} \in SUBSET S
            /\ Cardinality(T \ {Pick(T)}) = Cardinality(T) - 1
        BY <1>2, <3>1, <3>3
      <4>2. T \ {Pick(T)} \in Sub(n)
        BY <2>2, <3>1, <4>1
      <4>3. g[T \ {Pick(T)}] \in Int /\ f[Pick(T)] \in Int
        <5>. HIDE DEF Sub
        <5>. QED  BY <4>1, <4>2
      <4>. QED  BY <3>3, <4>2, <4>3
    <3>. QED  BY <3>2, <3>3
  <2>4. \A T \in Sub(n) : T \in Sub(n + 1) /\ g[T] \in Int /\ g[T] = Value(T)
    <3>1. \A T \in Sub(n) : T \in Sub(n + 1)
      <4>1. ASSUME NEW T \in Sub(n)  PROVE T \in Sub(n + 1)
        <5>1. Cardinality(T) \in Nat /\ Cardinality(T) <= n
          BY <1>1
        <5>. QED  BY <2>2, <5>1
      <4>. HIDE DEF Sub
      <4>. QED  BY <4>1
    <3>. HIDE DEF Sub
    <3>. QED  BY <2>1, <3>1
  <2>5. h \in [Sub(n + 1) -> Int]
    <3>. HIDE DEF Sub, Value
    <3>. QED  BY <2>3, <2>4
  <2>6. Runs(h, n + 1)
    <3>1. ASSUME NEW T \in Sub(n + 1)
          PROVE  h[T] = IF T = {} THEN 0 ELSE f[Pick(T)] + h[T \ {Pick(T)}]
      <4>1. h[T] = Value(T)
        <5>. HIDE DEF Sub, Value
        <5>. QED  BY <2>4
      <4>2. CASE T = {}
        BY <4>1, <4>2
      <4>3. CASE T # {}
        <5>1. T \ {Pick(T)} \in Sub(n)
          <6>. HIDE DEF Sub, Value
          <6>. QED  BY <2>3, <4>3
        <5>2. h[T \ {Pick(T)}] = g[T \ {Pick(T)}]
          <6>. HIDE DEF Sub, Value
          <6>. QED  BY <2>4, <5>1
        <5>. HIDE DEF h, Sub
        <5>. QED  BY <4>1, <4>3, <5>2
      <4>. QED  BY <4>2, <4>3
    <3>. HIDE DEF h, Sub
    <3>. QED  BY <3>1
  <2>. HIDE DEF h, Sub, Runs, N
  <2>. QED  BY <2>2, <2>5, <2>6
<1>5. N \in K
  <2>. HIDE DEF K, N
  <2>. QED  BY <1>1, <1>3, <1>4, CountUp
<1>6. PICK g \in [Sub(N) -> Int] : Runs(g, N)
  BY <1>5
<1>7. Sub(N) = SUBSET S
  BY <1>1
<1>8. IsSum(g, f, S)
  <2>. HIDE DEF Sub, N
  <2>. QED  BY <1>6, <1>7 DEF IsSum
<1>. QED  BY <1>8

\* Whatever satisfies the equations is that table.
Follows(h, f, R, S) ==
    /\ R \in SUBSET S
    /\ \A T \in SUBSET R : h[T] = IF T = {} THEN 0 ELSE f[Pick(T)] + h[T \ {Pick(T)}]

LEMMA SumsAgree ==
    ASSUME NEW f, NEW S, IsFiniteSet(S), NEW g, IsSum(g, f, S),
           NEW R, NEW h, Follows(h, f, R, S)
    PROVE  \A T \in SUBSET R : h[T] = g[T]
<1>. DEFINE N == Cardinality(R)
            K == {n \in 0 .. N : \A T \in SUBSET R : Cardinality(T) = n => h[T] = g[T]}
<1>. R \in SUBSET S
  BY DEF Follows
<1>1. /\ N \in Nat
      /\ \A T \in SUBSET R : IsFiniteSet(T) /\ Cardinality(T) \in Nat /\ Cardinality(T) <= N
  BY FS_Subset, FS_CardinalityType
<1>2. \A T \in SUBSET R : T # {} => /\ Pick(T) \in T /\ T \ {Pick(T)} \in SUBSET R
                                    /\ Cardinality(T \ {Pick(T)}) = Cardinality(T) - 1
  <2>1. ASSUME NEW T \in SUBSET R, T # {}  PROVE Pick(T) \in T
    BY <2>1, Zenon DEF Pick
  <2>. QED  BY <1>1, <2>1, FS_RemoveElement
<1>3. \A T \in SUBSET R : g[T] = IF T = {} THEN 0 ELSE f[Pick(T)] + g[T \ {Pick(T)}]
  BY DEF IsSum
<1>4. \A n \in 0 .. N : n \in K
  <2>. SUFFICES ASSUME NEW n \in 0 .. N  PROVE n \in K
    OBVIOUS
  <2>1. 0 \in K
    <3>1. \A T \in SUBSET R : Cardinality(T) = 0 => T = {}
      BY <1>1, FS_EmptySet
    <3>2. h[{}] = 0 /\ g[{}] = 0 /\ 0 \in 0 .. N
      BY <1>1, <1>3 DEF Follows
    <3>. HIDE DEF N
    <3>. QED  BY <3>1, <3>2
  <2>2. ASSUME NEW m \in 0 .. n - 1, m \in K  PROVE m + 1 \in K
    <3>1. m \in Nat /\ m + 1 \in 0 .. N
      BY <1>1
    <3>2. ASSUME NEW T \in SUBSET R, Cardinality(T) = m + 1  PROVE h[T] = g[T]
      <4>1. T # {}
        <5>1. Cardinality({}) = 0
          BY FS_EmptySet
        <5>2. m + 1 # 0
          BY <3>1
        <5>. QED  BY <3>2, <5>1, <5>2, Zenon
      <4>2. T \ {Pick(T)} \in SUBSET R /\ Cardinality(T \ {Pick(T)}) = m
        BY <1>2, <3>1, <3>2, <4>1
      <4>3. h[T \ {Pick(T)}] = g[T \ {Pick(T)}]
        BY <2>2, <4>2
      <4>4. h[T] = f[Pick(T)] + h[T \ {Pick(T)}] /\ g[T] = f[Pick(T)] + g[T \ {Pick(T)}]
        BY <1>3, <4>1 DEF Follows
      <4>. QED  BY <4>3, <4>4
    <3>. QED  BY <3>1, <3>2
  <2>3. n \in Nat
    BY <1>1
  <2>. HIDE DEF K, N
  <2>. QED  BY <2>1, <2>2, <2>3, CountUp
<1>5. ASSUME NEW T \in SUBSET R  PROVE h[T] = g[T]
  <2>1. Cardinality(T) \in 0 .. N
    BY <1>1
  <2>2. Cardinality(T) \in K
    <3>. HIDE DEF K, N
    <3>. QED  BY <1>4, <2>1
  <2>. QED  BY <2>2
<1>. QED  BY <1>5

\* What the library's sum is.
LEMMA SumIsSum ==
    ASSUME NEW f, NEW S, IsFiniteSet(S), \A x \in S : f[x] \in Int,
           NEW g, IsSum(g, f, S), NEW R \in SUBSET S
    PROVE  SumFunctionOnSet(f, R) = g[R]
<1>. DEFINE Fold(t) == [s \in SUBSET R |->
                           IF s = {} THEN 0
                           ELSE LET x == CHOOSE x \in s : TRUE IN f[x] + t[s \ {x}]]
            iter == CHOOSE t : t = Fold(t)
<1>1. SumFunctionOnSet(f, R) = iter[R]
  BY Zenon DEF SumFunctionOnSet, FoldFunctionOnSet, MapThenFoldSet
<1>2. PICK t : IsSum(t, f, R)
  BY FS_Subset, SumTable
<1>3. t = Fold(t)
  BY <1>2 DEF IsSum, Pick
<1>4. iter = Fold(iter)
  <2>. HIDE DEF Fold
  <2>. QED  BY <1>3
<1>5. Follows(iter, f, R, S)
  <2>. HIDE DEF iter
  <2>. QED  BY <1>4 DEF Pick, Follows
<1>6. \A T \in SUBSET R : iter[T] = g[T]
  <2>. HIDE DEF iter
  <2>. QED  BY <1>5, SumsAgree
<1>. QED  BY <1>1, <1>6

\* Any element may be the one added last.
LEMMA SumStep ==
    ASSUME NEW f, NEW S, IsFiniteSet(S), \A x \in S : f[x] \in Int, NEW g, IsSum(g, f, S)
    PROVE  \A T \in SUBSET S : \A x \in T : g[T] = f[x] + g[T \ {x}]
<1>. DEFINE N == Cardinality(S)
            Steps(T) == \A x \in T : g[T] = f[x] + g[T \ {x}]
            K == {n \in 0 .. N : \A T \in SUBSET S : Cardinality(T) = n => Steps(T)}
<1>1. /\ N \in Nat
      /\ \A T \in SUBSET S : IsFiniteSet(T) /\ Cardinality(T) \in Nat /\ Cardinality(T) <= N
  BY FS_Subset, FS_CardinalityType
<1>2. \A T \in SUBSET S : g[T] \in Int /\ (T # {} => g[T] = f[Pick(T)] + g[T \ {Pick(T)}])
  BY DEF IsSum
<1>3. ASSUME NEW n \in 0 .. N  PROVE n \in K
  <2>1. 0 \in K
    <3>1. \A T \in SUBSET S : Cardinality(T) = 0 => T = {}
      BY <1>1, FS_EmptySet
    <3>2. 0 \in 0 .. N
      BY <1>1
    <3>. HIDE DEF N
    <3>. QED  BY <3>1, <3>2
  <2>2. ASSUME NEW m \in 0 .. n - 1, m \in K  PROVE m + 1 \in K
    <3>1. m \in Nat /\ m + 1 \in 0 .. N
      BY <1>1
    <3>2. ASSUME NEW T \in SUBSET S, Cardinality(T) = m + 1, NEW x \in T
          PROVE  g[T] = f[x] + g[T \ {x}]
      <4>. DEFINE c == Pick(T)
      <4>1. c \in T
        BY Zenon DEF Pick
      <4>2. g[T] = f[c] + g[T \ {c}]
        BY <1>2
      <4>3. CASE x = c
        BY <4>2, <4>3
      <4>4. CASE x # c
        <5>. HIDE DEF c
        <5>1. /\ T \ {c} \in SUBSET S /\ Cardinality(T \ {c}) = m /\ x \in T \ {c}
              /\ T \ {x} \in SUBSET S /\ Cardinality(T \ {x}) = m /\ c \in T \ {x}
          <6>1. Cardinality(T \ {c}) = Cardinality(T) - 1 /\ Cardinality(T \ {x}) = Cardinality(T) - 1
            BY <1>1, <4>1, FS_RemoveElement
          <6>. QED  BY <3>1, <3>2, <4>1, <4>4, <6>1
        <5>2. Steps(T \ {c}) /\ Steps(T \ {x})
          <6>. HIDE DEF Steps
          <6>. QED  BY <2>2, <5>1
        <5>3. /\ g[T \ {c}] = f[x] + g[(T \ {c}) \ {x}]
              /\ g[T \ {x}] = f[c] + g[(T \ {x}) \ {c}]
          BY <5>1, <5>2
        <5>4. (T \ {c}) \ {x} = (T \ {x}) \ {c} /\ (T \ {x}) \ {c} \in SUBSET S
          OBVIOUS
        <5>. DEFINE r == g[(T \ {x}) \ {c}]
        <5>5. r \in Int /\ f[x] \in Int /\ f[c] \in Int
          BY <1>2, <4>1, <5>4
        <5>6. g[T \ {c}] = f[x] + r /\ g[T \ {x}] = f[c] + r
          BY <5>3, <5>4
        <5>. HIDE DEF r
        <5>. QED  BY <4>2, <5>5, <5>6
      <4>. QED  BY <4>3, <4>4
    <3>. HIDE DEF N
    <3>. QED  BY <3>1, <3>2
  <2>3. n \in Nat
    BY <1>1
  <2>. HIDE DEF K, N
  <2>. QED  BY <2>1, <2>2, <2>3, CountUp
<1>4. ASSUME NEW T \in SUBSET S  PROVE Steps(T)
  <2>1. Cardinality(T) \in 0 .. N
    BY <1>1
  <2>2. Cardinality(T) \in K
    <3>. HIDE DEF K, N
    <3>. QED  BY <1>3, <2>1
  <2>. HIDE DEF Steps
  <2>. QED  BY <2>2
<1>. QED  BY <1>4

LEMMA SumOfNone == \A f : SumFunctionOnSet(f, {}) = 0
<1>. SUFFICES ASSUME NEW f  PROVE SumFunctionOnSet(f, {}) = 0
  OBVIOUS
<1>1. IsFiniteSet({}) /\ \A x \in {} : f[x] \in Int
  BY FS_EmptySet
<1>2. PICK g : IsSum(g, f, {})
  BY <1>1, SumTable
<1>3. SumFunctionOnSet(f, {}) = g[{}]
  BY <1>1, <1>2, SumIsSum
<1>. QED  BY <1>2, <1>3 DEF IsSum

LEMMA SumWith ==
    ASSUME NEW f, NEW S, IsFiniteSet(S), \A x \in S : f[x] \in Int
    PROVE  /\ SumFunctionOnSet(f, S) \in Int
           /\ \A x \in S : SumFunctionOnSet(f, S) = f[x] + SumFunctionOnSet(f, S \ {x})
<1>1. PICK g : IsSum(g, f, S)
  BY SumTable
<1>2. \A R \in SUBSET S : SumFunctionOnSet(f, R) = g[R] /\ g[R] \in Int
  <2>1. \A R \in SUBSET S : SumFunctionOnSet(f, R) = g[R]
    BY <1>1, SumIsSum
  <2>. QED  BY <1>1, <2>1 DEF IsSum
<1>3. ASSUME NEW x \in S  PROVE SumFunctionOnSet(f, S) = f[x] + SumFunctionOnSet(f, S \ {x})
  <2>1. g[S] = f[x] + g[S \ {x}]
    BY <1>1, SumStep
  <2>2. SumFunctionOnSet(f, S) = g[S] /\ SumFunctionOnSet(f, S \ {x}) = g[S \ {x}]
    BY <1>2
  <2>. QED  BY <2>1, <2>2
<1>. QED  BY <1>2, <1>3

\* Values that agree on what is added have the same sum.
LEMMA SumSame ==
    ASSUME NEW S, IsFiniteSet(S), NEW f, NEW g, \A x \in S : f[x] \in Int /\ f[x] = g[x]
    PROVE  SumFunctionOnSet(f, S) = SumFunctionOnSet(g, S)
<1>. DEFINE K == {T \in SUBSET S : SumFunctionOnSet(f, T) = SumFunctionOnSet(g, T)}
<1>1. {} \in K
  BY SumOfNone
<1>2. ASSUME NEW T \in SUBSET S, NEW x \in S \ T, T \in K  PROVE T \cup {x} \in K
  <2>1. /\ IsFiniteSet(T \cup {x}) /\ x \in T \cup {x} /\ (T \cup {x}) \ {x} = T
        /\ T \cup {x} \in SUBSET S
    <3>1. T \cup {x} \in SUBSET S
      OBVIOUS
    <3>. QED  BY <3>1, FS_Subset
  <2>2. (\A y \in T \cup {x} : f[y] \in Int) /\ (\A y \in T \cup {x} : g[y] \in Int)
    OBVIOUS
  <2>3. SumFunctionOnSet(f, T \cup {x}) = f[x] + SumFunctionOnSet(f, (T \cup {x}) \ {x})
    BY <2>1, <2>2, SumWith
  <2>4. SumFunctionOnSet(g, T \cup {x}) = g[x] + SumFunctionOnSet(g, (T \cup {x}) \ {x})
    BY <2>1, <2>2, SumWith
  <2>5. SumFunctionOnSet(f, T) = SumFunctionOnSet(g, T) /\ f[x] = g[x]
    BY <1>2
  <2>. QED  BY <2>1, <2>3, <2>4, <2>5
<1>3. S \in K
  <2>. HIDE DEF K
  <2>. QED  BY <1>1, <1>2, SetByElements
<1>. QED  BY <1>3

\* A sum with one more.
LEMMA SumAdded ==
    ASSUME NEW S, IsFiniteSet(S), NEW x, x \notin S, NEW f, f[x] \in Int,
           NEW g, \A y \in S : f[y] \in Int /\ f[y] = g[y]
    PROVE  /\ IsFiniteSet(S \cup {x}) /\ Cardinality(S \cup {x}) = Cardinality(S) + 1
           /\ SumFunctionOnSet(f, S \cup {x}) = f[x] + SumFunctionOnSet(g, S)
<1>1. IsFiniteSet(S \cup {x}) /\ Cardinality(S \cup {x}) = Cardinality(S) + 1
  BY FS_AddElement
<1>2. (\A y \in S \cup {x} : f[y] \in Int) /\ x \in S \cup {x} /\ (S \cup {x}) \ {x} = S
  OBVIOUS
<1>3. SumFunctionOnSet(f, S \cup {x}) = f[x] + SumFunctionOnSet(f, (S \cup {x}) \ {x})
  BY <1>1, <1>2, SumWith
<1>4. SumFunctionOnSet(f, S) = SumFunctionOnSet(g, S)
  BY SumSame
<1>. QED  BY <1>1, <1>2, <1>3, <1>4

\* What is split into parts that share nothing is counted by its parts.
LEMMA SumOfClasses ==
    ASSUME NEW A, IsFiniteSet(A), NEW G, IsFiniteSet(G), NEW cls \in [G -> SUBSET A],
           NEW f \in [G -> Int], \A g \in G : f[g] = Cardinality(cls[g]),
           \A g, h \in G : g # h => cls[g] \cap cls[h] = {}
    PROVE  SumFunctionOnSet(f, G) = Cardinality(UNION {cls[g] : g \in G})
<1>. DEFINE All(T) == UNION {cls[g] : g \in T}
            K == {T \in SUBSET G : SumFunctionOnSet(f, T) = Cardinality(All(T))}
<1>1. {} \in K
  <2>1. All({}) = {}
    OBVIOUS
  <2>2. Cardinality({}) = 0 /\ SumFunctionOnSet(f, {}) = 0
    BY FS_EmptySet, SumOfNone
  <2>. HIDE DEF All
  <2>. QED  BY <2>1, <2>2
<1>2. ASSUME NEW T \in SUBSET G, NEW x \in G \ T, T \in K  PROVE T \cup {x} \in K
  <2>1. SumFunctionOnSet(f, T \cup {x}) = f[x] + SumFunctionOnSet(f, T)
    <3>1. IsFiniteSet(T \cup {x}) /\ \A y \in T \cup {x} : f[y] \in Int
      <4>1. T \cup {x} \in SUBSET G
        OBVIOUS
      <4>. QED  BY <4>1, FS_Subset
    <3>2. SumFunctionOnSet(f, T \cup {x}) = f[x] + SumFunctionOnSet(f, (T \cup {x}) \ {x})
      <4>1. x \in T \cup {x}
        OBVIOUS
      <4>. QED  BY <3>1, <4>1, SumWith
    <3>3. (T \cup {x}) \ {x} = T
      OBVIOUS
    <3>. QED  BY <3>2, <3>3
  <2>2. All(T \cup {x}) = All(T) \cup cls[x]
    OBVIOUS
  <2>3. All(T) \cap cls[x] = {}
    OBVIOUS
  <2>4. /\ IsFiniteSet(All(T)) /\ Cardinality(All(T)) \in Nat
        /\ IsFiniteSet(cls[x]) /\ Cardinality(cls[x]) \in Nat
    <3>1. All(T) \subseteq A /\ cls[x] \subseteq A
      OBVIOUS
    <3>. HIDE DEF All
    <3>. QED  BY <3>1, FS_Subset, FS_CardinalityType
  <2>5. Cardinality(All(T) \cup cls[x]) = Cardinality(All(T)) + Cardinality(cls[x])
    <3>. HIDE DEF All
    <3>1. Cardinality(All(T) \cup cls[x])
              = Cardinality(All(T)) + Cardinality(cls[x]) - Cardinality(All(T) \cap cls[x])
      BY <2>4, FS_Union
    <3>2. Cardinality(All(T) \cap cls[x]) = 0
      BY <2>3, FS_EmptySet
    <3>. QED  BY <2>4, <3>1, <3>2
  <2>6. SumFunctionOnSet(f, T) = Cardinality(All(T)) /\ f[x] = Cardinality(cls[x])
    BY <1>2
  <2>7. T \cup {x} \in SUBSET G
    OBVIOUS
  <2>. HIDE DEF All
  <2>8. SumFunctionOnSet(f, T \cup {x}) = Cardinality(All(T \cup {x}))
    <3>1. Cardinality(All(T \cup {x})) = Cardinality(All(T)) + Cardinality(cls[x])
      BY <2>2, <2>5
    <3>. QED  BY <2>1, <2>4, <2>6, <3>1
  <2>. QED  BY <2>7, <2>8
<1>3. G \in K
  <2>. HIDE DEF K
  <2>. QED  BY <1>1, <1>2, SetByElements
<1>. QED  BY <1>3

LEMMA SumOfNaturals ==
    ASSUME NEW S, IsFiniteSet(S), NEW f, \A x \in S : f[x] \in Nat
    PROVE  SumFunctionOnSet(f, S) \in Nat
<1>. DEFINE K == {T \in SUBSET S : SumFunctionOnSet(f, T) \in Nat}
<1>1. {} \in K
  BY SumOfNone
<1>2. ASSUME NEW T \in SUBSET S, NEW x \in S \ T, T \in K  PROVE T \cup {x} \in K
  <2>1. /\ IsFiniteSet(T \cup {x}) /\ x \in T \cup {x} /\ (T \cup {x}) \ {x} = T
        /\ T \cup {x} \in SUBSET S
    <3>1. T \cup {x} \in SUBSET S
      OBVIOUS
    <3>. QED  BY <3>1, FS_Subset
  <2>2. \A y \in T \cup {x} : f[y] \in Int
    OBVIOUS
  <2>3. SumFunctionOnSet(f, T \cup {x}) = f[x] + SumFunctionOnSet(f, T)
    BY <2>1, <2>2, SumWith
  <2>4. f[x] \in Nat /\ SumFunctionOnSet(f, T) \in Nat
    BY <1>2
  <2>. QED  BY <2>1, <2>3, <2>4
<1>3. S \in K
  <2>. HIDE DEF K
  <2>. QED  BY <1>1, <1>2, SetByElements
<1>. QED  BY <1>3

LEMMA SumAtMost ==
    ASSUME NEW S, IsFiniteSet(S), NEW f, NEW m \in Int, \A x \in S : f[x] \in Int /\ f[x] <= m
    PROVE  SumFunctionOnSet(f, S) \in Int /\ SumFunctionOnSet(f, S) <= m * Cardinality(S)
<1>. DEFINE K == {T \in SUBSET S : SumFunctionOnSet(f, T) \in Int
                                     /\ SumFunctionOnSet(f, T) <= m * Cardinality(T)}
<1>1. {} \in K
  <2>1. SumFunctionOnSet(f, {}) = 0 /\ Cardinality({}) = 0
    BY SumOfNone, FS_EmptySet
  <2>2. 0 <= m * 0
    OBVIOUS
  <2>. QED  BY <2>1, <2>2
<1>2. ASSUME NEW T \in SUBSET S, NEW x \in S \ T, T \in K  PROVE T \cup {x} \in K
  <2>1. IsFiniteSet(T) /\ T \cup {x} \in SUBSET S /\ Cardinality(T) \in Nat
    BY FS_Subset, FS_CardinalityType
  <2>2. /\ f[x] \in Int /\ f[x] <= m /\ \A y \in T \cup {x} : f[y] \in Int
        /\ IsFiniteSet(T \cup {x}) /\ x \in T \cup {x} /\ (T \cup {x}) \ {x} = T
    BY <2>1, FS_Subset
  <2>3. SumFunctionOnSet(f, T \cup {x}) = f[x] + SumFunctionOnSet(f, T)
    BY <2>2, SumWith
  <2>4. Cardinality(T \cup {x}) = Cardinality(T) + 1
    BY <2>1, FS_AddElement
  <2>5. m * (Cardinality(T) + 1) = m * Cardinality(T) + m /\ m * Cardinality(T) \in Int
    BY <2>1
  <2>6. SumFunctionOnSet(f, T) \in Int /\ SumFunctionOnSet(f, T) <= m * Cardinality(T)
    BY <1>2
  <2>. QED  BY <2>1, <2>2, <2>3, <2>4, <2>5, <2>6
<1>3. S \in K
  <2>. HIDE DEF K
  <2>. QED  BY <1>1, <1>2, SetByElements
<1>. QED  BY <1>3

-----------------------------------------------------------------------------
(* Extremes and order statistics of finitely many numbers.                  *)

LEMMA LeastWhole ==
    ASSUME NEW S \in SUBSET Int, IsFiniteSet(S), S # {}
    PROVE  \E m \in S : \A k \in S : m <= k
<1>. DEFINE Round == {0 - w : w \in S}
            f == [w \in S |-> 0 - w]
<1>1. f \in Surjection(S, Round)
  BY DEF Surjection
<1>2. IsFiniteSet(Round) /\ Round \in SUBSET Int /\ Round # {}
  <2>1. Round \in SUBSET Int /\ Round # {}
    <3>1. \A w \in S : 0 - w \in Int
      OBVIOUS
    <3>2. PICK w \in S : TRUE
      OBVIOUS
    <3>3. 0 - w \in Round
      OBVIOUS
    <3>. QED  BY <3>1, <3>3
  <2>2. IsFiniteSet(Round)
    <3>. HIDE DEF Round, f
    <3>. QED  BY <1>1, FS_Surjection
  <2>. QED  BY <2>1, <2>2
<1>3. PICK m \in Round : \A x \in Round : x <= m
  BY <1>2, LargestOf
<1>4. PICK v \in S : m = 0 - v
  BY <1>3
<1>5. \A w \in S : 0 - w <= 0 - v
  BY <1>3, <1>4
<1>6. \A w \in S : v <= w
  BY <1>5
<1>. QED  BY <1>6

Under(f, v) == {i \in DOMAIN f : f[i] < v}
AtMost(f, v) == {i \in DOMAIN f : f[i] <= v}
ValuesOf(f) == {f[i] : i \in DOMAIN f}

\* v is the k-th of the values, sorted.
IsRanked(f, k, v) ==
    /\ v \in ValuesOf(f)
    /\ Cardinality(Under(f, v)) < k
    /\ k <= Cardinality(AtMost(f, v))

LEMMA SidesAreFinite ==
    ASSUME NEW D, IsFiniteSet(D), NEW f \in [D -> Int]
    PROVE  /\ IsFiniteSet(ValuesOf(f)) /\ ValuesOf(f) \subseteq Int
           /\ \A v \in Int :
                  /\ IsFiniteSet(Under(f, v)) /\ Cardinality(Under(f, v)) \in Nat
                  /\ IsFiniteSet(AtMost(f, v)) /\ Cardinality(AtMost(f, v)) \in Nat
<1>1. DOMAIN f = D /\ \A i \in D : f[i] \in Int
  OBVIOUS
<1>2. f \in Surjection(D, ValuesOf(f))
  BY DEF Surjection, ValuesOf
<1>3. IsFiniteSet(ValuesOf(f))
  BY <1>2, FS_Surjection
<1>4. \A T \in SUBSET D : IsFiniteSet(T) /\ Cardinality(T) \in Nat
  <2>1. \A T \in SUBSET D : IsFiniteSet(T)
    BY FS_Subset
  <2>. QED  BY <2>1, FS_CardinalityType
<1>5. \A v \in Int : Under(f, v) \in SUBSET D /\ AtMost(f, v) \in SUBSET D
  BY <1>1 DEF Under, AtMost
<1>6. ValuesOf(f) \subseteq Int
  BY <1>1 DEF ValuesOf
<1>. QED  BY <1>3, <1>4, <1>5, <1>6, Zenon

LEMMA RankedExists ==
    ASSUME NEW D, IsFiniteSet(D), NEW f \in [D -> Int], NEW k \in Int, 1 <= k, k <= Cardinality(D)
    PROVE  \E v \in ValuesOf(f) : IsRanked(f, k, v)
<1>. DEFINE Enough == {v \in ValuesOf(f) : k <= Cardinality(AtMost(f, v))}
            Low(v) == {w \in ValuesOf(f) : w < v}
<1>1. DOMAIN f = D /\ \A i \in D : f[i] \in Int
  OBVIOUS
<1>2. IsFiniteSet(ValuesOf(f)) /\ ValuesOf(f) \subseteq Int /\ ValuesOf(f) # {}
  <2>1. D # {}
    <3>1. Cardinality({}) = 0
      BY FS_EmptySet
    <3>2. ASSUME D = {}  PROVE FALSE
      <4>1. Cardinality(D) = 0
        BY <3>1, <3>2, Zenon
      <4>. QED  BY <4>1
    <3>. QED  BY <3>2
  <2>. QED  BY <2>1, SidesAreFinite DEF ValuesOf
<1>3. PICK top \in ValuesOf(f) : \A w \in ValuesOf(f) : w <= top
  BY <1>2, LargestOf
<1>4. top \in Enough
  <2>1. AtMost(f, top) = D
    BY <1>1, <1>3 DEF AtMost, ValuesOf
  <2>. QED  BY <1>3, <2>1
<1>5. PICK v \in Enough : \A w \in Enough : v <= w
  <2>1. IsFiniteSet(Enough) /\ Enough \in SUBSET Int
    BY <1>2, FS_Subset
  <2>. HIDE DEF Enough
  <2>. QED  BY <1>4, <2>1, LeastWhole
<1>6. v \in ValuesOf(f) /\ v \in Int /\ k <= Cardinality(AtMost(f, v))
  BY <1>2, <1>5
<1>7. ASSUME k <= Cardinality(Under(f, v))  PROVE FALSE
  <2>1. Cardinality(Under(f, v)) \in Nat
    BY <1>6, SidesAreFinite
  <2>2. Under(f, v) # {}
    <3>1. Cardinality({}) = 0
      BY FS_EmptySet
    <3>2. ASSUME Under(f, v) = {}  PROVE FALSE
      <4>1. Cardinality(Under(f, v)) = 0
        BY <3>1, <3>2, Zenon
      <4>. QED  BY <1>7, <2>1, <4>1
    <3>. QED  BY <3>2
  <2>3. IsFiniteSet(Low(v)) /\ Low(v) \in SUBSET Int /\ Low(v) # {}
    BY <1>2, <2>2, FS_Subset DEF Under, ValuesOf
  <2>4. PICK w \in Low(v) : \A x \in Low(v) : x <= w
    BY <2>3, LargestOf
  <2>5. AtMost(f, w) = Under(f, v)
    BY <1>1, <1>6, <2>3, <2>4 DEF AtMost, Under, ValuesOf
  <2>6. w \in Enough
    BY <1>7, <2>4, <2>5
  <2>. QED  BY <1>5, <1>6, <2>3, <2>4, <2>6
<1>8. Cardinality(Under(f, v)) < k
  BY <1>6, <1>7, SidesAreFinite
<1>. QED  BY <1>6, <1>8 DEF IsRanked

LEMMA RankedOnce ==
    ASSUME NEW D, IsFiniteSet(D), NEW f \in [D -> Int], NEW k \in Int, NEW v \in Int, NEW w \in Int,
           IsRanked(f, k, v), IsRanked(f, k, w)
    PROVE  v = w
<1>1. ASSUME NEW a \in Int, NEW b \in Int, IsRanked(f, k, a), IsRanked(f, k, b), a < b
      PROVE  FALSE
  <2>1. \A i \in DOMAIN f : f[i] \in Int
    OBVIOUS
  <2>2. AtMost(f, a) \subseteq Under(f, b)
    BY <1>1, <2>1 DEF AtMost, Under
  <2>3. Cardinality(AtMost(f, a)) <= Cardinality(Under(f, b))
    BY <2>2, SidesAreFinite, FS_Subset
  <2>4. k <= Cardinality(AtMost(f, a)) /\ Cardinality(Under(f, b)) < k
    BY <1>1 DEF IsRanked
  <2>. QED  BY <2>3, <2>4, SidesAreFinite
<1>. QED  BY <1>1

-----------------------------------------------------------------------------
(* JournalSource: what is shown is a listing of some entries.              *)

JournalInv == \A s \in shown : s = Journal!Failure \/ \E list \in Journal!Journals : s = Journal!Listing(list)

LEMMA JournalInvInit == Journal!Init => JournalInv
  BY DEF Journal!Init, JournalInv

LEMMA JournalInvStep == JournalInv /\ [Journal!Next]_(Journal!vars) => JournalInv'
<1>. SUFFICES ASSUME JournalInv, [Journal!Next]_(Journal!vars)  PROVE JournalInv'
  OBVIOUS
<1>. USE DEF JournalInv
<1>1. CASE Journal!Start
  BY <1>1 DEF Journal!Start, Journal!BeginQuery, Journal!EmitFailure
<1>2. CASE Journal!OnTimeout
  BY <1>2 DEF Journal!OnTimeout, Journal!BeginQuery, Journal!EmitFailure
<1>3. CASE Journal!OnStarted
  BY <1>3 DEF Journal!OnStarted
<1>4. CASE Journal!OnStartFailure
  BY <1>4 DEF Journal!OnStartFailure, Journal!EmitFailure
<1>5. CASE Journal!OnFinished
  BY <1>5 DEF Journal!OnFinished, Journal!EmitFailure
<1>6. CASE Journal!Stop
  BY <1>6 DEF Journal!Stop
<1>7. CASE UNCHANGED Journal!vars
  BY <1>7 DEF Journal!vars
<1>. QED  BY <1>1, <1>2, <1>3, <1>4, <1>5, <1>6, <1>7 DEF Journal!Next

LEMMA JournalSums ==
    /\ \A S : Journal!Cardinality(S) = Cardinality(S)
    /\ \A f : Journal!SumFunction(f) = SumFunctionOnSet(f, DOMAIN f)
  BY Zenon DEF Journal!SumFunction, Journal!SumFunctionOnSet, Journal!FoldFunctionOnSet,
     Journal!MapThenFoldSet, SumFunctionOnSet, FoldFunctionOnSet, MapThenFoldSet,
     Journal!Cardinality, Cardinality

\* The errors a group stands for are the ones with its print.
LEMMA GroupIsItsPrint ==
    ASSUME NEW list \in Journal!Journals, NEW g \in Journal!ErrorGroups(list)
    PROVE  /\ g = Journal!Group(list, g.print)
           /\ g.print = <<g.comm, Masked[g.sample]>>
           /\ g.count = Cardinality(Journal!Own(list, g.print))
<1>1. PICK i \in Journal!Errors(list) : g = Journal!Group(list, Journal!Fingerprint(list[i]))
  BY DEF Journal!ErrorGroups
<1>. DEFINE print == Journal!Fingerprint(list[i])
            own == Journal!Own(list, print)
<1>2. i \in own /\ own \in SUBSET Nat
  <2>1. DOMAIN list \in SUBSET Nat
    BY JournalAssumption DEF Journal!Journals
  <2>. QED  BY <1>1, <2>1 DEF Journal!Own, Journal!Errors
<1>3. Journal!Min(own) \in own
  <2>1. \E m \in own : \A k \in own : m <= k
    <3>. HIDE DEF own
    <3>. QED  BY <1>2, LeastOf
  <2>. HIDE DEF own
  <2>. QED  BY <2>1 DEF Journal!Min
<1>4. /\ g.print = print /\ g.comm = list[Journal!Min(own)].comm
      /\ g.sample = list[Journal!Min(own)].msg /\ g.count = Journal!Cardinality(own)
  BY <1>1 DEF Journal!Group
<1>5. Journal!Fingerprint(list[Journal!Min(own)]) = print
  BY <1>3 DEF Journal!Own
<1>6. print = <<g.comm, Masked[g.sample]>>
  <2>. HIDE DEF print, own
  <2>. QED  BY <1>4, <1>5 DEF Journal!Fingerprint
<1>7. g.count = Cardinality(own)
  <2>. HIDE DEF own
  <2>. QED  BY <1>4, JournalSums
<1>. QED  BY <1>1, <1>4, <1>6, <1>7

LEMMA GroupsCountErrors ==
    ASSUME NEW list \in Journal!Journals
    PROVE  Journal!Cardinality(Journal!Errors(list))
               = Journal!SumFunction([g \in Journal!ErrorGroups(list) |-> g.count])
<1>. DEFINE A == Journal!Errors(list)
            G == Journal!ErrorGroups(list)
            cls == [g \in G |-> Journal!Own(list, g.print)]
            f == [g \in G |-> g.count]
<1>1. IsFiniteSet(A)
  <2>1. PICK n \in 0 .. MaxEntries : list \in [1 .. n -> JournalEntries]
    BY DEF Journal!Journals
  <2>2. A \in SUBSET (1 .. n)
    BY <2>1 DEF Journal!Errors
  <2>3. IsFiniteSet(1 .. n)
    BY FS_Interval, <2>1, JournalAssumption
  <2>. QED  BY <2>2, <2>3, FS_Subset
<1>2. IsFiniteSet(G)
  <2>. DEFINE Made(i) == Journal!Group(list, Journal!Fingerprint(list[i]))
  <2>1. [i \in A |-> Made(i)] \in Surjection(A, G)
    BY DEF Journal!ErrorGroups, Surjection
  <2>. HIDE DEF G, A, Made
  <2>. QED  BY <1>1, <2>1, FS_Surjection
<1>3. cls \in [G -> SUBSET A]
  BY DEF Journal!Own
<1>4. f \in [G -> Int] /\ \A g \in G : f[g] = Cardinality(cls[g])
  <2>1. ASSUME NEW g \in G  PROVE g.count = Cardinality(cls[g]) /\ g.count \in Int
    <3>1. g.count = Cardinality(Journal!Own(list, g.print))
      BY GroupIsItsPrint
    <3>2. Cardinality(cls[g]) \in Nat
      <4>. HIDE DEF cls, G, A
      <4>. QED  BY <1>1, <1>3, FS_Subset, FS_CardinalityType
    <3>. QED  BY <3>1, <3>2
  <2>. HIDE DEF G, cls
  <2>. QED  BY <2>1
<1>5. ASSUME NEW g \in G, NEW h \in G, g # h  PROVE cls[g] \cap cls[h] = {}
  <2>1. g.print # h.print
    BY <1>5, GroupIsItsPrint
  <2>. QED  BY <2>1 DEF Journal!Own
<1>6. UNION {cls[g] : g \in G} = A
  <2>1. ASSUME NEW i \in A  PROVE \E g \in G : i \in cls[g]
    <3>. DEFINE g == Journal!Group(list, Journal!Fingerprint(list[i]))
    <3>1. g \in G
      BY DEF Journal!ErrorGroups
    <3>2. g.print = Journal!Fingerprint(list[i])
      BY DEF Journal!Group
    <3>3. i \in cls[g]
      <4>. HIDE DEF g, G
      <4>. QED  BY <3>1, <3>2 DEF Journal!Own
    <3>. QED  BY <3>1, <3>3
  <2>2. \A g \in G : cls[g] \subseteq A
    <3>. HIDE DEF cls, G, A
    <3>. QED  BY <1>3
  <2>. HIDE DEF cls, G, A
  <2>. QED  BY <2>1, <2>2
<1>7. SumFunctionOnSet(f, G) = Cardinality(A)
  <2>. HIDE DEF cls, G, A, f
  <2>. QED  BY <1>1, <1>2, <1>3, <1>4, <1>5, <1>6, SumOfClasses
<1>8. DOMAIN f = G
  OBVIOUS
<1>. HIDE DEF f, G, A
<1>9. Journal!SumFunction(f) = Cardinality(A) /\ Journal!Cardinality(A) = Cardinality(A)
  BY <1>7, <1>8, JournalSums
<1>. QED  BY <1>9 DEF f, G, A

LEMMA JournalInvTells == JournalInv => Journal!GroupsPartitionErrors
<1>. SUFFICES ASSUME JournalInv, NEW s \in shown
              PROVE  /\ s.errorCount = Journal!SumFunction([g \in s.groups |-> g.count])
                     /\ \A g, h \in s.groups :
                            g.comm = h.comm /\ Masked[g.sample] = Masked[h.sample] => g = h
  BY DEF Journal!GroupsPartitionErrors
<1>1. CASE s = Journal!Failure
  <2>. DEFINE f == [g \in {} |-> g.count]
  <2>1. s.groups = {} /\ s.errorCount = 0
    BY <1>1 DEF Journal!Failure
  <2>2. DOMAIN f = {}
    OBVIOUS
  <2>3. Journal!SumFunction(f) = 0
    <3>. HIDE DEF f
    <3>. QED  BY <2>2, JournalSums, SumOfNone
  <2>4. s.errorCount = Journal!SumFunction([g \in s.groups |-> g.count])
    BY <2>1, <2>3
  <2>. QED  BY <2>1, <2>4
<1>2. CASE \E list \in Journal!Journals : s = Journal!Listing(list)
  <2>1. PICK list \in Journal!Journals : s = Journal!Listing(list)
    BY <1>2
  <2>2. s.groups = Journal!ErrorGroups(list) /\ s.errorCount = Journal!Cardinality(Journal!Errors(list))
    BY <2>1 DEF Journal!Listing
  <2>3. s.errorCount = Journal!SumFunction([g \in s.groups |-> g.count])
    BY <2>2, GroupsCountErrors
  <2>4. ASSUME NEW g \in s.groups, NEW h \in s.groups,
               g.comm = h.comm, Masked[g.sample] = Masked[h.sample]
        PROVE  g = h
    <3>1. g.print = h.print
      BY <2>2, <2>4, GroupIsItsPrint
    <3>. QED  BY <2>2, <3>1, GroupIsItsPrint
  <2>. QED  BY <2>3, <2>4
<1>. QED  BY <1>1, <1>2 DEF JournalInv

-----------------------------------------------------------------------------
(* SloTracker: what was dropped is in no window.                           *)

Samples == [good : BOOLEAN, at : Times]

\* The samples are those after d, and each one before is too old for a later one.
KeptAfter(d) ==
    /\ samples = SubSeq(history, d + 1, Len(history)) /\ (d = 0 \/ d < Len(history))
    /\ \A i \in 1 .. d : \E j \in DOMAIN history : history[i].at < history[j].at - Keep

SloInv ==
    /\ history \in Seq(Samples)
    /\ Len(history) <= MaxSamples => \E d \in 0 .. Len(history) : KeptAfter(d)
    /\ shown \subseteq {Slo!EvaluateSlo(samples)}

LEMMA SameCount == \A S : Slo!Cardinality(S) = Cardinality(S)
BY Zenon DEF Cardinality, Slo!Cardinality

LEMMA SloInvInit == Slo!Init => SloInv
<1> SUFFICES ASSUME Slo!Init  PROVE SloInv
  OBVIOUS
<1>1. samples = <<>> /\ history = <<>> /\ shown = {}
  BY Zenon DEF Slo!Init
<1>2. KeptAfter(0)
  BY <1>1 DEF KeptAfter
<1>. QED  BY <1>1, <1>2 DEF SloInv

\* The least place of some up to n.
LEMMA SloMin ==
    ASSUME NEW S \in SUBSET Nat, S # {}
    PROVE  Slo!Min(S) \in S /\ \A k \in S : Slo!Min(S) <= k
<1>1. PICK m \in S : \A k \in S : m <= k
  BY LeastOf
<1>2. Slo!Min(S) = CHOOSE x \in S : \A y \in S : x <= y
  BY Zenon DEF Slo!Min
<1>. QED  BY <1>1, <1>2, Zenon

LEMMA SloMax ==
    ASSUME NEW S \in SUBSET Int, IsFiniteSet(S), S # {}
    PROVE  Slo!Max(S) \in S /\ \A k \in S : k <= Slo!Max(S)
<1>1. PICK m \in S : \A k \in S : k <= m
  BY LargestOf
<1>2. m \in S /\ \A k \in S : m >= k
  BY <1>1
<1>3. Slo!Max(S) = CHOOSE x \in S : \A y \in S : x >= y
  BY Zenon DEF Slo!Max
<1>4. Slo!Max(S) \in S /\ \A k \in S : Slo!Max(S) >= k
  BY <1>2, <1>3, Zenon
<1>5. \A k \in S : k \in Int
  OBVIOUS
<1>. QED  BY <1>4, <1>5

\* Pruning drops the head as long as it is too old, and nothing below the limit.
LEMMA PrunedIsEnd ==
    ASSUME NEW list \in Seq(Samples), NEW n, n = Len(list), n >= 1, n <= MaxSamples,
           NEW time, list[n].at = time
    PROVE  \E m \in 1 .. n : /\ Slo!Pruned(list, time) = SubSeq(list, m, n)
                             /\ \A i \in 1 .. m - 1 : list[i].at < time - Keep
<1>. DEFINE kept == {i \in DOMAIN list : list[i].at >= time - Keep}
            m == Slo!Min(kept \cup {n})
            young == SubSeq(list, m, n)
<1>1. n \in Nat /\ DOMAIN list = 1 .. n /\ MaxSamples \in Nat /\ Keep \in Nat
  BY SloAssumption
<1>2. \A i \in 1 .. n : list[i].at \in Int
  <2>1. ASSUME NEW i \in 1 .. n  PROVE list[i].at \in Int
    <3>1. list[i] \in Samples
      BY <1>1
    <3>. QED  BY <3>1, SloAssumption DEF Samples
  <2>. QED  BY <2>1
<1>3. m \in kept \cup {n} /\ \A k \in kept \cup {n} : m <= k
  <2>1. kept \cup {n} \in SUBSET Nat
    BY <1>1
  <2>. HIDE DEF kept
  <2>. QED  BY <2>1, SloMin
<1>4. m \in 1 .. n
  BY <1>1, <1>3
<1>5. \A i \in 1 .. m - 1 : list[i].at < time - Keep
  <2>1. ASSUME NEW i \in 1 .. m - 1  PROVE list[i].at < time - Keep
    <3>1. i \in 1 .. n /\ ~ (m <= i)
      BY <1>1, <1>4
    <3>2. i \notin kept
      <4>. HIDE DEF kept, m
      <4>. QED  BY <1>3, <3>1
    <3>3. time \in Int
      BY <1>1, <1>2
    <3>. QED  BY <1>1, <1>2, <3>1, <3>2, <3>3
  <2>. QED  BY <2>1
<1>. HIDE DEF m
<1>6. Len(young) = n - m + 1 /\ Len(young) <= MaxSamples /\ young \in Seq(Samples)
  BY <1>1, <1>4
<1>7. Slo!Max({1, Len(young) - MaxSamples + 1}) = 1
  <2>. DEFINE S == {1, Len(young) - MaxSamples + 1}
  <2>1. Len(young) - MaxSamples + 1 \in Int /\ Len(young) - MaxSamples + 1 <= 1
    BY <1>1, <1>4, <1>6
  <2>2. S \in SUBSET Int /\ 1 \in S /\ \A k \in S : k <= 1
    <3>. DEFINE c == Len(young) - MaxSamples + 1
    <3>1. c \in Int /\ c <= 1
      BY <2>1
    <3>2. S = {1, c}
      OBVIOUS
    <3>. HIDE DEF c, S
    <3>. QED  BY <3>1, <3>2
  <2>3. IsFiniteSet(S)
    <3>1. S = {1} \cup {Len(young) - MaxSamples + 1}
      OBVIOUS
    <3>. HIDE DEF S
    <3>. QED  BY <3>1, FS_Singleton, FS_AddElement
  <2>4. Slo!Max(S) \in S /\ \A k \in S : k <= Slo!Max(S)
    <3>. HIDE DEF S
    <3>. QED  BY <2>2, <2>3, SloMax
  <2>. DEFINE top == Slo!Max(S)
  <2>5. top = 1
    <3>1. top \in Int /\ top <= 1 /\ 1 <= top
      <4>. HIDE DEF top, S
      <4>1. top \in S /\ 1 <= top
        BY <2>2, <2>4 DEF top
      <4>. QED  BY <2>2, <4>1
    <3>. HIDE DEF top
    <3>. QED  BY <3>1
  <2>. QED  BY <2>5
<1>8. Slo!Pruned(list, time) = SubSeq(young, Slo!Max({1, Len(young) - MaxSamples + 1}), Len(young))
  BY Zenon DEF Slo!Pruned, m
<1>9. SubSeq(young, 1, Len(young)) = young
  <2>. HIDE DEF young
  <2>. QED  BY <1>6
<1>. QED  BY <1>4, <1>5, <1>7, <1>8, <1>9

LEMMA SloInvStep == SloInv /\ [Slo!Next]_(Slo!vars) => SloInv'
<1> SUFFICES ASSUME SloInv, [Slo!Next]_(Slo!vars)  PROVE SloInv'
  OBVIOUS
<1>1. CASE UNCHANGED Slo!vars
  BY <1>1 DEF SloInv, KeptAfter, Slo!vars
<1>2. CASE Slo!Next
  <2>. DEFINE n == Len(history)
  <2>1. /\ history \in Seq(Samples) /\ n \in Nat
        /\ n <= MaxSamples => \E d \in 0 .. n : KeptAfter(d)
    BY DEF SloInv
  <2>2. PICK good \in BOOLEAN, time \in Times :
            /\ samples' = Slo!Pruned(Append(samples, [good |-> good, at |-> time]), time)
            /\ history' = Append(history, [good |-> good, at |-> time])
    BY <1>2, Zenon DEF Slo!Next, Slo!Record
  <2>3. shown' = {Slo!EvaluateSlo(samples)'}
    BY <1>2, Zenon DEF Slo!Next, Slo!Record
  <2>. DEFINE s == [good |-> good, at |-> time]
  <2>4. s \in Samples /\ s.at = time
    BY DEF Samples
  <2>5. /\ history' \in Seq(Samples) /\ Len(history') = n + 1
        /\ \A i \in 1 .. n : history'[i] = history[i]
        /\ history'[n + 1] = s
    <3>. HIDE DEF s
    <3>. QED  BY <2>1, <2>2, <2>4 DEF s
  <2>6. ASSUME n + 1 <= MaxSamples  PROVE \E d \in 0 .. n + 1 : KeptAfter(d)'
    <3>1. MaxSamples \in Nat
      BY SloAssumption
    <3>2. PICK d \in 0 .. n : KeptAfter(d)
      BY <2>1, <2>6, <3>1
    <3>. DEFINE list == Append(samples, s)
                L == n + 1 - d
    <3>3. /\ samples \in Seq(Samples) /\ Len(samples) = n - d
          /\ \A i \in 1 .. n - d : samples[i] = history[i + d]
      BY <2>1, <3>2 DEF KeptAfter
    <3>4. /\ list \in Seq(Samples) /\ Len(list) = L
          /\ \A i \in 1 .. L : list[i] = history'[i + d]
      <4>1. list \in Seq(Samples) /\ Len(list) = n - d + 1
        <5>. HIDE DEF s
        <5>. QED  BY <2>4, <3>3
      <4>2. ASSUME NEW i \in 1 .. n - d  PROVE list[i] = history'[i + d]
        <5>1. list[i] = samples[i] /\ i + d \in 1 .. n
          <6>. HIDE DEF s
          <6>. QED  BY <2>1, <2>4, <3>2, <3>3
        <5>. QED  BY <2>5, <3>3, <5>1
      <4>3. list[L] = history'[L + d]
        <5>1. list[L] = s
          <6>. HIDE DEF s
          <6>. QED  BY <2>1, <3>2, <3>3
        <5>2. L + d = n + 1
          BY <2>1, <3>2
        <5>. QED  BY <2>5, <5>1, <5>2
      <4>4. L = n - d + 1 /\ n - d \in Nat
        BY <2>1, <3>2
      <4>5. ASSUME NEW i \in 1 .. L  PROVE list[i] = history'[i + d]
        <5>1. i \in 1 .. n - d \/ i = L
          <6>. HIDE DEF L
          <6>. QED  BY <4>4
        <5>. HIDE DEF L, list
        <5>. QED  BY <4>2, <4>3, <5>1
      <4>. QED  BY <4>1, <4>4, <4>5
    <3>5. L \in Nat /\ L >= 1 /\ L <= MaxSamples /\ list[L].at = time
      <4>1. L \in Nat /\ L >= 1 /\ L <= MaxSamples
        BY <2>1, <2>6, <3>1, <3>2
      <4>2. list[L] = s
        <5>1. L + d = n + 1 /\ L \in 1 .. L
          BY <2>1, <3>2
        <5>. HIDE DEF list, L, s
        <5>. QED  BY <2>5, <3>4, <5>1
      <4>. QED  BY <2>4, <4>1, <4>2
    <3>. HIDE DEF list, L, s
    <3>6. PICK m \in 1 .. L : /\ Slo!Pruned(list, time) = SubSeq(list, m, L)
                              /\ \A i \in 1 .. m - 1 : list[i].at < time - Keep
      BY <3>4, <3>5, PrunedIsEnd
    <3>. DEFINE e == d + m - 1
    <3>7. e \in 0 .. n + 1 /\ n \in Nat /\ d \in Nat /\ m \in Nat
      BY <2>1, <3>2, <3>5, <3>6 DEF L
    <3>8. samples' = SubSeq(history', e + 1, Len(history'))
      <4>1. samples' = SubSeq(list, m, L)
        BY <2>2, <3>6 DEF list, s
      <4>2. /\ SubSeq(list, m, L) \in Seq(Samples) /\ Len(SubSeq(list, m, L)) = L - m + 1
            /\ \A i \in 1 .. L - m + 1 : SubSeq(list, m, L)[i] = list[i + m - 1]
        <5>1. list \in Seq(Samples) /\ m \in 1 .. Len(list) /\ L \in m .. Len(list)
          BY <3>4, <3>5, <3>6
        <5>. QED  BY <5>1, PartOf, Zenon
      <4>3. /\ SubSeq(history', e + 1, n + 1) \in Seq(Samples)
            /\ Len(SubSeq(history', e + 1, n + 1)) = n + 1 - e
            /\ \A i \in 1 .. n + 1 - e : SubSeq(history', e + 1, n + 1)[i] = history'[i + e]
        <5>0. e <= n
          BY <3>6, <3>7 DEF L
        <5>1. e + 1 \in 1 .. Len(history') /\ n + 1 \in e + 1 .. Len(history')
          <6>. HIDE DEF e
          <6>. QED  BY <2>5, <3>7, <5>0
        <5>2. (n + 1) - (e + 1) + 1 = n + 1 - e /\ \A i \in 1 .. n + 1 - e : i + (e + 1) - 1 = i + e
          <6>. HIDE DEF e
          <6>. QED  BY <3>7
        <5>3. history' \in Seq(Samples)
          BY <2>5
        <5>. DEFINE h == history'
                    f == e + 1
                    g == n + 1
        <5>4. /\ SubSeq(h, f, g) \in Seq(Samples) /\ Len(SubSeq(h, f, g)) = g - f + 1
              /\ \A i \in 1 .. g - f + 1 : SubSeq(h, f, g)[i] = h[i + f - 1]
          <6>1. h \in Seq(Samples) /\ f \in 1 .. Len(h) /\ g \in f .. Len(h)
            BY <5>1, <5>3
          <6>. HIDE DEF h, f, g
          <6>. QED  BY <6>1, PartOf, Zenon
        <5>. HIDE DEF e
        <5>. QED  BY <5>2, <5>4
      <4>4. n + 1 - e = L - m + 1
        BY <3>7 DEF L
      <4>5. ASSUME NEW i \in 1 .. n + 1 - e  PROVE list[i + m - 1] = history'[i + e]
        <5>1. i + m - 1 \in 1 .. L /\ (i + m - 1) + d = i + e
          BY <3>6, <3>7 DEF L
        <5>. QED  BY <3>4, <5>1
      <4>. DEFINE u == SubSeq(list, m, L)
                  v == SubSeq(history', e + 1, n + 1)
      <4>6. u = v
        <5>1. u \in Seq(Samples) /\ v \in Seq(Samples) /\ Len(u) = Len(v)
          BY <4>2, <4>3, <4>4
        <5>2. ASSUME NEW i \in 1 .. Len(u)  PROVE u[i] = v[i]
          BY <4>2, <4>3, <4>4, <4>5
        <5>3. \A p, q \in Seq(Samples) :
                  (Len(p) = Len(q) /\ \A i \in 1 .. Len(p) : p[i] = q[i]) => p = q
          OBVIOUS
        <5>. HIDE DEF u, v
        <5>. QED  BY <5>1, <5>2, <5>3, Zenon
      <4>. QED  BY <2>5, <4>1, <4>6
    <3>9. ASSUME NEW i \in 1 .. e  PROVE \E j \in DOMAIN history' : history'[i].at < history'[j].at - Keep
      <4>1. DOMAIN history' = 1 .. n + 1 /\ DOMAIN history = 1 .. n
        BY <2>1, <2>5
      <4>2. CASE i <= d
        <5>1. i \in 1 .. d
          BY <3>7, <4>2
        <5>2. PICK j \in DOMAIN history : history[i].at < history[j].at - Keep
          BY <3>2, <5>1 DEF KeptAfter
        <5>3. j \in 1 .. n /\ i \in 1 .. n /\ j \in 1 .. n + 1
          BY <3>2, <3>7, <4>1, <5>1
        <5>4. history'[i].at < history'[j].at - Keep
          BY <2>5, <5>2, <5>3
        <5>. QED  BY <4>1, <5>3, <5>4
      <4>3. CASE ~ (i <= d)
        <5>1. i - d \in 1 .. m - 1 /\ i - d \in 1 .. L /\ (i - d) + d = i
          BY <3>6, <3>7, <4>3 DEF L
        <5>2. history'[i].at < time - Keep
          BY <3>4, <3>6, <5>1
        <5>3. history'[n + 1].at = time /\ n + 1 \in 1 .. n + 1
          BY <2>4, <2>5, <3>7
        <5>. QED  BY <4>1, <5>2, <5>3
      <4>. QED  BY <4>2, <4>3
    <3>11. e < n + 1
      BY <3>6, <3>7 DEF L
    <3>10. KeptAfter(e)'
      <4>. HIDE DEF e
      <4>. QED  BY <2>5, <3>8, <3>9, <3>11 DEF KeptAfter
    <3>. HIDE DEF e
    <3>. QED  BY <3>7, <3>10
  <2>. QED  BY <2>3, <2>5, <2>6 DEF SloInv
<1>. QED  BY <1>1, <1>2

\* The newest time is among the samples that are kept, and whatever was dropped
\* is older than every window of the report.
LEMMA WindowIsKept ==
    ASSUME history \in Seq(Samples), NEW d \in 0 .. Len(history), KeptAfter(d),
           NEW latest \in Int, \A i \in DOMAIN history : history[i].at <= latest,
           NEW length \in Int, length <= Keep
    PROVE  Slo!Window(samples, latest, length) = Slo!Window(history, latest, length)
<1>. DEFINE n == Len(history)
            A == {i \in DOMAIN samples : samples[i].at >= latest - length}
            B == {i \in DOMAIN history : history[i].at >= latest - length}
            badA == {i \in A : ~samples[i].good}
            badB == {i \in B : ~history[i].good}
<1>1. /\ n \in Nat /\ DOMAIN history = 1 .. n /\ d \in Nat /\ d <= n /\ Keep \in Nat
      /\ \A i \in 1 .. n : history[i].at \in Int
  <2>1. ASSUME NEW i \in 1 .. n  PROVE history[i].at \in Int
    <3>1. history[i] \in Samples
      OBVIOUS
    <3>. QED  BY <3>1, SloAssumption DEF Samples
  <2>. QED  BY <2>1, SloAssumption
<1>2. DOMAIN samples = 1 .. n - d /\ \A i \in 1 .. n - d : samples[i] = history[i + d]
  <2>1. samples = SubSeq(history, d + 1, n)
    BY DEF KeptAfter
  <2>. QED  BY <1>1, <2>1
<1>3. \A i \in 1 .. d : ~(history[i].at >= latest - length)
  <2>1. ASSUME NEW i \in 1 .. d  PROVE ~(history[i].at >= latest - length)
    <3>1. PICK j \in DOMAIN history : history[i].at < history[j].at - Keep
      BY DEF KeptAfter
    <3>2. i \in 1 .. n /\ j \in 1 .. n
      BY <1>1
    <3>3. history[i].at \in Int /\ history[j].at \in Int /\ history[j].at <= latest
      BY <1>1, <3>2
    <3>. QED  BY <1>1, <3>1, <3>3
  <2>. QED  BY <2>1
<1>4. B = {i + d : i \in A}
  <2>1. ASSUME NEW i \in B  PROVE i - d \in A /\ i = (i - d) + d
    <3>1. i \in 1 .. n /\ ~(i \in 1 .. d)
      BY <1>1, <1>3
    <3>2. i - d \in 1 .. n - d /\ i = (i - d) + d
      BY <1>1, <3>1
    <3>. QED  BY <1>2, <3>2
  <2>2. ASSUME NEW i \in A  PROVE i + d \in B
    <3>1. i \in 1 .. n - d /\ i + d \in 1 .. n
      BY <1>1, <1>2
    <3>. QED  BY <1>1, <1>2, <3>1
  <2>. HIDE DEF A, B
  <2>. QED  BY <2>1, <2>2
<1>5. badB = {i + d : i \in badA}
  <2>0. \A i \in A : samples[i] = history[i + d]
    BY <1>2
  <2>. HIDE DEF A, B
  <2>. QED  BY <1>4, <2>0
<1>6. A \in SUBSET Int /\ IsFiniteSet(A) /\ badA \in SUBSET Int /\ IsFiniteSet(badA)
  <2>1. IsFiniteSet(1 .. n - d) /\ A \in SUBSET (1 .. n - d) /\ badA \in SUBSET (1 .. n - d)
    <3>1. n - d \in Int
      BY <1>1
    <3>2. IsFiniteSet(1 .. n - d)
      BY <3>1, FS_Interval
    <3>3. A \in SUBSET (1 .. n - d) /\ badA \in SUBSET (1 .. n - d)
      BY <1>2
    <3>. QED  BY <3>2, <3>3
  <2>2. IsFiniteSet(A) /\ IsFiniteSet(badA)
    <3>. HIDE DEF A, badA
    <3>. QED  BY <2>1, FS_Subset
  <2>3. A \in SUBSET Int /\ badA \in SUBSET Int
    <3>1. 1 .. n - d \subseteq Int
      OBVIOUS
    <3>. HIDE DEF A, badA
    <3>. QED  BY <2>1, <3>1
  <2>. QED  BY <2>2, <2>3
<1>7. Cardinality(A) = Cardinality(B) /\ Cardinality(badA) = Cardinality(badB)
  <2>1. d \in Int
    BY <1>1
  <2>. HIDE DEF A, B, badA, badB
  <2>. QED  BY <1>4, <1>5, <1>6, <2>1, MovedCount
<1>8. /\ Slo!Window(samples, latest, length) = [total |-> Cardinality(A), bad |-> Cardinality(badA)]
      /\ Slo!Window(history, latest, length) = [total |-> Cardinality(B), bad |-> Cardinality(badB)]
  BY SameCount, Zenon DEF Slo!Window
<1>. QED  BY <1>7, <1>8, Zenon

\* The newest time of a list, which is 0 at least.
LEMMA NewestTime ==
    ASSUME NEW list \in Seq(Samples), NEW S, S = {0} \cup {list[i].at : i \in DOMAIN list}
    PROVE  /\ S \in SUBSET Int /\ Slo!Max(S) \in S
           /\ \A i \in DOMAIN list : list[i].at <= Slo!Max(S)
           /\ \A k \in S : k <= Slo!Max(S)
<1>1. S \in SUBSET Int
  <2>1. ASSUME NEW i \in DOMAIN list  PROVE list[i].at \in Int
    <3>1. list[i] \in Samples
      OBVIOUS
    <3>. QED  BY <3>1, SloAssumption DEF Samples
  <2>. QED  BY <2>1
<1>2. IsFiniteSet(S)
  <2>. DEFINE f == [i \in DOMAIN list |-> list[i].at]
              R == {list[i].at : i \in DOMAIN list}
  <2>1. f \in Surjection(DOMAIN list, R)
    BY DEF Surjection
  <2>2. IsFiniteSet(DOMAIN list)
    <3>1. DOMAIN list = 1 .. Len(list) /\ Len(list) \in Int
      OBVIOUS
    <3>. QED  BY <3>1, FS_Interval
  <2>3. IsFiniteSet(R)
    <3>. HIDE DEF f, R
    <3>. QED  BY <2>1, <2>2, FS_Surjection
  <2>4. S = R \cup {0}
    OBVIOUS
  <2>. HIDE DEF R
  <2>. QED  BY <2>3, <2>4, FS_AddElement
<1>3. S # {}
  OBVIOUS
<1>4. Slo!Max(S) \in S /\ \A k \in S : k <= Slo!Max(S)
  BY <1>1, <1>2, <1>3, SloMax
<1>. QED  BY <1>1, <1>4

LEMMA SloInvTells == SloInv => Slo!SloTellsHistory
<1> SUFFICES ASSUME SloInv, Len(history) <= MaxSamples, NEW r \in shown
             PROVE  LET all == Slo!EvaluateSlo(history)
                    IN  /\ [r EXCEPT !.burn = <<>>] = [all EXCEPT !.burn = <<>>]
                        /\ \A i \in DOMAIN r.burn : Burn[i] <= Keep => r.burn[i] = all.burn[i]
  BY Zenon DEF Slo!SloTellsHistory
<1>1. /\ history \in Seq(Samples) /\ r = Slo!EvaluateSlo(samples)
      /\ \E d \in 0 .. Len(history) : KeptAfter(d)
  BY DEF SloInv
<1>2. PICK d \in 0 .. Len(history) : KeptAfter(d)
  BY <1>1
<1>3. CASE history = <<>>
  <2>1. samples = <<>>
    BY <1>2, <1>3 DEF KeptAfter
  <2>2. r = Slo!EvaluateSlo(history) /\ r.burn = <<>>
    <3>1. r = [total |-> 0, bad |-> 0, breached |-> FALSE, burn |-> <<>>]
      BY <1>1, <2>1, Zenon DEF Slo!EvaluateSlo
    <3>2. samples = history
      BY <1>3, <2>1
    <3>3. r = Slo!EvaluateSlo(history)
      BY <1>1, <3>2, Zenon
    <3>4. r.burn = <<>>
      BY <3>1
    <3>. QED  BY <3>3, <3>4
  <2>. QED  BY <2>2
<1>4. CASE history # <<>>
  <2>. DEFINE n == Len(history)
              H == {0} \cup {history[i].at : i \in DOMAIN history}
              L == {0} \cup {samples[i].at : i \in DOMAIN samples}
              top == Slo!Max(H)
  <2>1. /\ n \in Nat /\ n >= 1 /\ d \in Nat /\ d <= n /\ DOMAIN history = 1 .. n
        /\ Keep \in Nat /\ Burn \in Seq(Nat)
    BY <1>1, <1>4, SloAssumption
  <2>2. /\ H \in SUBSET Int /\ top \in H /\ \A k \in H : k <= top
        /\ \A i \in DOMAIN history : history[i].at <= top
    <3>. HIDE DEF top, H
    <3>. QED  BY <1>1, NewestTime DEF top, H
  <2>3. top \in Int
    <3>. HIDE DEF top, H
    <3>. QED  BY <2>2
  <2>. HIDE DEF top
  <2>4. samples \in Seq(Samples) /\ Len(samples) = n - d /\ \A i \in 1 .. n - d : samples[i] = history[i + d]
    <3>1. samples = SubSeq(history, d + 1, n)
      BY <1>2 DEF KeptAfter
    <3>2. d + 1 \in 1 .. Len(history) /\ n \in d + 1 .. Len(history)
      BY <1>2, <2>1 DEF KeptAfter
    <3>3. /\ SubSeq(history, d + 1, n) \in Seq(Samples)
          /\ Len(SubSeq(history, d + 1, n)) = n - (d + 1) + 1
          /\ \A i \in 1 .. n - (d + 1) + 1 : SubSeq(history, d + 1, n)[i] = history[i + (d + 1) - 1]
      BY <1>1, <3>2, PartOf
    <3>4. n - (d + 1) + 1 = n - d /\ \A i \in 1 .. n - d : i + (d + 1) - 1 = i + d
      BY <2>1
    <3>. HIDE DEF n
    <3>. QED  BY <3>1, <3>3, <3>4
  <2>5. \A i \in 1 .. n : history[i].at \in Int
    <3>1. ASSUME NEW i \in 1 .. n  PROVE history[i].at \in H
      BY <2>1
    <3>2. H \subseteq Int
      BY <2>2
    <3>. HIDE DEF H
    <3>. QED  BY <3>1, <3>2
  <2>6. \A i \in 1 .. d : history[i].at < top - Keep
    <3>1. ASSUME NEW i \in 1 .. d  PROVE history[i].at < top - Keep
      <4>1. PICK j \in DOMAIN history : history[i].at < history[j].at - Keep
        BY <1>2 DEF KeptAfter
      <4>2. i \in 1 .. n /\ j \in 1 .. n
        BY <2>1
      <4>3. history[i].at \in Int /\ history[j].at \in Int /\ history[j].at <= top
        BY <2>1, <2>2, <2>5, <4>2
      <4>. QED  BY <2>1, <2>3, <4>1, <4>3
    <3>. QED  BY <3>1
  <2>7. top \in L
    <3>1. CASE top = 0
      BY <3>1
    <3>2. CASE top # 0
      <4>1. PICK i \in 1 .. n : top = history[i].at
        BY <2>1, <2>2, <3>2
      <4>2. i \notin 1 .. d
        BY <2>1, <2>3, <2>6, <4>1
      <4>3. i - d \in 1 .. n - d /\ (i - d) + d = i
        BY <2>1, <4>2
      <4>4. samples[i - d] = history[i] /\ i - d \in DOMAIN samples
        BY <2>1, <2>4, <4>3
      <4>. QED  BY <4>1, <4>4
    <3>. QED  BY <3>1, <3>2
  <2>8. L \subseteq H
    <3>1. ASSUME NEW i \in DOMAIN samples  PROVE samples[i].at \in H
      <4>1. i \in 1 .. n - d /\ i + d \in 1 .. n
        BY <2>1, <2>4
      <4>. QED  BY <2>1, <2>4, <4>1
    <3>. QED  BY <3>1
  <2>9. Slo!Max(L) = top
    <3>1. Slo!Max(L) \in L /\ \A k \in L : k <= Slo!Max(L)
      <4>. HIDE DEF L
      <4>. QED  BY <2>4, NewestTime DEF L
    <3>. DEFINE m == Slo!Max(L)
    <3>2. m \in H /\ top <= m /\ m <= top
      <4>. HIDE DEF L, H, m
      <4>1. m \in L /\ \A k \in L : k <= m
        BY <3>1 DEF m
      <4>. QED  BY <2>2, <2>7, <2>8, <4>1
    <3>3. m = top
      <4>. HIDE DEF m, H
      <4>. QED  BY <2>2, <2>3, <3>2
    <3>. QED  BY <3>3
  <2>10. samples # <<>>
    <3>1. d = 0 \/ d < n
      BY <1>2 DEF KeptAfter
    <3>. QED  BY <2>1, <2>4, <3>1
  <2>11. ASSUME NEW length \in Int, length <= Keep
         PROVE  Slo!Window(samples, top, length) = Slo!Window(history, top, length)
    BY <1>1, <1>2, <2>2, <2>3, <2>11, WindowIsKept
  <2>. DEFINE ReportAt(list, t) ==
                LET all == Slo!Window(list, t, Keep)
                IN  [total |-> all.total, bad |-> all.bad,
                     breached |-> 1000 * all.bad > AllowedBad * all.total,
                     burn |-> [i \in DOMAIN Burn |-> Slo!Window(list, t, Burn[i])]]
              Report(list) == ReportAt(list, top)
  <2>12. Slo!EvaluateSlo(samples) = Report(samples) /\ Slo!EvaluateSlo(history) = Report(history)
    <3>1. Slo!EvaluateSlo(history) = ReportAt(history, Slo!Max(H))
      BY <1>4, Zenon DEF Slo!EvaluateSlo
    <3>2. Slo!EvaluateSlo(samples) = ReportAt(samples, Slo!Max(L))
      BY <2>10, Zenon DEF Slo!EvaluateSlo
    <3>3. Slo!Max(H) = top
      BY DEF top
    <3>. HIDE DEF L, H, ReportAt
    <3>. QED  BY <2>9, <3>1, <3>2, <3>3
  <2>13. Slo!Window(samples, top, Keep) = Slo!Window(history, top, Keep)
    BY <2>1, <2>11
  <2>14. [Report(samples) EXCEPT !.burn = <<>>] = [Report(history) EXCEPT !.burn = <<>>]
    <3>. DEFINE w == Slo!Window(samples, top, Keep)
                a == w.total
                b == w.bad
                c == 1000 * w.bad > AllowedBad * w.total
                x == [i \in DOMAIN Burn |-> Slo!Window(samples, top, Burn[i])]
                y == [i \in DOMAIN Burn |-> Slo!Window(history, top, Burn[i])]
    <3>1. Report(samples) = [total |-> a, bad |-> b, breached |-> c, burn |-> x]
      BY Zenon
    <3>2. Report(history) = [total |-> a, bad |-> b, breached |-> c, burn |-> y]
      BY <2>13
    <3>. HIDE DEF a, b, c, x, y, w, Report
    <3>. QED  BY <3>1, <3>2
  <2>15. ASSUME NEW i \in DOMAIN Report(samples).burn, Burn[i] <= Keep
         PROVE  Report(samples).burn[i] = Report(history).burn[i]
    <3>1. /\ Report(samples).burn = [k \in DOMAIN Burn |-> Slo!Window(samples, top, Burn[k])]
          /\ Report(history).burn = [k \in DOMAIN Burn |-> Slo!Window(history, top, Burn[k])]
      OBVIOUS
    <3>2. i \in DOMAIN Burn /\ Burn[i] \in Int
      BY <2>1, <2>15, <3>1
    <3>3. Slo!Window(samples, top, Burn[i]) = Slo!Window(history, top, Burn[i])
      BY <2>11, <2>15, <3>2
    <3>. HIDE DEF Report
    <3>. QED  BY <3>1, <3>2, <3>3
  <2>. HIDE DEF Report
  <2>. QED  BY <1>1, <2>12, <2>14, <2>15, Zenon
<1>. QED  BY <1>3, <1>4
-----------------------------------------------------------------------------
(* Watchdog: the detectors do not depend on the level or the direction.     *)

\* What is c times the one and d times the other.
Blend(S, c, f, d, g) == [x \in S |-> c * f[x] + d * g[x]]

LEMMA SumLinear ==
    ASSUME NEW S, IsFiniteSet(S), NEW f, NEW g, \A x \in S : f[x] \in Int /\ g[x] \in Int,
           NEW c \in Int, NEW d \in Int
    PROVE  SumFunctionOnSet(Blend(S, c, f, d, g), S)
               = c * SumFunctionOnSet(f, S) + d * SumFunctionOnSet(g, S)
<1>. DEFINE h == Blend(S, c, f, d, g)
            K == {T \in SUBSET S : SumFunctionOnSet(h, T)
                                       = c * SumFunctionOnSet(f, T) + d * SumFunctionOnSet(g, T)}
<1>1. {} \in K
  <2>1. SumFunctionOnSet(h, {}) = 0 /\ SumFunctionOnSet(f, {}) = 0 /\ SumFunctionOnSet(g, {}) = 0
    BY SumOfNone
  <2>2. c * 0 + d * 0 = 0
    OBVIOUS
  <2>. HIDE DEF h
  <2>. QED  BY <2>1, <2>2
<1>2. ASSUME NEW T \in SUBSET S, NEW x \in S \ T, T \in K  PROVE T \cup {x} \in K
  <2>1. /\ IsFiniteSet(T \cup {x}) /\ x \in T \cup {x} /\ (T \cup {x}) \ {x} = T
        /\ T \cup {x} \in SUBSET S /\ IsFiniteSet(T)
    <3>1. T \cup {x} \in SUBSET S
      OBVIOUS
    <3>. QED  BY <3>1, FS_Subset
  <2>0. \A y \in T \cup {x} : h[y] = c * f[y] + d * g[y]
    BY DEF Blend
  <2>2. \A y \in T \cup {x} : f[y] \in Int /\ g[y] \in Int /\ h[y] \in Int
    BY DEF Blend
  <2>. DEFINE a == SumFunctionOnSet(f, T)
              b == SumFunctionOnSet(g, T)
              e == SumFunctionOnSet(h, T)
  <2>3. /\ SumFunctionOnSet(f, T \cup {x}) = f[x] + a /\ a \in Int
        /\ SumFunctionOnSet(g, T \cup {x}) = g[x] + b /\ b \in Int
        /\ SumFunctionOnSet(h, T \cup {x}) = h[x] + e /\ e \in Int
    <3>. HIDE DEF h
    <3>. QED  BY <2>1, <2>2, SumWith
  <2>4. h[x] = c * f[x] + d * g[x] /\ e = c * a + d * b
    <3>. HIDE DEF h
    <3>. QED  BY <1>2, <2>0
  <2>5. \A u, v, p, q \in Int : (c * u + d * v) + (c * p + d * q) = c * (u + p) + d * (v + q)
    OBVIOUS
  <2>6. h[x] + e = c * (f[x] + a) + d * (g[x] + b)
    <3>. HIDE DEF h, a, b, e
    <3>. QED  BY <2>2, <2>3, <2>4, <2>5
  <2>. HIDE DEF h, a, b, e
  <2>. QED  BY <2>1, <2>3, <2>6
<1>3. S \in K
  <2>. HIDE DEF K
  <2>. QED  BY <1>1, <1>2, SetByElements
<1>. QED  BY <1>3

LEMMA SumOfOnes ==
    ASSUME NEW S, IsFiniteSet(S)
    PROVE  SumFunctionOnSet([x \in S |-> 1], S) = Cardinality(S)
<1>. DEFINE h == [x \in S |-> 1]
            K == {T \in SUBSET S : SumFunctionOnSet(h, T) = Cardinality(T)}
<1>1. {} \in K
  BY SumOfNone, FS_EmptySet
<1>2. ASSUME NEW T \in SUBSET S, NEW x \in S \ T, T \in K  PROVE T \cup {x} \in K
  <2>1. IsFiniteSet(T) /\ T \cup {x} \in SUBSET S /\ Cardinality(T) \in Nat
    BY FS_Subset, FS_CardinalityType
  <2>2. /\ h[x] = 1 /\ \A y \in T \cup {x} : h[y] \in Int
        /\ IsFiniteSet(T \cup {x}) /\ x \in T \cup {x} /\ (T \cup {x}) \ {x} = T
    BY <2>1, FS_Subset
  <2>3. SumFunctionOnSet(h, T \cup {x}) = h[x] + SumFunctionOnSet(h, T)
    <3>. HIDE DEF h
    <3>. QED  BY <2>2, SumWith
  <2>4. Cardinality(T \cup {x}) = Cardinality(T) + 1
    BY <2>1, FS_AddElement
  <2>. HIDE DEF h
  <2>. QED  BY <1>2, <2>1, <2>2, <2>3, <2>4
<1>3. S \in K
  <2>. HIDE DEF K
  <2>. QED  BY <1>1, <1>2, SetByElements
<1>. QED  BY <1>3

Lists == Seq(Int)

LEMMA WatchSums ==
    /\ \A S : Watch!Cardinality(S) = Cardinality(S)
    /\ \A f : Watch!SumFunction(f) = SumFunctionOnSet(f, DOMAIN f)
    /\ \A f : Watch!Range(f) = {f[i] : i \in DOMAIN f}
  BY Zenon DEF Watch!SumFunction, Watch!SumFunctionOnSet, Watch!FoldFunctionOnSet,
     Watch!MapThenFoldSet, SumFunctionOnSet, FoldFunctionOnSet, MapThenFoldSet,
     Watch!Cardinality, Cardinality, Watch!Range

\* The sum of a list that is made of two others.
BlendSums(D, c, f, d, g) ==
    /\ Watch!SumFunction(Blend(D, c, f, d, g)) = c * Watch!SumFunction(f) + d * Watch!SumFunction(g)
    /\ Watch!SumFunction(f) \in Int /\ Watch!SumFunction(g) \in Int
    /\ Blend(D, c, f, d, g) \in [D -> Int]

LEMMA WatchLinear ==
    ASSUME NEW n \in Nat, NEW f \in [1 .. n -> Int], NEW g \in [1 .. n -> Int],
           NEW c \in Int, NEW d \in Int
    PROVE  BlendSums(1 .. n, c, f, d, g)
<1>. DEFINE h == Blend(1 .. n, c, f, d, g)
<1>1. IsFiniteSet(1 .. n)
  BY FS_Interval
<1>2. DOMAIN f = 1 .. n /\ DOMAIN g = 1 .. n /\ DOMAIN h = 1 .. n
      /\ \A i \in 1 .. n : f[i] \in Int /\ g[i] \in Int
  BY DEF Blend
<1>3. SumFunctionOnSet(h, 1 .. n) = c * SumFunctionOnSet(f, 1 .. n) + d * SumFunctionOnSet(g, 1 .. n)
  BY <1>1, <1>2, SumLinear
<1>4. /\ Watch!SumFunction(h) = SumFunctionOnSet(h, 1 .. n)
      /\ Watch!SumFunction(f) = SumFunctionOnSet(f, 1 .. n)
      /\ Watch!SumFunction(g) = SumFunctionOnSet(g, 1 .. n)
  BY <1>2, WatchSums
<1>5. SumFunctionOnSet(f, 1 .. n) \in Int /\ SumFunctionOnSet(g, 1 .. n) \in Int
  BY <1>1, <1>2, SumWith
<1>6. h \in [1 .. n -> Int]
  BY <1>2 DEF Blend
<1>. QED  BY <1>3, <1>4, <1>5, <1>6 DEF BlendSums

LEMMA WatchNumbers == 0 \in Int /\ 1 \in Int /\ -1 \in Int /\ 7 \in Int /\ 14 \in Int /\ 49 \in Int
  OBVIOUS

LEMMA ListOf ==
    ASSUME NEW n \in Nat, NEW f \in [1 .. n -> Int]
    PROVE  f \in Lists /\ Len(f) = n
  BY DEF Lists

LEMMA WatchOnes ==
    ASSUME NEW n \in Nat
    PROVE  Watch!SumFunction([i \in 1 .. n |-> 1]) = n
<1>1. IsFiniteSet(1 .. n) /\ Cardinality(1 .. n) = n
  BY FS_Interval
<1>2. SumFunctionOnSet([i \in 1 .. n |-> 1], 1 .. n) = n
  BY <1>1, SumOfOnes
<1>3. DOMAIN [i \in 1 .. n |-> 1] = 1 .. n
  OBVIOUS
<1>. QED  BY <1>2, <1>3, WatchSums
Positions(list) == [i \in DOMAIN list |-> i - 1]
Weighted(list) == [i \in DOMAIN list |-> Positions(list)[i] * list[i]]
Ones(list) == [i \in DOMAIN list |-> 1]

\* The sums the detectors are made of.
SumsOf(list) ==
    [n |-> Len(list), S |-> Watch!SumFunction(list), Q |-> Watch!SumFunction(Watch!Squares(list)),
     P |-> Watch!SumFunction(Weighted(list)), X |-> Watch!SumFunction(Positions(list)),
     XX |-> Watch!SumFunction(Watch!Squares(Positions(list)))]

SumRecords == [n : Nat, S : Int, Q : Int, P : Int, X : Int, XX : Int]

LEMMA ListFunctions ==
    ASSUME NEW list \in Lists
    PROVE  /\ Len(list) \in Nat /\ DOMAIN list = 1 .. Len(list) /\ list \in [1 .. Len(list) -> Int]
           /\ Watch!Squares(list) \in [1 .. Len(list) -> Int]
           /\ Weighted(list) \in [1 .. Len(list) -> Int]
           /\ Positions(list) \in [1 .. Len(list) -> Int]
           /\ Watch!Squares(Positions(list)) \in [1 .. Len(list) -> Int]
           /\ Ones(list) \in [1 .. Len(list) -> Int] /\ Watch!SumFunction(Ones(list)) = Len(list)
<1>1. Len(list) \in Nat /\ DOMAIN list = 1 .. Len(list) /\ \A i \in 1 .. Len(list) : list[i] \in Int
  BY DEF Lists
<1>2. Positions(list) \in [1 .. Len(list) -> Int]
  BY <1>1 DEF Positions
<1>3. Watch!Squares(list) \in [1 .. Len(list) -> Int]
  BY <1>1 DEF Watch!Squares
<1>4. Weighted(list) \in [1 .. Len(list) -> Int]
  BY <1>1, <1>2 DEF Weighted
<1>5. Watch!Squares(Positions(list)) \in [1 .. Len(list) -> Int]
  BY <1>2 DEF Watch!Squares
<1>6. Ones(list) = [i \in 1 .. Len(list) |-> 1] /\ Ones(list) \in [1 .. Len(list) -> Int]
  BY <1>1 DEF Ones
<1>7. Watch!SumFunction(Ones(list)) = Len(list)
  BY <1>1, <1>6, WatchOnes
<1>. QED  BY <1>1, <1>2, <1>3, <1>4, <1>5, <1>6, <1>7 DEF Lists

LEMMA SumsAreNumbers == \A list \in Lists : SumsOf(list) \in SumRecords
<1>. SUFFICES ASSUME NEW list \in Lists  PROVE SumsOf(list) \in SumRecords
  OBVIOUS
<1>. DEFINE n == Len(list)
<1>1. \A f \in [1 .. n -> Int] : Watch!SumFunction(f) \in Int
  <2>1. n \in Nat /\ 1 \in Int
    BY ListFunctions
  <2>2. \A f \in [1 .. n -> Int] : BlendSums(1 .. n, 1, f, 1, f)
    BY <2>1, WatchLinear
  <2>. QED  BY <2>2 DEF BlendSums
<1>. QED  BY <1>1, ListFunctions DEF SumsOf, SumRecords

LEMMA ShiftedSums ==
    ASSUME NEW list \in Lists
    PROVE  LET m == Watch!Shifted(list)
               a == SumsOf(list)
               b == SumsOf(m)
           IN  /\ m \in Lists /\ Len(m) = Len(list) /\ \A i \in 1 .. Len(list) : m[i] = list[i] + 7
               /\ b.n = a.n /\ b.X = a.X /\ b.XX = a.XX
               /\ b.S = a.S + 7 * a.n /\ b.Q = a.Q + 14 * a.S + 49 * a.n /\ b.P = a.P + 7 * a.X
<1>. DEFINE n == Len(list)
            m == Watch!Shifted(list)
            D == 1 .. n
            one == Ones(list)
            W(f) == Watch!SumFunction(f)
<1>1. /\ n \in Nat /\ DOMAIN list = D /\ list \in [D -> Int] /\ one \in [D -> Int] /\ W(one) = n
      /\ Watch!Squares(list) \in [D -> Int] /\ Weighted(list) \in [D -> Int]
      /\ Positions(list) \in [D -> Int]
  BY ListFunctions
<1>2. m \in [D -> Int] /\ \A i \in D : m[i] = list[i] + 7
  BY <1>1 DEF Watch!Shifted
<1>3. m \in Lists /\ Len(m) = n /\ DOMAIN m = D
  BY <1>1, <1>2, ListOf
<1>4. \A i \in D : one[i] = 1
  BY <1>1 DEF Ones
<1>. HIDE DEF m, n, one, D, W
<1>5. Positions(m) = Positions(list)
  BY <1>1, <1>3 DEF Positions
<1>6. m = Blend(D, 1, list, 7, one)
  BY <1>1, <1>2, <1>4 DEF Blend
<1>7. W(m) = 1 * W(list) + 7 * W(one) /\ W(list) \in Int
  <2>1. BlendSums(D, 1, list, 7, one)
    BY <1>1, WatchNumbers, WatchLinear, Zenon DEF D
  <2>. QED  BY <1>6, <2>1 DEF BlendSums, W
<1>8. W(Watch!Squares(m)) = W(Watch!Squares(list)) + 14 * W(list) + 49 * n
  <2>. DEFINE g == Blend(D, 14, list, 49, one)
              q == Watch!Squares(list)
  <2>1. /\ W(g) = 14 * W(list) + 49 * W(one) /\ g \in [D -> Int]
    <3>1. g = Blend(D, 14, list, 49, one)
      OBVIOUS
    <3>2. BlendSums(D, 14, list, 49, one)
      BY <1>1, WatchNumbers, WatchLinear, Zenon DEF D
    <3>. HIDE DEF g
    <3>. QED  BY <3>1, <3>2 DEF BlendSums, W
  <2>2. Watch!Squares(m) = Blend(D, 1, q, 1, g)
    <3>1. \A x \in Int : (x + 7) * (x + 7) = 1 * (x * x) + 1 * (14 * x + 49 * 1)
      OBVIOUS
    <3>2. ASSUME NEW i \in D  PROVE m[i] * m[i] = 1 * q[i] + 1 * g[i]
      <4>1. m[i] = list[i] + 7 /\ list[i] \in Int /\ q[i] = list[i] * list[i]
            /\ g[i] = 14 * list[i] + 49 * 1
        BY <1>1, <1>2, <1>4 DEF Watch!Squares, Blend
      <4>. HIDE DEF q, g
      <4>. QED  BY <3>1, <4>1
    <3>. HIDE DEF q, g
    <3>. QED  BY <1>3, <3>2 DEF Watch!Squares, Blend
  <2>3. W(Watch!Squares(m)) = 1 * W(q) + 1 * W(g) /\ W(q) \in Int /\ W(g) \in Int
    <3>1. q \in [D -> Int]
      BY <1>1
    <3>. HIDE DEF g, q
    <3>2. BlendSums(D, 1, q, 1, g)
      BY <1>1, <2>1, <3>1, WatchNumbers, WatchLinear, Zenon DEF D
    <3>. QED  BY <2>2, <3>2 DEF BlendSums, W
  <2>. HIDE DEF g
  <2>. QED  BY <1>1, <1>7, <2>1, <2>3
<1>9. W(Weighted(m)) = W(Weighted(list)) + 7 * W(Positions(list))
  <2>1. Weighted(m) = Blend(D, 1, Weighted(list), 7, Positions(list))
    <3>1. \A x, y \in Int : y * (x + 7) = 1 * (y * x) + 7 * y
      OBVIOUS
    <3>2. ASSUME NEW i \in D
          PROVE  Positions(list)[i] * m[i] = 1 * Weighted(list)[i] + 7 * Positions(list)[i]
      <4>1. m[i] = list[i] + 7 /\ list[i] \in Int /\ Weighted(list)[i] = Positions(list)[i] * list[i]
            /\ Positions(list)[i] \in Int
        BY <1>1, <1>2 DEF Weighted
      <4>. QED  BY <3>1, <4>1
    <3>. QED  BY <1>3, <1>5, <3>2 DEF Weighted, Blend
  <2>2. W(Weighted(m)) = 1 * W(Weighted(list)) + 7 * W(Positions(list))
        /\ W(Weighted(list)) \in Int /\ W(Positions(list)) \in Int
    <3>1. BlendSums(D, 1, Weighted(list), 7, Positions(list))
      BY <1>1, WatchNumbers, WatchLinear, Zenon DEF D
    <3>. QED  BY <2>1, <3>1 DEF BlendSums, W
  <2>. QED  BY <2>2
<1>10. W(m) = W(list) + 7 * n
  BY <1>1, <1>7
<1>. QED  BY <1>2, <1>3, <1>5, <1>8, <1>9, <1>10 DEF SumsOf, W, D, n, m

LEMMA MirroredSums ==
    ASSUME NEW list \in Lists
    PROVE  LET m == Watch!Mirrored(list)
               a == SumsOf(list)
               b == SumsOf(m)
           IN  /\ m \in Lists /\ Len(m) = Len(list) /\ \A i \in 1 .. Len(list) : m[i] = 0 - list[i]
               /\ b.n = a.n /\ b.X = a.X /\ b.XX = a.XX
               /\ b.S = 0 - a.S /\ b.Q = a.Q /\ b.P = 0 - a.P
<1>. DEFINE n == Len(list)
            m == Watch!Mirrored(list)
            D == 1 .. n
            W(f) == Watch!SumFunction(f)
<1>1. /\ n \in Nat /\ DOMAIN list = D /\ list \in [D -> Int]
      /\ Weighted(list) \in [D -> Int] /\ Positions(list) \in [D -> Int]
  BY ListFunctions
<1>2. m \in [D -> Int] /\ \A i \in D : m[i] = 0 - list[i]
  BY <1>1 DEF Watch!Mirrored
<1>3. m \in Lists /\ Len(m) = n /\ DOMAIN m = D
  BY <1>1, <1>2, ListOf
<1>. HIDE DEF m, n, D, W
<1>4. Positions(m) = Positions(list)
  BY <1>1, <1>3 DEF Positions
<1>5. \A f \in [D -> Int] : W(Blend(D, -1, f, 0, f)) = 0 - W(f)
  <2>1. ASSUME NEW f \in [D -> Int]  PROVE W(Blend(D, -1, f, 0, f)) = 0 - W(f)
    <3>1. BlendSums(D, -1, f, 0, f)
      BY <1>1, WatchNumbers, WatchLinear, Zenon DEF D
    <3>2. W(Blend(D, -1, f, 0, f)) = (-1) * W(f) + 0 * W(f) /\ W(f) \in Int
      BY <3>1 DEF BlendSums, W
    <3>. QED  BY <3>2
  <2>. QED  BY <2>1
<1>6. m = Blend(D, -1, list, 0, list)
  BY <1>1, <1>2 DEF Blend
<1>7. Watch!Squares(m) = Watch!Squares(list)
  <2>1. \A x \in Int : (0 - x) * (0 - x) = x * x
    OBVIOUS
  <2>. QED  BY <1>1, <1>2, <1>3, <2>1 DEF Watch!Squares
<1>8. Weighted(m) = Blend(D, -1, Weighted(list), 0, Weighted(list))
  <2>. DEFINE u == Weighted(m)
              v == Blend(D, -1, Weighted(list), 0, Weighted(list))
  <2>1. DOMAIN u = D /\ u = [i \in D |-> u[i]]
    BY <1>3 DEF Weighted
  <2>2. DOMAIN v = D /\ v = [i \in D |-> v[i]]
    BY DEF Blend
  <2>3. \A x, y \in Int : y * (0 - x) = 0 - y * x
    OBVIOUS
  <2>4. ASSUME NEW i \in D  PROVE u[i] = v[i]
    <3>. DEFINE w == Weighted(list)[i]
    <3>1. /\ m[i] = 0 - list[i] /\ list[i] \in Int /\ w = Positions(list)[i] * list[i]
          /\ Positions(list)[i] \in Int /\ w \in Int
      BY <1>1, <1>2 DEF Weighted
    <3>2. u[i] = 0 - w
      <4>1. u[i] = Positions(list)[i] * m[i]
        BY <1>3, <1>4 DEF Weighted
      <4>. HIDE DEF u, w
      <4>. QED  BY <2>3, <3>1, <4>1
    <3>3. v[i] = (-1) * w + 0 * w
      <4>. HIDE DEF w
      <4>1. \A f : Blend(D, -1, f, 0, f)[i] = (-1) * f[i] + 0 * f[i]
        BY DEF Blend
      <4>. QED  BY <4>1 DEF w
    <3>. HIDE DEF u, v, w
    <3>. QED  BY <3>1, <3>2, <3>3
  <2>. HIDE DEF u, v
  <2>5. u = v
    BY <2>1, <2>2, <2>4
  <2>. QED  BY <2>5 DEF u, v
<1>9. W(m) = 0 - W(list) /\ W(Weighted(m)) = 0 - W(Weighted(list))
  BY <1>1, <1>5, <1>6, <1>8
<1>. QED  BY <1>2, <1>3, <1>4, <1>7, <1>9 DEF SumsOf, W, D, n, m

-----------------------------------------------------------------------------
(* Watchdog: the order statistics.                                          *)

LEMMA RankedChooses ==
    \A list, k : Watch!Ranked(list, k) = CHOOSE v : IsRanked(list, k, v)
<1>. SUFFICES ASSUME NEW list, NEW k
              PROVE  Watch!Ranked(list, k) = CHOOSE v : IsRanked(list, k, v)
  OBVIOUS
<1>1. \A v : (v \in Watch!Range(list) /\ Watch!Cardinality({i \in DOMAIN list : list[i] < v}) < k
                 /\ k <= Watch!Cardinality({i \in DOMAIN list : list[i] <= v}))
             <=> IsRanked(list, k, v)
  BY WatchSums DEF IsRanked, Under, AtMost, ValuesOf
<1>. QED  BY <1>1, Zenon DEF Watch!Ranked

LEMMA ListIs ==
    ASSUME NEW list \in Lists
    PROVE  /\ Len(list) \in Nat /\ DOMAIN list = 1 .. Len(list)
           /\ \A i \in 1 .. Len(list) : list[i] \in Int
           /\ IsFiniteSet(1 .. Len(list)) /\ Cardinality(1 .. Len(list)) = Len(list)
<1>1. /\ Len(list) \in Nat /\ DOMAIN list = 1 .. Len(list)
      /\ \A i \in 1 .. Len(list) : list[i] \in Int
  BY ListFunctions
<1>2. IsFiniteSet(1 .. Len(list)) /\ Cardinality(1 .. Len(list)) = Len(list)
  BY <1>1, FS_Interval
<1>. QED  BY <1>1, <1>2

\* The two sides of a value, in a list.
LEMMA ListSides ==
    ASSUME NEW list \in Lists
    PROVE  /\ IsFiniteSet(ValuesOf(list)) /\ ValuesOf(list) \subseteq Int
           /\ \A v \in Int : Cardinality(Under(list, v)) \in Nat /\ Cardinality(AtMost(list, v)) \in Nat
<1>1. IsFiniteSet(1 .. Len(list)) /\ list \in [1 .. Len(list) -> Int]
  BY ListIs, ListFunctions
<1>. QED  BY <1>1, SidesAreFinite

LEMMA RankedIs ==
    ASSUME NEW list \in Lists, NEW k \in 1 .. Len(list)
    PROVE  /\ IsRanked(list, k, Watch!Ranked(list, k))
           /\ Watch!Ranked(list, k) \in ValuesOf(list) /\ Watch!Ranked(list, k) \in Int
           /\ \A v \in Int : IsRanked(list, k, v) => v = Watch!Ranked(list, k)
<1>1. Watch!Ranked(list, k) = CHOOSE v : IsRanked(list, k, v)
  BY RankedChooses
<1>2. /\ IsFiniteSet(1 .. Len(list)) /\ list \in [1 .. Len(list) -> Int] /\ k \in Int
      /\ 1 <= k /\ k <= Cardinality(1 .. Len(list))
  BY ListIs, ListFunctions
<1>3. IsRanked(list, k, Watch!Ranked(list, k)) /\ Watch!Ranked(list, k) \in ValuesOf(list)
  <2>1. \E v : IsRanked(list, k, v)
    BY <1>2, RankedExists
  <2>. QED  BY <1>1, <2>1 DEF IsRanked
<1>4. Watch!Ranked(list, k) \in Int
  BY <1>3, ListSides
<1>. QED  BY <1>2, <1>3, <1>4, RankedOnce

\* The k-th value of a list with everything moved up, and of one turned round.
LEMMA RankedShifted ==
    ASSUME NEW list \in Lists, NEW k \in 1 .. Len(list)
    PROVE  Watch!Ranked(Watch!Shifted(list), k) = Watch!Ranked(list, k) + 7
<1>. DEFINE n == Len(list)
            m == Watch!Shifted(list)
            v == Watch!Ranked(list, k)
<1>1. /\ n \in Nat /\ DOMAIN list = 1 .. n /\ \A i \in 1 .. n : list[i] \in Int
      /\ m \in Lists /\ Len(m) = n /\ DOMAIN m = 1 .. n /\ \A i \in 1 .. n : m[i] = list[i] + 7
  BY ListIs, ShiftedSums
<1>2. v \in Int /\ IsRanked(list, k, v)
  BY RankedIs
<1>. HIDE DEF v, m
<1>3. Under(m, v + 7) = Under(list, v) /\ AtMost(m, v + 7) = AtMost(list, v)
  BY <1>1, <1>2 DEF Under, AtMost
<1>4. v + 7 \in ValuesOf(m)
  BY <1>1, <1>2 DEF IsRanked, ValuesOf
<1>5. IsRanked(m, k, v + 7)
  BY <1>2, <1>3, <1>4 DEF IsRanked
<1>6. \A w \in Int : IsRanked(m, k, w) => w = Watch!Ranked(m, k)
  BY <1>1, RankedIs
<1>. QED  BY <1>2, <1>5, <1>6 DEF v, m

LEMMA RankedMirrored ==
    ASSUME NEW list \in Lists, NEW k \in 1 .. Len(list)
    PROVE  Watch!Ranked(Watch!Mirrored(list), Len(list) + 1 - k) = 0 - Watch!Ranked(list, k)
<1>. DEFINE n == Len(list)
            m == Watch!Mirrored(list)
            v == Watch!Ranked(list, k)
            j == n + 1 - k
<1>1. /\ n \in Nat /\ DOMAIN list = 1 .. n /\ \A i \in 1 .. n : list[i] \in Int
      /\ m \in Lists /\ Len(m) = n /\ DOMAIN m = 1 .. n /\ \A i \in 1 .. n : m[i] = 0 - list[i]
      /\ IsFiniteSet(1 .. n) /\ Cardinality(1 .. n) = n
  BY ListIs, MirroredSums
<1>2. v \in Int /\ IsRanked(list, k, v) /\ j \in 1 .. n
  BY <1>1, RankedIs
<1>. HIDE DEF v, m
<1>3. /\ Under(m, 0 - v) = (1 .. n) \ AtMost(list, v) /\ AtMost(list, v) \subseteq 1 .. n
      /\ AtMost(m, 0 - v) = (1 .. n) \ Under(list, v) /\ Under(list, v) \subseteq 1 .. n
  BY <1>1, <1>2 DEF Under, AtMost
<1>4. \A T \in SUBSET (1 .. n) : Cardinality((1 .. n) \ T) = n - Cardinality(T) /\ Cardinality(T) \in Int
  <2>1. \A T \in SUBSET (1 .. n) : (1 .. n) \cap T = T /\ IsFiniteSet(T)
    BY <1>1, FS_Subset
  <2>2. \A T \in SUBSET (1 .. n) : Cardinality((1 .. n) \ T) = Cardinality(1 .. n) - Cardinality((1 .. n) \cap T)
    BY <1>1, FS_Difference
  <2>3. \A T \in SUBSET (1 .. n) : Cardinality(T) \in Int
    BY <2>1, FS_CardinalityType
  <2>. QED  BY <1>1, <2>1, <2>2, <2>3
<1>5. /\ Cardinality(Under(m, 0 - v)) = n - Cardinality(AtMost(list, v))
      /\ Cardinality(AtMost(m, 0 - v)) = n - Cardinality(Under(list, v))
      /\ Cardinality(AtMost(list, v)) \in Int /\ Cardinality(Under(list, v)) \in Int
  BY <1>3, <1>4
<1>6. 0 - v \in ValuesOf(m)
  BY <1>1, <1>2 DEF IsRanked, ValuesOf
<1>7. IsRanked(m, j, 0 - v)
  BY <1>1, <1>2, <1>5, <1>6 DEF IsRanked
<1>8. \A w \in Int : IsRanked(m, j, w) => w = Watch!Ranked(m, j)
  BY <1>1, <1>2, RankedIs
<1>9. 0 - v \in Int
  BY <1>2
<1>. QED  BY <1>7, <1>8, <1>9 DEF v, m

-----------------------------------------------------------------------------
(* Watchdog: the detectors that add up, by the sums they are made of.       *)

ZBy(a, value, threshold) ==
    LET V == a.n * a.Q - a.S * a.S
        off == a.n * value - a.S
        far == off * off * (a.n - 1) > threshold * threshold * V * a.n
    IN  Watch!Verdict(V > 0 /\ far, far)

LineBy(a) == [n |-> a.n, rise |-> a.n * a.P - a.X * a.S, run |-> a.n * a.XX - a.X * a.X,
              sx |-> a.X, sy |-> a.S]

\* How far a value at a position is from the line, n * run times.
Residual(line, x, value) == line.n * line.run * value - Watch!At(line, x)
Residuals(list) == [i \in DOMAIN list |-> Residual(Watch!Line(list), i - 1, list[i])]

LinearBy(n, residuals, off, threshold) ==
    LET R == Watch!SumFunction(Watch!Squares(residuals))
        far == off * off * (n - 1) > threshold * threshold * R
    IN  Watch!Verdict(R > 0 /\ far, far)

LEMMA DetectorsBySums ==
    ASSUME NEW list, NEW value, NEW threshold
    PROVE  /\ Watch!ZScore(list, value, threshold) = ZBy(SumsOf(list), value, threshold)
           /\ Watch!Line(list) = LineBy(SumsOf(list))
           /\ Watch!Linear(list, value, threshold)
                = LinearBy(Watch!Line(list).n, Residuals(list),
                           Residual(Watch!Line(list), Watch!Line(list).n, value), threshold)
<1>1. Watch!ZScore(list, value, threshold) = ZBy(SumsOf(list), value, threshold)
  BY DEF Watch!ZScore, ZBy, SumsOf
<1>2. Watch!Line(list) = LineBy(SumsOf(list))
  BY DEF Watch!Line, LineBy, SumsOf, Positions, Weighted
<1>3. Watch!Line(list).n = Len(list)
  BY DEF Watch!Line
<1>4. Watch!Linear(list, value, threshold)
          = LinearBy(Watch!Line(list).n, Residuals(list),
                     Residual(Watch!Line(list), Watch!Line(list).n, value), threshold)
  BY <1>3 DEF Watch!Linear, LinearBy, Residuals, Residual
<1>. QED  BY <1>1, <1>2, <1>4

LEMMA ShiftedNumbers ==
    ASSUME NEW n \in Int, NEW S \in Int, NEW Q \in Int, NEW P \in Int, NEW X \in Int
    PROVE  /\ n * (Q + 14 * S + 49 * n) - (S + 7 * n) * (S + 7 * n) = n * Q - S * S
           /\ \A v \in Int : n * (v + 7) - (S + 7 * n) = n * v - S
           /\ n * (P + 7 * X) - X * (S + 7 * n) = n * P - X * S
<1>1. \A u, v \in Int : n * (u + v) = n * u + n * v
  OBVIOUS
<1>2. n * (Q + 14 * S + 49 * n) - (S + 7 * n) * (S + 7 * n) = n * Q - S * S
  OBVIOUS
<1>3. \A v \in Int : n * (v + 7) - (S + 7 * n) = n * v - S
  OBVIOUS
<1>4. n * (P + 7 * X) - X * (S + 7 * n) = n * P - X * S
  OBVIOUS
<1>. QED  BY <1>2, <1>3, <1>4

LEMMA MirroredNumbers ==
    ASSUME NEW n \in Int, NEW S \in Int, NEW P \in Int, NEW X \in Int
    PROVE  /\ (0 - S) * (0 - S) = S * S
           /\ \A v \in Int : (n * (0 - v) - (0 - S)) * (n * (0 - v) - (0 - S)) = (n * v - S) * (n * v - S)
           /\ n * (0 - P) - X * (0 - S) = 0 - (n * P - X * S)
  OBVIOUS

LEMMA ZScoreFair ==
    ASSUME NEW list \in Lists, NEW v \in Int, NEW t \in Int
    PROVE  /\ Watch!ZScore(Watch!Shifted(list), v + 7, t) = Watch!ZScore(list, v, t)
           /\ Watch!ZScore(Watch!Mirrored(list), 0 - v, t) = Watch!ZScore(list, v, t)
<1>. DEFINE a == SumsOf(list)
            b == SumsOf(Watch!Shifted(list))
            c == SumsOf(Watch!Mirrored(list))
<1>1. a \in SumRecords
  BY SumsAreNumbers
<1>2. b.n = a.n /\ b.S = a.S + 7 * a.n /\ b.Q = a.Q + 14 * a.S + 49 * a.n
  BY ShiftedSums
<1>3. c.n = a.n /\ c.S = 0 - a.S /\ c.Q = a.Q
  BY MirroredSums
<1>. HIDE DEF a, b, c
<1>4. a.n \in Int /\ a.S \in Int /\ a.Q \in Int /\ a.P \in Int /\ a.X \in Int
  BY <1>1 DEF SumRecords
<1>5. b.n * b.Q - b.S * b.S = a.n * a.Q - a.S * a.S /\ b.n * (v + 7) - b.S = a.n * v - a.S
  BY <1>2, <1>4, ShiftedNumbers
<1>6. ZBy(b, v + 7, t) = ZBy(a, v, t)
  BY <1>2, <1>5, Zenon DEF ZBy
<1>7. /\ c.n * c.Q - c.S * c.S = a.n * a.Q - a.S * a.S
      /\ (c.n * (0 - v) - c.S) * (c.n * (0 - v) - c.S) = (a.n * v - a.S) * (a.n * v - a.S)
  BY <1>3, <1>4, MirroredNumbers
<1>8. ZBy(c, 0 - v, t) = ZBy(a, v, t)
  BY <1>3, <1>7, Zenon DEF ZBy
<1>. QED  BY <1>6, <1>8, DetectorsBySums DEF a, b, c

LEMMA ResidualFair ==
    ASSUME NEW list \in Lists, NEW x \in Int, NEW v \in Int
    PROVE  /\ Residual(Watch!Line(Watch!Shifted(list)), x, v + 7) = Residual(Watch!Line(list), x, v)
           /\ Residual(Watch!Line(Watch!Mirrored(list)), x, 0 - v)
                  = 0 - Residual(Watch!Line(list), x, v)
           /\ Residual(Watch!Line(list), x, v) \in Int
<1>. DEFINE a == SumsOf(list)
            b == SumsOf(Watch!Shifted(list))
            c == SumsOf(Watch!Mirrored(list))
<1>1. a \in SumRecords
  BY SumsAreNumbers
<1>2. b.n = a.n /\ b.X = a.X /\ b.XX = a.XX /\ b.S = a.S + 7 * a.n /\ b.P = a.P + 7 * a.X
  BY ShiftedSums
<1>3. c.n = a.n /\ c.X = a.X /\ c.XX = a.XX /\ c.S = 0 - a.S /\ c.P = 0 - a.P
  BY MirroredSums
<1>. HIDE DEF a, b, c
<1>4. /\ a.n \in Int /\ a.S \in Int /\ a.Q \in Int /\ a.P \in Int /\ a.X \in Int /\ a.XX \in Int
      /\ a.n * a.XX - a.X * a.X \in Int /\ a.n * a.P - a.X * a.S \in Int
  BY <1>1 DEF SumRecords
<1>. DEFINE n == a.n
            rise == a.n * a.P - a.X * a.S
            run == a.n * a.XX - a.X * a.X
<1>5. Residual(LineBy(a), x, v) = n * run * v - (n * rise * x + run * a.S - rise * a.X)
  BY DEF Residual, LineBy, Watch!At
<1>6. Residual(LineBy(b), x, v + 7) = n * run * (v + 7) - (n * rise * x + run * (a.S + 7 * n) - rise * a.X)
  <2>1. b.n * b.P - b.X * b.S = rise
    BY <1>2, <1>4, ShiftedNumbers
  <2>2. b.n * b.XX - b.X * b.X = run
    BY <1>2
  <2>3. Residual(LineBy(b), x, v + 7)
            = b.n * (b.n * b.XX - b.X * b.X) * (v + 7)
                - (b.n * (b.n * b.P - b.X * b.S) * x + (b.n * b.XX - b.X * b.X) * b.S
                     - (b.n * b.P - b.X * b.S) * b.X)
    BY DEF Residual, LineBy, Watch!At
  <2>. HIDE DEF rise, run
  <2>. QED  BY <1>2, <2>1, <2>2, <2>3
<1>7. Residual(LineBy(c), x, 0 - v)
          = n * run * (0 - v) - (n * (0 - rise) * x + run * (0 - a.S) - (0 - rise) * a.X)
  <2>1. c.n * c.P - c.X * c.S = 0 - rise
    BY <1>3, <1>4, MirroredNumbers
  <2>2. c.n * c.XX - c.X * c.X = run
    BY <1>3
  <2>3. Residual(LineBy(c), x, 0 - v)
            = c.n * (c.n * c.XX - c.X * c.X) * (0 - v)
                - (c.n * (c.n * c.P - c.X * c.S) * x + (c.n * c.XX - c.X * c.X) * c.S
                     - (c.n * c.P - c.X * c.S) * c.X)
    BY DEF Residual, LineBy, Watch!At
  <2>. HIDE DEF rise, run
  <2>. QED  BY <1>3, <2>1, <2>2, <2>3
<1>8. n \in Int /\ rise \in Int /\ run \in Int
  BY <1>4
<1>. HIDE DEF n, rise, run
<1>9. Residual(LineBy(b), x, v + 7) = Residual(LineBy(a), x, v)
  BY <1>4, <1>5, <1>6, <1>8
<1>10. Residual(LineBy(c), x, 0 - v) = 0 - Residual(LineBy(a), x, v)
  BY <1>4, <1>5, <1>7, <1>8
<1>11. Residual(LineBy(a), x, v) \in Int
  BY <1>4, <1>5, <1>8
<1>. QED  BY <1>9, <1>10, <1>11, DetectorsBySums DEF a, b, c

LEMMA LinearFair ==
    ASSUME NEW list \in Lists, NEW v \in Int, NEW t \in Int
    PROVE  /\ Watch!Linear(Watch!Shifted(list), v + 7, t) = Watch!Linear(list, v, t)
           /\ Watch!Linear(Watch!Mirrored(list), 0 - v, t) = Watch!Linear(list, v, t)
<1>. DEFINE up == Watch!Shifted(list)
            back == Watch!Mirrored(list)
            n == Len(list)
<1>1. /\ n \in Nat /\ DOMAIN list = 1 .. n /\ \A i \in 1 .. n : list[i] \in Int /\ i - 1 \in Int
      /\ up \in Lists /\ DOMAIN up = 1 .. n /\ \A i \in 1 .. n : up[i] = list[i] + 7
      /\ back \in Lists /\ DOMAIN back = 1 .. n /\ \A i \in 1 .. n : back[i] = 0 - list[i]
  <2>1. /\ n \in Nat /\ DOMAIN list = 1 .. n /\ \A i \in 1 .. n : list[i] \in Int /\ i - 1 \in Int
    BY ListIs
  <2>2. up \in Lists /\ Len(up) = n /\ \A i \in 1 .. n : up[i] = list[i] + 7
    BY ShiftedSums
  <2>3. back \in Lists /\ Len(back) = n /\ \A i \in 1 .. n : back[i] = 0 - list[i]
    BY MirroredSums
  <2>. HIDE DEF up, back
  <2>4. DOMAIN up = 1 .. n /\ DOMAIN back = 1 .. n
    BY <2>2, <2>3, ListIs
  <2>. QED  BY <2>1, <2>2, <2>3, <2>4
<1>2. Watch!Line(list).n = n /\ Watch!Line(up).n = n /\ Watch!Line(back).n = n
  BY ShiftedSums, MirroredSums DEF Watch!Line
<1>. HIDE DEF up, back, n
<1>3. Residuals(up) = Residuals(list)
  <2>1. \A i \in 1 .. n : Residual(Watch!Line(up), i - 1, up[i]) = Residual(Watch!Line(list), i - 1, list[i])
    <3>1. ASSUME NEW i \in 1 .. n
          PROVE  Residual(Watch!Line(up), i - 1, list[i] + 7) = Residual(Watch!Line(list), i - 1, list[i])
      <4>1. i - 1 \in Int /\ list[i] \in Int
        BY <1>1
      <4>. QED  BY <4>1, ResidualFair, Zenon DEF up
    <3>. QED  BY <1>1, <3>1
  <2>. QED  BY <1>1, <2>1 DEF Residuals
<1>4. Watch!Squares(Residuals(back)) = Watch!Squares(Residuals(list))
  <2>1. \A i \in 1 .. n :
            /\ Residual(Watch!Line(back), i - 1, back[i]) = 0 - Residual(Watch!Line(list), i - 1, list[i])
            /\ Residual(Watch!Line(list), i - 1, list[i]) \in Int
    <3>1. ASSUME NEW i \in 1 .. n
          PROVE  /\ Residual(Watch!Line(back), i - 1, 0 - list[i]) = 0 - Residual(Watch!Line(list), i - 1, list[i])
                 /\ Residual(Watch!Line(list), i - 1, list[i]) \in Int
      <4>1. i - 1 \in Int /\ list[i] \in Int
        BY <1>1
      <4>. QED  BY <4>1, ResidualFair, Zenon DEF back
    <3>. QED  BY <1>1, <3>1
  <2>2. /\ DOMAIN Residuals(back) = 1 .. n /\ DOMAIN Residuals(list) = 1 .. n
        /\ \A i \in 1 .. n : Residuals(back)[i] = 0 - Residuals(list)[i] /\ Residuals(list)[i] \in Int
    BY <1>1, <2>1 DEF Residuals
  <2>3. \A y \in Int : (0 - y) * (0 - y) = y * y
    OBVIOUS
  <2>. QED  BY <2>2, <2>3 DEF Watch!Squares
<1>5. /\ Residual(Watch!Line(up), n, v + 7) = Residual(Watch!Line(list), n, v)
      /\ Residual(Watch!Line(back), n, 0 - v) = 0 - Residual(Watch!Line(list), n, v)
      /\ Residual(Watch!Line(list), n, v) \in Int
  <2>1. n \in Int
    BY <1>1
  <2>. QED  BY <2>1, ResidualFair, Zenon DEF up, back
<1>. DEFINE off == Residual(Watch!Line(list), n, v)
<1>6. LinearBy(n, Residuals(back), 0 - off, t) = LinearBy(n, Residuals(list), off, t)
  <2>1. off \in Int
    BY <1>5
  <2>. HIDE DEF off
  <2>2. (0 - off) * (0 - off) = off * off
    BY <2>1
  <2>. QED  BY <1>4, <2>2, Zenon DEF LinearBy
<1>7. /\ Watch!Linear(up, v + 7, t) = LinearBy(n, Residuals(up), Residual(Watch!Line(up), n, v + 7), t)
      /\ Watch!Linear(back, 0 - v, t) = LinearBy(n, Residuals(back), Residual(Watch!Line(back), n, 0 - v), t)
      /\ Watch!Linear(list, v, t) = LinearBy(n, Residuals(list), off, t)
  BY <1>2, DetectorsBySums
<1>. QED  BY <1>3, <1>5, <1>6, <1>7 DEF up, back

-----------------------------------------------------------------------------
(* Watchdog: the detectors that rank.                                       *)

Between(list, lo, part) ==
    IF part = 0 THEN 4 * Watch!Ranked(list, lo)
    ELSE (4 - part) * Watch!Ranked(list, lo) + part * Watch!Ranked(list, lo + 1)

LEMMA QuantileIsBetween ==
    \A list, q : Watch!Quantile4(list, q)
                   = Between(list, 1 + (q * (Len(list) - 1)) \div 4, (q * (Len(list) - 1)) % 4)
  BY DEF Watch!Quantile4, Between

\* Where a quantile is read, and where the one as far from the other end is.
LEMMA QuartilePlaces ==
    ASSUME NEW n \in Nat \ {0}, NEW q \in 1 .. 3
    PROVE  LET lo == 1 + (q * (n - 1)) \div 4
               part == (q * (n - 1)) % 4
               hi == 1 + ((4 - q) * (n - 1)) \div 4
               rest == ((4 - q) * (n - 1)) % 4
           IN  /\ lo \in 1 .. n /\ part \in 0 .. 3
               /\ IF part = 0 THEN rest = 0 /\ hi = n + 1 - lo
                  ELSE lo + 1 \in 1 .. n /\ rest = 4 - part /\ hi = n - lo
<1>1. CASE q = 1
  BY <1>1
<1>2. CASE q = 2
  BY <1>2
<1>3. CASE q = 3
  BY <1>3
<1>. QED  BY <1>1, <1>2, <1>3

LEMMA QuantileFair ==
    ASSUME NEW list \in Lists, Len(list) >= 1, NEW q \in 1 .. 3
    PROVE  /\ Watch!Quantile4(list, q) \in Int
           /\ Watch!Quantile4(Watch!Shifted(list), q) = Watch!Quantile4(list, q) + 28
           /\ Watch!Quantile4(Watch!Mirrored(list), 4 - q) = 0 - Watch!Quantile4(list, q)
<1>. DEFINE n == Len(list)
            lo == 1 + (q * (n - 1)) \div 4
            part == (q * (n - 1)) % 4
            hi == 1 + ((4 - q) * (n - 1)) \div 4
            rest == ((4 - q) * (n - 1)) % 4
            up == Watch!Shifted(list)
            back == Watch!Mirrored(list)
            R(k) == Watch!Ranked(list, k)
            U(k) == Watch!Ranked(up, k)
            B(k) == Watch!Ranked(back, k)
<1>1. /\ n \in Nat \ {0} /\ Len(up) = n /\ Len(back) = n
  BY ListIs, ShiftedSums, MirroredSums
<1>2. /\ Watch!Quantile4(list, q) = Between(list, lo, part)
      /\ Watch!Quantile4(up, q) = Between(up, lo, part)
      /\ Watch!Quantile4(back, 4 - q) = Between(back, hi, rest)
  BY <1>1, QuantileIsBetween
<1>. HIDE DEF n
<1>3. /\ lo \in 1 .. n /\ part \in 0 .. 3
      /\ IF part = 0 THEN rest = 0 /\ hi = n + 1 - lo
         ELSE lo + 1 \in 1 .. n /\ rest = 4 - part /\ hi = n - lo
  BY <1>1, QuartilePlaces
<1>4. \A k \in 1 .. n : R(k) \in Int /\ U(k) = R(k) + 7 /\ B(n + 1 - k) = 0 - R(k)
  BY RankedIs, RankedShifted, RankedMirrored DEF n
<1>5. /\ Between(list, lo, part) = IF part = 0 THEN 4 * R(lo) ELSE (4 - part) * R(lo) + part * R(lo + 1)
      /\ Between(up, lo, part) = IF part = 0 THEN 4 * U(lo) ELSE (4 - part) * U(lo) + part * U(lo + 1)
      /\ Between(back, hi, rest) = IF rest = 0 THEN 4 * B(hi) ELSE (4 - rest) * B(hi) + rest * B(hi + 1)
  BY DEF Between
<1>. HIDE DEF lo, part, hi, rest, up, back, R, U, B
<1>6. /\ Between(list, lo, part) \in Int
      /\ Between(up, lo, part) = Between(list, lo, part) + 28
      /\ Between(back, hi, rest) = 0 - Between(list, lo, part)
  <2>1. CASE part = 0
    <3>1. rest = 0 /\ hi = n + 1 - lo /\ lo \in 1 .. n
      BY <1>3, <2>1
    <3>2. R(lo) \in Int /\ U(lo) = R(lo) + 7 /\ B(hi) = 0 - R(lo)
      BY <1>4, <3>1
    <3>3. /\ Between(list, lo, part) = 4 * R(lo) /\ Between(up, lo, part) = 4 * U(lo)
          /\ Between(back, hi, rest) = 4 * B(hi)
      BY <1>5, <2>1, <3>1
    <3>. QED  BY <3>2, <3>3
  <2>2. CASE part # 0
    <3>1. /\ lo \in 1 .. n /\ lo + 1 \in 1 .. n /\ part \in 1 .. 3 /\ rest = 4 - part /\ rest # 0
          /\ hi = n + 1 - (lo + 1) /\ hi + 1 = n + 1 - lo /\ 4 - rest = part
      BY <1>1, <1>3, <2>2
    <3>2. /\ R(lo) \in Int /\ U(lo) = R(lo) + 7 /\ B(hi + 1) = 0 - R(lo)
          /\ R(lo + 1) \in Int /\ U(lo + 1) = R(lo + 1) + 7 /\ B(hi) = 0 - R(lo + 1)
      BY <1>4, <3>1
    <3>3. /\ Between(list, lo, part) = (4 - part) * R(lo) + part * R(lo + 1)
          /\ Between(up, lo, part) = (4 - part) * U(lo) + part * U(lo + 1)
          /\ Between(back, hi, rest) = part * B(hi) + (4 - part) * B(hi + 1)
      BY <1>5, <2>2, <3>1
    <3>4. \A p, a, b \in Int :
              /\ (4 - p) * (a + 7) + p * (b + 7) = (4 - p) * a + p * b + 28
              /\ p * (0 - b) + (4 - p) * (0 - a) = 0 - ((4 - p) * a + p * b)
              /\ (4 - p) * a + p * b \in Int
      OBVIOUS
    <3>5. part \in Int
      BY <3>1
    <3>6. /\ (4 - part) * (R(lo) + 7) + part * (R(lo + 1) + 7)
                 = (4 - part) * R(lo) + part * R(lo + 1) + 28
          /\ part * (0 - R(lo + 1)) + (4 - part) * (0 - R(lo))
                 = 0 - ((4 - part) * R(lo) + part * R(lo + 1))
          /\ (4 - part) * R(lo) + part * R(lo + 1) \in Int
      BY <3>2, <3>4, <3>5, Zenon
    <3>. QED  BY <3>2, <3>3, <3>6, Zenon
  <2>. QED  BY <2>1, <2>2
<1>. QED  BY <1>2, <1>6 DEF lo, part, hi, rest, up, back

Deviations(list, median) == [i \in DOMAIN list |-> Watch!Distance(4 * list[i], median)]
Off(value, median) == 4 * Watch!Distance(4 * value, median)

MadBy(deviations, off) ==
    LET mad == Watch!Quantile4(deviations, 2)
    IN  Watch!Verdict(mad > 0 /\ 6745 * off > 51891 * mad, 10000 * off > 51891 * mad)

LEMMA MadIs ==
    \A list, value : LET median == Watch!Quantile4(list, 2)
                     IN  Watch!Mad(list, value) = MadBy(Deviations(list, median), Off(value, median))
  BY DEF Watch!Mad, MadBy, Deviations, Off

LEMMA Distances ==
    /\ \A x, y \in Int : Watch!Distance(4 * (x + 7), y + 28) = Watch!Distance(4 * x, y)
    /\ \A x, y \in Int : Watch!Distance(4 * (0 - x), 0 - y) = Watch!Distance(4 * x, y)
    /\ \A x, y \in Int : Watch!Distance(x, y) \in Nat
    /\ \A x \in Int : Watch!Distance(x, x) = 0
  BY DEF Watch!Distance

Beyond(value, q1, q3) ==
    8 * value < 2 * q1 - 3 * (q3 - q1) \/ 8 * value > 2 * q3 + 3 * (q3 - q1)

LEMMA RankersFair ==
    ASSUME NEW list \in Lists, Len(list) >= 1, NEW v \in Int
    PROVE  /\ Watch!Mad(Watch!Shifted(list), v + 7) = Watch!Mad(list, v)
           /\ Watch!Mad(Watch!Mirrored(list), 0 - v) = Watch!Mad(list, v)
           /\ Watch!Quartiles(Watch!Shifted(list), v + 7) = Watch!Quartiles(list, v)
           /\ Watch!Quartiles(Watch!Mirrored(list), 0 - v) = Watch!Quartiles(list, v)
<1>. DEFINE n == Len(list)
            up == Watch!Shifted(list)
            back == Watch!Mirrored(list)
            Q(q) == Watch!Quantile4(list, q)
<1>1. /\ n \in Nat /\ DOMAIN list = 1 .. n /\ \A i \in 1 .. n : list[i] \in Int
  BY ListIs
<1>2. up \in Lists /\ Len(up) = n /\ \A i \in 1 .. n : up[i] = list[i] + 7
  BY ShiftedSums
<1>3. back \in Lists /\ Len(back) = n /\ \A i \in 1 .. n : back[i] = 0 - list[i]
  BY MirroredSums
<1>4. \A q \in 1 .. 3 :
          /\ Q(q) \in Int /\ Watch!Quantile4(up, q) = Q(q) + 28
          /\ Watch!Quantile4(back, 4 - q) = 0 - Q(q)
  BY QuantileFair
<1>. HIDE DEF up, back, n, Q
<1>5. DOMAIN up = 1 .. n /\ DOMAIN back = 1 .. n
  BY <1>2, <1>3, ListIs
<1>6. /\ Q(1) \in Int /\ Q(2) \in Int /\ Q(3) \in Int
      /\ Watch!Quantile4(up, 1) = Q(1) + 28 /\ Watch!Quantile4(up, 2) = Q(2) + 28
      /\ Watch!Quantile4(up, 3) = Q(3) + 28
      /\ Watch!Quantile4(back, 1) = 0 - Q(3) /\ Watch!Quantile4(back, 2) = 0 - Q(2)
      /\ Watch!Quantile4(back, 3) = 0 - Q(1)
  <2>1. 1 \in 1 .. 3 /\ 2 \in 1 .. 3 /\ 3 \in 1 .. 3 /\ 4 - 1 = 3 /\ 4 - 2 = 2 /\ 4 - 3 = 1
    OBVIOUS
  <2>. QED  BY <1>4, <2>1
<1>7. Deviations(up, Q(2) + 28) = Deviations(list, Q(2)) /\ Off(v + 7, Q(2) + 28) = Off(v, Q(2))
  <2>1. \A x \in Int : Watch!Distance(4 * (x + 7), Q(2) + 28) = Watch!Distance(4 * x, Q(2))
    BY <1>6, Distances
  <2>2. \A i \in 1 .. n : Watch!Distance(4 * up[i], Q(2) + 28) = Watch!Distance(4 * list[i], Q(2))
    BY <1>1, <1>2, <2>1
  <2>3. Deviations(up, Q(2) + 28) = Deviations(list, Q(2))
    BY <1>1, <1>5, <2>2 DEF Deviations
  <2>. QED  BY <2>1, <2>3 DEF Off
<1>8. Deviations(back, 0 - Q(2)) = Deviations(list, Q(2)) /\ Off(0 - v, 0 - Q(2)) = Off(v, Q(2))
  <2>1. \A x \in Int : Watch!Distance(4 * (0 - x), 0 - Q(2)) = Watch!Distance(4 * x, Q(2))
    BY <1>6, Distances
  <2>2. \A i \in 1 .. n : Watch!Distance(4 * back[i], 0 - Q(2)) = Watch!Distance(4 * list[i], Q(2))
    BY <1>1, <1>3, <2>1
  <2>3. Deviations(back, 0 - Q(2)) = Deviations(list, Q(2))
    BY <1>1, <1>5, <2>2 DEF Deviations
  <2>. QED  BY <2>1, <2>3 DEF Off
<1>9. Watch!Mad(up, v + 7) = Watch!Mad(list, v) /\ Watch!Mad(back, 0 - v) = Watch!Mad(list, v)
  <2>1. /\ Watch!Mad(list, v) = MadBy(Deviations(list, Q(2)), Off(v, Q(2)))
        /\ Watch!Mad(up, v + 7) = MadBy(Deviations(up, Q(2) + 28), Off(v + 7, Q(2) + 28))
        /\ Watch!Mad(back, 0 - v) = MadBy(Deviations(back, 0 - Q(2)), Off(0 - v, 0 - Q(2)))
    BY <1>6, MadIs DEF Q
  <2>. QED  BY <1>7, <1>8, <2>1
<1>10. \A m, w : Watch!Quartiles(m, w)
           = LET far == Beyond(w, Watch!Quantile4(m, 1), Watch!Quantile4(m, 3)) IN Watch!Verdict(far, far)
  BY DEF Watch!Quartiles, Beyond
<1>11. \A a, b \in Int : /\ Beyond(v + 7, a + 28, b + 28) = Beyond(v, a, b)
                        /\ Beyond(0 - v, 0 - b, 0 - a) = Beyond(v, a, b)
  BY DEF Beyond
<1>12. /\ Watch!Quartiles(up, v + 7) = Watch!Quartiles(list, v)
       /\ Watch!Quartiles(back, 0 - v) = Watch!Quartiles(list, v)
  BY <1>6, <1>10, <1>11 DEF Q
<1>. QED  BY <1>9, <1>12 DEF up, back

-----------------------------------------------------------------------------
(* Watchdog: the verdicts over a window.                                    *)

LEMMA SameList ==
    ASSUME NEW s \in Lists, NEW t \in Lists, Len(s) = Len(t), \A i \in 1 .. Len(s) : s[i] = t[i]
    PROVE  s = t
<1>1. s \in [1 .. Len(s) -> Int] /\ t \in [1 .. Len(s) -> Int]
  BY ListFunctions
<1>. QED  BY <1>1

LEMMA OthersIs ==
    ASSUME NEW list \in Lists, Len(list) >= 2
    PROVE  /\ Watch!Others(list) \in Lists /\ Len(Watch!Others(list)) = Len(list) - 1
           /\ \A i \in 1 .. Len(list) - 1 : Watch!Others(list)[i] = list[i]
           /\ Watch!Newest(list) \in Int /\ Watch!Newest(list) = list[Len(list)]
<1>1. Len(list) \in Nat /\ Len(list) \in 1 .. Len(list) /\ \A i \in 1 .. Len(list) : list[i] \in Int
  BY ListIs
<1>2. 1 \in 1 .. Len(list) /\ Len(list) - 1 \in 1 .. Len(list) /\ list \in Seq(Int)
      /\ (Len(list) - 1) - 1 + 1 = Len(list) - 1
  BY <1>1 DEF Lists
<1>3. /\ SubSeq(list, 1, Len(list) - 1) \in Seq(Int) /\ Len(SubSeq(list, 1, Len(list) - 1)) = Len(list) - 1
      /\ \A i \in 1 .. Len(list) - 1 : SubSeq(list, 1, Len(list) - 1)[i] = list[i + 1 - 1]
  BY <1>2, PartOf
<1>. QED  BY <1>1, <1>3 DEF Watch!Others, Watch!Newest, Lists

LEMMA OthersFair ==
    ASSUME NEW list \in Lists, Len(list) >= 2
    PROVE  /\ Watch!Others(Watch!Shifted(list)) = Watch!Shifted(Watch!Others(list))
           /\ Watch!Newest(Watch!Shifted(list)) = Watch!Newest(list) + 7
           /\ Watch!Others(Watch!Mirrored(list)) = Watch!Mirrored(Watch!Others(list))
           /\ Watch!Newest(Watch!Mirrored(list)) = 0 - Watch!Newest(list)
<1>. DEFINE n == Len(list)
            up == Watch!Shifted(list)
            back == Watch!Mirrored(list)
            rest == Watch!Others(list)
<1>1. /\ n \in Nat /\ n \in 1 .. n /\ rest \in Lists /\ Len(rest) = n - 1
      /\ Watch!Newest(list) = list[n] /\ \A i \in 1 .. n - 1 : rest[i] = list[i]
  BY ListIs, OthersIs
<1>2. up \in Lists /\ Len(up) = n /\ \A i \in 1 .. n : up[i] = list[i] + 7
  BY ShiftedSums
<1>3. back \in Lists /\ Len(back) = n /\ \A i \in 1 .. n : back[i] = 0 - list[i]
  BY MirroredSums
<1>. HIDE DEF n, up, back, rest
<1>4. /\ Watch!Others(up) \in Lists /\ Len(Watch!Others(up)) = n - 1
      /\ \A i \in 1 .. n - 1 : Watch!Others(up)[i] = up[i]
      /\ Watch!Newest(up) = up[n]
  BY <1>2, OthersIs DEF n
<1>5. /\ Watch!Others(back) \in Lists /\ Len(Watch!Others(back)) = n - 1
      /\ \A i \in 1 .. n - 1 : Watch!Others(back)[i] = back[i]
      /\ Watch!Newest(back) = back[n]
  BY <1>3, OthersIs DEF n
<1>6. /\ Watch!Shifted(rest) \in Lists /\ Len(Watch!Shifted(rest)) = n - 1
      /\ \A i \in 1 .. n - 1 : Watch!Shifted(rest)[i] = rest[i] + 7
  BY <1>1, ShiftedSums
<1>7. /\ Watch!Mirrored(rest) \in Lists /\ Len(Watch!Mirrored(rest)) = n - 1
      /\ \A i \in 1 .. n - 1 : Watch!Mirrored(rest)[i] = 0 - rest[i]
  BY <1>1, MirroredSums
<1>8. \A i \in 1 .. n - 1 : i \in 1 .. n
  BY <1>1
<1>9. Watch!Others(up) = Watch!Shifted(rest)
  BY <1>1, <1>2, <1>4, <1>6, <1>8, SameList
<1>10. Watch!Others(back) = Watch!Mirrored(rest)
  BY <1>1, <1>3, <1>5, <1>7, <1>8, SameList
<1>11. Watch!Newest(up) = Watch!Newest(list) + 7 /\ Watch!Newest(back) = 0 - Watch!Newest(list)
  <2>1. up[n] = list[n] + 7 /\ back[n] = 0 - list[n]
    BY <1>1, <1>2, <1>3
  <2>. QED  BY <1>1, <1>4, <1>5, <2>1
<1>. QED  BY <1>9, <1>10, <1>11 DEF up, back, rest

Quiet == Watch!Verdict(FALSE, FALSE)
FourVerdicts(others, newest) ==
    [z |-> Watch!ZScore(others, newest, 3), mad |-> Watch!Mad(others, newest),
     quantile |-> Watch!Quartiles(others, newest), linear |-> Watch!Linear(others, newest, 3)]

LEMMA DetectIs ==
    \A list : Watch!Detect(list)
                = IF Len(list) < 5 THEN [z |-> Quiet, mad |-> Quiet, quantile |-> Quiet, linear |-> Quiet]
                  ELSE FourVerdicts(Watch!Others(list), Watch!Newest(list))
  BY Zenon DEF Watch!Detect, FourVerdicts, Quiet

LEMMA DetectFair ==
    ASSUME NEW list \in Lists
    PROVE  /\ Watch!Detect(Watch!Shifted(list)) = Watch!Detect(list)
           /\ Watch!Detect(Watch!Mirrored(list)) = Watch!Detect(list)
<1>1. Len(Watch!Shifted(list)) = Len(list) /\ Len(Watch!Mirrored(list)) = Len(list) /\ Len(list) \in Nat
  BY ShiftedSums, MirroredSums, ListIs
<1>2. CASE Len(list) < 5
  BY <1>1, <1>2, DetectIs
<1>3. CASE ~ (Len(list) < 5)
  <2>. DEFINE rest == Watch!Others(list)
              v == Watch!Newest(list)
  <2>1. Len(list) >= 2 /\ Len(list) - 1 >= 1
    BY <1>1, <1>3
  <2>2. rest \in Lists /\ Len(rest) >= 1 /\ v \in Int /\ 3 \in Int
    BY <2>1, OthersIs
  <2>3. /\ Watch!Detect(list) = FourVerdicts(rest, v)
        /\ Watch!Detect(Watch!Shifted(list)) = FourVerdicts(Watch!Shifted(rest), v + 7)
        /\ Watch!Detect(Watch!Mirrored(list)) = FourVerdicts(Watch!Mirrored(rest), 0 - v)
    BY <1>1, <1>3, <2>1, DetectIs, OthersFair
  <2>. HIDE DEF rest, v
  <2>4. FourVerdicts(Watch!Shifted(rest), v + 7) = FourVerdicts(rest, v)
    BY <2>2, ZScoreFair, LinearFair, RankersFair, Zenon DEF FourVerdicts
  <2>5. FourVerdicts(Watch!Mirrored(rest), 0 - v) = FourVerdicts(rest, v)
    BY <2>2, ZScoreFair, LinearFair, RankersFair, Zenon DEF FourVerdicts
  <2>. QED  BY <2>3, <2>4, <2>5
<1>. QED  BY <1>2, <1>3

Outside(verdict) == verdict.anomalous => verdict.outside

LEMMA QuantilesAreNumbers ==
    ASSUME NEW list \in Lists, Len(list) >= 1, NEW q \in 1 .. 3
    PROVE  Watch!Quantile4(list, q) \in Int
  BY QuantileFair

LEMMA VerdictsOutside ==
    ASSUME NEW list \in Lists, Len(list) >= 1, NEW v \in Int
    PROVE  /\ Outside(Watch!ZScore(list, v, 3)) /\ Outside(Watch!Mad(list, v))
           /\ Outside(Watch!Quartiles(list, v)) /\ Outside(Watch!Linear(list, v, 3))
<1>0. \A p, q : Watch!Verdict(p, q).anomalous = p /\ Watch!Verdict(p, q).outside = q
  BY DEF Watch!Verdict
<1>1. \A p, q : Outside(Watch!Verdict(p /\ q, q)) /\ Outside(Watch!Verdict(q, q))
  BY <1>0, Zenon DEF Outside
<1>2. Outside(Watch!ZScore(list, v, 3))
  BY <1>1, Zenon DEF Watch!ZScore
<1>3. Outside(Watch!Linear(list, v, 3))
  BY <1>1, Zenon DEF Watch!Linear
<1>4. Outside(Watch!Quartiles(list, v))
  BY <1>1, Zenon DEF Watch!Quartiles
<1>5. Outside(Watch!Mad(list, v))
  <2>. DEFINE median == Watch!Quantile4(list, 2)
              dev == Deviations(list, median)
              mad == Watch!Quantile4(dev, 2)
              off == Off(v, median)
  <2>1. 2 \in 1 .. 3
    OBVIOUS
  <2>2. median \in Int
    BY <2>1, QuantilesAreNumbers
  <2>3. /\ Len(list) \in Nat /\ DOMAIN list = 1 .. Len(list) /\ \A i \in 1 .. Len(list) : list[i] \in Int
    BY ListIs
  <2>. HIDE DEF median
  <2>4. dev \in [1 .. Len(list) -> Int]
    <3>1. \A x \in Int : Watch!Distance(4 * x, median) \in Int
      BY <2>2, Distances
    <3>. QED  BY <2>3, <3>1 DEF Deviations
  <2>5. dev \in Lists /\ Len(dev) = Len(list)
    BY <2>3, <2>4, ListOf
  <2>. HIDE DEF dev
  <2>6. mad \in Int
    BY <2>1, <2>5, QuantilesAreNumbers
  <2>7. off \in Int
    <3>1. 4 * v \in Int
      OBVIOUS
    <3>2. Watch!Distance(4 * v, median) \in Nat
      BY <2>2, <3>1, Distances
    <3>. HIDE DEF median
    <3>. QED  BY <3>2 DEF Off
  <2>8. Watch!Mad(list, v) = MadBy(dev, off)
    BY MadIs DEF dev, off, median
  <2>. HIDE DEF off
  <2>9. mad > 0 /\ 6745 * off > 51891 * mad => 10000 * off > 51891 * mad
    BY <2>6, <2>7
  <2>10. MadBy(dev, off) = Watch!Verdict(mad > 0 /\ 6745 * off > 51891 * mad, 10000 * off > 51891 * mad)
    BY DEF MadBy
  <2>. DEFINE p == mad > 0 /\ 6745 * off > 51891 * mad
              q == 10000 * off > 51891 * mad
  <2>11. p => q
    BY <2>9
  <2>12. Watch!Mad(list, v) = Watch!Verdict(p, q)
    BY <2>8, <2>10
  <2>. HIDE DEF p, q
  <2>13. Watch!Mad(list, v).anomalous = p /\ Watch!Mad(list, v).outside = q
    BY <1>0, <2>12, Zenon
  <2>. QED  BY <2>11, <2>13, Zenon DEF Outside
<1>. QED  BY <1>2, <1>3, <1>4, <1>5

LEMMA ConstantSums ==
    ASSUME NEW list \in Lists, NEW c \in Int, \A i \in 1 .. Len(list) : list[i] = c
    PROVE  LET a == SumsOf(list)
           IN  a.S = c * a.n /\ a.Q = c * c * a.n /\ a.P = c * a.X
<1>. DEFINE n == Len(list)
            D == 1 .. n
            one == Ones(list)
            W(f) == Watch!SumFunction(f)
<1>1. /\ n \in Nat /\ DOMAIN list = D /\ list \in [D -> Int] /\ one \in [D -> Int] /\ W(one) = n
      /\ Positions(list) \in [D -> Int] /\ \A i \in D : one[i] = 1
  BY ListFunctions DEF Ones
<1>. HIDE DEF n, one, D, W
<1>2. \A f \in [D -> Int] : \A x \in Int : W(Blend(D, x, f, 0, f)) = x * W(f)
  <2>1. ASSUME NEW f \in [D -> Int], NEW x \in Int  PROVE W(Blend(D, x, f, 0, f)) = x * W(f)
    <3>1. BlendSums(D, x, f, 0, f)
      BY <1>1, WatchNumbers, WatchLinear, Zenon DEF D
    <3>2. W(Blend(D, x, f, 0, f)) = x * W(f) + 0 * W(f) /\ W(f) \in Int
      BY <3>1 DEF BlendSums, W
    <3>. QED  BY <3>2
  <2>. QED  BY <2>1
<1>3. list = Blend(D, c, one, 0, one)
  BY <1>1 DEF Blend, D, n
<1>4. Watch!Squares(list) = Blend(D, c * c, one, 0, one)
  BY <1>1 DEF Blend, D, n, Watch!Squares
<1>5. Weighted(list) = Blend(D, c, Positions(list), 0, Positions(list))
  BY <1>1 DEF Blend, D, n, Weighted
<1>6. W(list) = c * n /\ W(Watch!Squares(list)) = c * c * n /\ W(Weighted(list)) = c * W(Positions(list))
  <2>1. c * c \in Int
    OBVIOUS
  <2>. QED  BY <1>1, <1>2, <1>3, <1>4, <1>5, <2>1
<1>. QED  BY <1>6 DEF SumsOf, W, n

LEMMA SquaresOfNone ==
    ASSUME NEW list \in Lists, \A i \in 1 .. Len(list) : list[i] = 0
    PROVE  Watch!SumFunction(Watch!Squares(list)) = 0
<1>1. SumsOf(list).Q = 0 * 0 * SumsOf(list).n
  BY ConstantSums
<1>2. SumsOf(list).n \in Int
  BY SumsAreNumbers DEF SumRecords
<1>. QED  BY <1>1, <1>2 DEF SumsOf

\* A window that never moved.
LEMMA ConstantIsQuiet ==
    ASSUME NEW list \in Lists, Len(list) >= 1, NEW c \in Int, \A i \in 1 .. Len(list) : list[i] = c,
           NEW v \in Int
    PROVE  /\ ~ Watch!ZScore(list, v, 3).anomalous
           /\ ~ Watch!Mad(list, v).anomalous
           /\ ~ Watch!Linear(list, v, 3).anomalous
<1>0. \A p, q : Watch!Verdict(p, q).anomalous = p
  BY DEF Watch!Verdict
<1>. DEFINE a == SumsOf(list)
            n == Len(list)
<1>1. a.S = c * a.n /\ a.Q = c * c * a.n /\ a.P = c * a.X
  BY ConstantSums
<1>2. a \in SumRecords
  BY SumsAreNumbers
<1>3. /\ n \in Nat /\ DOMAIN list = 1 .. n /\ \A i \in 1 .. n : list[i] \in Int
  BY ListIs
<1>4. a.n = n
  BY DEF SumsOf
<1>. HIDE DEF a, n
<1>5. a.n \in Int /\ a.S \in Int /\ a.Q \in Int /\ a.P \in Int /\ a.X \in Int /\ a.XX \in Int
  BY <1>2 DEF SumRecords
<1>6. ~ Watch!ZScore(list, v, 3).anomalous
  <2>1. \A m \in Int : m * (c * c * m) - (c * m) * (c * m) = 0
    OBVIOUS
  <2>2. a.n * a.Q - a.S * a.S = 0
    BY <1>1, <1>5, <2>1
  <2>3. ~ (a.n * a.Q - a.S * a.S > 0)
    BY <2>2
  <2>4. ~ ZBy(a, v, 3).anomalous
    BY <1>0, <2>3, Zenon DEF ZBy
  <2>. QED  BY <2>4, DetectorsBySums DEF a
<1>7. ~ Watch!Linear(list, v, 3).anomalous
  <2>. DEFINE line == Watch!Line(list)
              run == a.n * a.XX - a.X * a.X
              res == Residuals(list)
  <2>1. /\ line.n = n /\ line.rise = a.n * a.P - a.X * a.S /\ line.run = run
        /\ line.sx = a.X /\ line.sy = a.S
    BY <1>4, DetectorsBySums DEF LineBy, a
  <2>2. a.n * a.P - a.X * a.S = 0
    <3>1. \A m, x \in Int : m * (c * x) - x * (c * m) = 0
      OBVIOUS
    <3>. QED  BY <1>1, <1>5, <3>1
  <2>3. run \in Int
    BY <1>5
  <2>. HIDE DEF line, run
  <2>4. \A x \in Int : Residual(line, x, c) = 0
    <3>1. \A x : Residual(line, x, c) = n * run * c - (n * 0 * x + run * (c * n) - 0 * a.X)
      BY <1>1, <1>4, <2>1, <2>2 DEF Residual, Watch!At
    <3>2. \A x, m, r, s \in Int : m * r * c - (m * 0 * x + r * (c * m) - 0 * s) = 0
      OBVIOUS
    <3>. QED  BY <1>3, <1>5, <2>3, <3>1, <3>2
  <2>5. res = [i \in 1 .. n |-> 0]
    <3>1. \A i \in 1 .. n : i - 1 \in Int /\ list[i] = c
      BY <1>3 DEF n
    <3>2. \A i \in 1 .. n : Residual(line, i - 1, list[i]) = 0
      BY <2>4, <3>1
    <3>. QED  BY <1>3, <3>2 DEF Residuals, line
  <2>. HIDE DEF res
  <2>6. res \in Lists /\ Len(res) = n
    <3>1. res \in [1 .. n -> Int]
      BY <2>5
    <3>. QED  BY <1>3, <3>1, ListOf
  <2>7. \A i \in 1 .. Len(res) : res[i] = 0
    BY <2>5, <2>6
  <2>8. Watch!SumFunction(Watch!Squares(res)) = 0
    BY <2>6, <2>7, SquaresOfNone
  <2>9. ~ (Watch!SumFunction(Watch!Squares(res)) > 0)
    BY <2>8
  <2>10. \A m, off, t : ~ LinearBy(m, res, off, t).anomalous
    BY <1>0, <2>9, Zenon DEF LinearBy
  <2>11. Watch!Linear(list, v, 3) = LinearBy(line.n, res, Residual(line, line.n, v), 3)
    BY DetectorsBySums DEF res, line
  <2>. QED  BY <2>10, <2>11, Zenon
<1>8. ~ Watch!Mad(list, v).anomalous
  <2>. DEFINE median == Watch!Quantile4(list, 2)
              dev == Deviations(list, median)
              off == Off(v, median)
  <2>0. 2 \in 1 .. 3 /\ c \in Int
    OBVIOUS
  <2>1. \A s \in Lists, x \in Int :
            (Len(s) >= 1 /\ \A i \in 1 .. Len(s) : s[i] = x) => Watch!Quantile4(s, 2) = 4 * x
    <3>1. SUFFICES ASSUME NEW s \in Lists, NEW x \in Int, Len(s) >= 1,
                          \A i \in 1 .. Len(s) : s[i] = x
                   PROVE  Watch!Quantile4(s, 2) = 4 * x
      OBVIOUS
    <3>. DEFINE m == Len(s)
                lo == 1 + (2 * (m - 1)) \div 4
                part == (2 * (m - 1)) % 4
    <3>2. m \in Nat \ {0} /\ DOMAIN s = 1 .. m
      BY <3>1, ListIs
    <3>3. \A k \in 1 .. m : Watch!Ranked(s, k) = x
      <4>1. ValuesOf(s) = {x}
        BY <3>1, <3>2 DEF ValuesOf
      <4>2. \A k \in 1 .. m : Watch!Ranked(s, k) \in ValuesOf(s)
        BY RankedIs
      <4>. QED  BY <4>1, <4>2
    <3>4. Watch!Quantile4(s, 2) = Between(s, lo, part)
      BY QuantileIsBetween
    <3>. HIDE DEF m
    <3>5. /\ lo \in 1 .. m /\ part \in 0 .. 3
          /\ part # 0 => lo + 1 \in 1 .. m
      BY <2>0, <3>2, QuartilePlaces
    <3>. HIDE DEF lo, part
    <3>6. CASE part = 0
      BY <3>3, <3>4, <3>5, <3>6 DEF Between
    <3>7. CASE part # 0
      <4>1. Between(s, lo, part) = (4 - part) * x + part * x
        BY <3>3, <3>5, <3>7 DEF Between
      <4>. QED  BY <3>4, <3>5, <4>1
    <3>. QED  BY <3>6, <3>7
  <2>2. median = 4 * c
    BY <2>1, <1>3 DEF n
  <2>. HIDE DEF median
  <2>3. dev = [i \in 1 .. n |-> 0]
    <3>1. \A i \in 1 .. n : list[i] = c
      BY DEF n
    <3>2. 4 * c \in Int
      OBVIOUS
    <3>3. Watch!Distance(4 * c, median) = 0
      BY <2>2, <3>2, Distances
    <3>. QED  BY <1>3, <3>1, <3>3 DEF Deviations
  <2>. HIDE DEF dev
  <2>4. dev \in Lists /\ Len(dev) = n
    <3>1. dev \in [1 .. n -> Int]
      BY <2>3
    <3>. QED  BY <1>3, <3>1, ListOf
  <2>5. Len(dev) >= 1 /\ \A i \in 1 .. Len(dev) : dev[i] = 0
    BY <2>3, <2>4 DEF n
  <2>6. Watch!Quantile4(dev, 2) = 4 * 0
    BY <2>1, <2>4, <2>5
  <2>7. ~ (Watch!Quantile4(dev, 2) > 0)
    BY <2>6
  <2>8. ~ MadBy(dev, off).anomalous
    <3>. DEFINE mad == Watch!Quantile4(dev, 2)
                p == mad > 0 /\ 6745 * off > 51891 * mad
                q == 10000 * off > 51891 * mad
    <3>1. MadBy(dev, off) = Watch!Verdict(p, q)
      BY DEF MadBy
    <3>2. ~ p
      BY <2>7
    <3>. HIDE DEF p, q
    <3>3. MadBy(dev, off).anomalous = p
      BY <1>0, <3>1, Zenon
    <3>. QED  BY <3>2, <3>3, Zenon
  <2>. QED  BY <2>8, MadIs DEF dev, off, median
<1>. QED  BY <1>6, <1>7, <1>8

-----------------------------------------------------------------------------
(* Watchdog: the forecast.                                                  *)

\* The positions of a window spread: n times their run is a sum of squares.
LEMMA RunIsNatural ==
    ASSUME NEW list \in Lists, Len(list) >= 1
    PROVE  Watch!Line(list).run \in Nat /\ Watch!Line(list).rise \in Int
<1>. DEFINE n == Len(list)
            D == 1 .. n
            one == Ones(list)
            W(f) == Watch!SumFunction(f)
            p == Positions(list)
            pp == Watch!Squares(p)
            X == W(p)
            XX == W(pp)
<1>1. /\ n \in Nat /\ DOMAIN list = D /\ one \in [D -> Int] /\ W(one) = n
      /\ p \in [D -> Int] /\ pp \in [D -> Int]
  BY ListFunctions
<1>2. X \in Int /\ XX \in Int /\ SumsOf(list) \in SumRecords
  BY SumsAreNumbers DEF SumsOf, SumRecords
<1>3. /\ Watch!Line(list).run = n * XX - X * X
      /\ Watch!Line(list).rise = n * SumsOf(list).P - X * SumsOf(list).S
  <2>1. Watch!Line(list) = LineBy(SumsOf(list))
    BY DetectorsBySums
  <2>2. LineBy(SumsOf(list)).run = n * XX - X * X
    BY DEF LineBy, SumsOf
  <2>3. LineBy(SumsOf(list)).rise = n * SumsOf(list).P - X * SumsOf(list).S
    BY DEF LineBy, SumsOf
  <2>. QED  BY <2>1, <2>2, <2>3
<1>4. \A i \in D : one[i] = 1 /\ p[i] \in Int /\ pp[i] = p[i] * p[i]
  BY <1>1 DEF Ones, Watch!Squares
<1>. DEFINE c == 0 - 2 * n * X
            d == X * X
            g == Blend(D, c, p, d, one)
            h == Blend(D, n * n, pp, 1, g)
<1>5. c \in Int /\ d \in Int /\ n * n \in Int
  BY <1>1, <1>2
<1>. HIDE DEF n, D, one, W, p, pp, X, XX, c, d
<1>6. W(g) = c * X + d * n /\ g \in [D -> Int]
  <2>1. BlendSums(D, c, p, d, one)
    BY <1>1, <1>5, WatchLinear, Zenon DEF D
  <2>. QED  BY <1>1, <2>1 DEF BlendSums, W, X
<1>. HIDE DEF g
<1>7. W(h) = n * n * XX + (c * X + d * n) /\ h \in [D -> Int]
  <2>1. BlendSums(D, n * n, pp, 1, g)
    BY <1>1, <1>5, <1>6, WatchNumbers, WatchLinear, Zenon DEF D
  <2>2. W(h) = n * n * XX + 1 * W(g) /\ h \in [D -> Int] /\ W(g) \in Int
    BY <2>1 DEF BlendSums, W, XX
  <2>. QED  BY <1>6, <2>2
<1>8. \A i \in D : h[i] \in Nat
  <2>1. ASSUME NEW i \in D  PROVE h[i] \in Nat
    <3>1. h[i] = n * n * (p[i] * p[i]) + 1 * (c * p[i] + d * 1) /\ p[i] \in Int
      BY <1>4 DEF h, g, Blend
    <3>2. \A x \in Int : n * n * (x * x) + 1 * ((0 - 2 * n * X) * x + X * X * 1) = (n * x - X) * (n * x - X)
      BY <1>1, <1>2
    <3>3. \A x \in Int : n * x - X \in Int
      BY <1>1, <1>2
    <3>4. \A y \in Int : y * y \in Nat
      OBVIOUS
    <3>5. h[i] = (n * p[i] - X) * (n * p[i] - X)
      BY <3>1, <3>2 DEF c, d
    <3>. QED  BY <3>1, <3>3, <3>4, <3>5
  <2>. QED  BY <2>1
<1>9. W(h) \in Nat
  <2>1. IsFiniteSet(D)
    BY <1>1, FS_Interval DEF D
  <2>2. DOMAIN h = D
    BY <1>7
  <2>. HIDE DEF h
  <2>3. SumFunctionOnSet(h, D) \in Nat
    BY <1>8, <2>1, SumOfNaturals
  <2>. QED  BY <2>2, <2>3, WatchSums DEF W
<1>10. W(h) = n * (n * XX - X * X)
  <2>1. n * n * XX + ((0 - 2 * n * X) * X + X * X * n) = n * (n * XX - X * X)
    BY <1>1, <1>2
  <2>. HIDE DEF h
  <2>. QED  BY <1>7, <2>1 DEF c, d
<1>11. n * XX - X * X \in Nat
  <2>. DEFINE r == n * XX - X * X
  <2>1. r \in Int
    BY <1>1, <1>2
  <2>2. n * r \in Nat /\ n >= 1
    BY <1>9, <1>10 DEF n
  <2>. HIDE DEF r
  <2>3. r >= 0
    BY <1>1, <2>1, <2>2
  <2>. QED  BY <2>1, <2>3 DEF r
<1>12. Watch!Line(list).rise \in Int
  BY <1>1, <1>2, <1>3 DEF SumRecords
<1>. QED  BY <1>3, <1>11, <1>12

LEMMA NewestOfIs ==
    ASSUME NEW list \in Lists, Len(list) >= 1, NEW n \in Nat \ {0}
    PROVE  /\ Watch!NewestOf(list, n) \in Lists /\ Len(Watch!NewestOf(list, n)) >= 1
           /\ Len(Watch!NewestOf(list, n)) <= n
<1>. DEFINE from == IF Len(list) > n THEN Len(list) - n + 1 ELSE 1
<1>1. Len(list) \in Nat /\ list \in Seq(Int)
  BY DEF Lists
<1>2. /\ from \in 1 .. Len(list) /\ Len(list) \in from .. Len(list)
      /\ Len(list) - from + 1 >= 1 /\ Len(list) - from + 1 <= n
  BY <1>1
<1>. HIDE DEF from
<1>3. /\ SubSeq(list, from, Len(list)) \in Seq(Int)
      /\ Len(SubSeq(list, from, Len(list))) = Len(list) - from + 1
  BY <1>1, <1>2, PartOf
<1>4. Watch!NewestOf(list, n) = SubSeq(list, from, Len(list))
  BY Zenon DEF Watch!NewestOf, from
<1>. QED  BY <1>2, <1>3, <1>4 DEF Lists

\* Rounding up a gap that the horizon bridges.
LEMMA Bridged ==
    ASSUME NEW gap \in Nat, NEW rise \in Nat \ {0}, NEW far \in Nat, gap <= far * rise,
           NEW n, n = (gap + rise - 1) \div rise
    PROVE  n \in 0 .. far /\ (n > 0 => gap > 0)
<1>1. n \in Int /\ rise * n <= gap + rise - 1 /\ gap + rise - 1 < rise * n + rise
  OBVIOUS
<1>2. n >= 0
  <2>1. SUFFICES ASSUME n <= -1  PROVE FALSE
    BY <1>1
  <2>2. rise * n <= rise * (-1)
    BY <1>1, <2>1
  <2>. QED  BY <1>1, <2>2
<1>3. n <= far
  <2>1. SUFFICES ASSUME n >= far + 1  PROVE FALSE
    BY <1>1
  <2>2. rise * n >= rise * (far + 1)
    BY <1>1, <2>1
  <2>3. rise * (far + 1) = far * rise + rise
    OBVIOUS
  <2>. QED  BY <1>1, <2>2, <2>3
<1>4. ASSUME n > 0  PROVE gap > 0
  <2>1. rise * n >= rise
    BY <1>1, <1>4
  <2>. QED  BY <1>1, <2>1
<1>. QED  BY <1>1, <1>2, <1>3, <1>4

LEMMA ForecastLeads ==
    ASSUME NEW list \in Lists, NEW n \in Watch!Forecast(list)
    PROVE  /\ n \in 0 .. Horizon
           /\ n > 0 => (Limit > Watch!Newest(list)) = (Watch!Line(Watch!NewestOf(list, Lookback)).rise > 0)
<1>. DEFINE line == Watch!Line(Watch!NewestOf(list, Lookback))
            ahead == Limit - Watch!Newest(list)
            sign == IF line.rise < 0 THEN -1 ELSE 1
            gap == ahead * sign * line.run
            rise == Watch!Distance(line.rise, 0)
<1>1. /\ ~ (Len(list) < 5) /\ line.rise # 0 /\ ~ (gap < 0) /\ ~ (gap > Horizon * rise)
      /\ n = (gap + rise - 1) \div rise
  BY DEF Watch!Forecast
<1>2. Len(list) >= 2 /\ Len(list) >= 1
  BY <1>1, ListIs
<1>3. line.run \in Nat /\ line.rise \in Int
  BY <1>2, WatchdogAssumption, NewestOfIs, RunIsNatural
<1>4. ahead \in Int /\ Horizon \in Nat /\ Watch!Newest(list) \in Int /\ Limit \in Int
  BY <1>2, WatchdogAssumption, OthersIs
<1>. HIDE DEF line
<1>5. rise \in Nat \ {0} /\ sign \in {-1, 1} /\ (sign = 1) = (line.rise > 0)
  BY <1>1, <1>3 DEF Watch!Distance
<1>6. gap \in Nat
  <2>1. ahead * sign * line.run \in Int
    BY <1>3, <1>4, <1>5
  <2>. QED  BY <1>1, <2>1
<1>7. n \in 0 .. Horizon /\ (n > 0 => gap > 0)
  <2>1. gap <= Horizon * rise
    BY <1>1, <1>4, <1>5, <1>6
  <2>. HIDE DEF gap, rise
  <2>. QED  BY <1>1, <1>4, <1>5, <1>6, <2>1, Bridged
<1>8. gap > 0 => (ahead > 0) = (sign = 1)
  <2>1. \A a \in Int : \A r \in Nat : /\ a * 1 * r > 0 => a > 0
                                     /\ a * (-1) * r > 0 => ~ (a > 0)
    OBVIOUS
  <2>. HIDE DEF ahead, sign
  <2>. QED  BY <1>3, <1>4, <1>5, <2>1
<1>9. (ahead > 0) = (Limit > Watch!Newest(list))
  BY <1>4
<1>. QED  BY <1>5, <1>7, <1>8, <1>9 DEF line

-----------------------------------------------------------------------------
WatchInv ==
    /\ store \in Lists /\ Len(store) <= Capacity
    /\ shown \in {{}, {[verdicts |-> Watch!Detect(store), crossing |-> Watch!Forecast(store)]}}

LEMMA WatchInvInit == Watch!Init => WatchInv
<1> SUFFICES ASSUME Watch!Init  PROVE WatchInv
  OBVIOUS
<1>1. store = <<>> /\ shown = {}
  BY Zenon DEF Watch!Init
<1>. QED  BY <1>1, WatchdogAssumption DEF WatchInv, Lists

LEMMA WatchInvStep == WatchInv /\ [Watch!Next]_(Watch!vars) => WatchInv'
<1> SUFFICES ASSUME WatchInv, [Watch!Next]_(Watch!vars)  PROVE WatchInv'
  OBVIOUS
<1>1. CASE UNCHANGED Watch!vars
  BY <1>1 DEF WatchInv, Watch!vars, Watch!Detect, Watch!Forecast
<1>2. CASE Watch!Next
  <2>1. PICK v \in Values : store' = Watch!NewestOf(Append(store, v), Capacity)
    BY <1>2, Zenon DEF Watch!Next, Watch!Push, Watch!Pushed
  <2>2. Append(store, v) \in Lists /\ Len(Append(store, v)) >= 1
    BY WatchdogAssumption DEF WatchInv, Lists
  <2>3. store' \in Lists /\ Len(store') <= Capacity
    BY <2>1, <2>2, WatchdogAssumption, NewestOfIs
  <2>4. shown' = {[verdicts |-> Watch!Detect(store'), crossing |-> Watch!Forecast(store')]}
    BY <1>2, Zenon DEF Watch!Next, Watch!Push
  <2>. QED  BY <2>3, <2>4 DEF WatchInv
<1>. QED  BY <1>1, <1>2

LEMMA WatchInvFair == WatchInv => Watch!WatchdogIsFair
<1> SUFFICES ASSUME WatchInv, NEW s \in shown
             PROVE  /\ s.verdicts = Watch!Detect(Watch!Shifted(store))
                    /\ s.verdicts = Watch!Detect(Watch!Mirrored(store))
                    /\ \A d \in DOMAIN s.verdicts : Outside(s.verdicts[d])
                    /\ (Len(store) >= 5 /\ Cardinality(ValuesOf(Watch!Others(store))) = 1) =>
                           \A d \in DOMAIN s.verdicts : s.verdicts[d].anomalous => d = "quantile"
                    /\ \A n \in s.crossing :
                           /\ n \in 0 .. Horizon
                           /\ n > 0 => (Limit > Watch!Newest(store))
                                           = (Watch!Line(Watch!NewestOf(store, Lookback)).rise > 0)
  BY WatchSums, Zenon DEF WatchInv, Watch!WatchdogIsFair, Outside, ValuesOf
<1>1. /\ store \in Lists /\ s.verdicts = Watch!Detect(store) /\ s.crossing = Watch!Forecast(store)
  BY DEF WatchInv
<1>. DEFINE rest == Watch!Others(store)
            v == Watch!Newest(store)
            t == s.verdicts
<1>2. Len(store) \in Nat
  BY <1>1, ListIs
<1>3. CASE Len(store) < 5
  <2>1. t = [z |-> Quiet, mad |-> Quiet, quantile |-> Quiet, linear |-> Quiet]
    BY <1>1, <1>3, DetectIs
  <2>2. \A d \in DOMAIN t : ~ t[d].anomalous
    BY <2>1 DEF Quiet, Watch!Verdict
  <2>. QED  BY <1>1, <2>2, DetectFair, ForecastLeads DEF Outside
<1>4. CASE ~ (Len(store) < 5)
  <2>1. Len(store) >= 2 /\ Len(store) - 1 >= 1
    BY <1>2, <1>4
  <2>2. rest \in Lists /\ Len(rest) >= 1 /\ v \in Int
    BY <1>1, <2>1, OthersIs
  <2>3. t = FourVerdicts(rest, v)
    BY <1>1, <1>4, DetectIs
  <2>. HIDE DEF rest, v
  <2>4. /\ DOMAIN t = {"z", "mad", "quantile", "linear"}
        /\ t["z"] = Watch!ZScore(rest, v, 3) /\ t["mad"] = Watch!Mad(rest, v)
        /\ t["quantile"] = Watch!Quartiles(rest, v) /\ t["linear"] = Watch!Linear(rest, v, 3)
    BY <2>3 DEF FourVerdicts
  <2>. HIDE DEF t
  <2>5. \A d \in DOMAIN t : Outside(t[d])
    BY <2>2, <2>4, VerdictsOutside
  <2>6. ASSUME Cardinality(ValuesOf(rest)) = 1
        PROVE  \A d \in DOMAIN t : t[d].anomalous => d = "quantile"
    <3>1. IsFiniteSet(ValuesOf(rest)) /\ ValuesOf(rest) \subseteq Int
      BY <2>2, ListSides
    <3>2. PICK c : ValuesOf(rest) = {c}
      BY <2>6, <3>1, FS_Singleton
    <3>3. c \in Int /\ \A i \in 1 .. Len(rest) : rest[i] = c
      BY <2>2, <3>1, <3>2, ListIs DEF ValuesOf
    <3>4. ~ t["z"].anomalous /\ ~ t["mad"].anomalous /\ ~ t["linear"].anomalous
      BY <2>2, <2>4, <3>3, ConstantIsQuiet
    <3>. QED  BY <2>4, <3>4
  <2>. QED  BY <1>1, <2>5, <2>6, DetectFair, ForecastLeads DEF t, rest
<1>. QED  BY <1>3, <1>4
=============================================================================
