--------------------------- MODULE RamStorageProofs ---------------------------
(***************************************************************************)
(* Proofs about the storage of ram_storage/ram_storage.c, for every array, *)
(* every length of storage and all dates: the handler stays inside the     *)
(* array, what it counts stays in the order of its times, reads and        *)
(* deletions are exact while the end of the ring does not come in between, *)
(* and the storage implements TimeStore.                                   *)
(***************************************************************************)
EXTENDS RamStorage, SequenceFacts, TLAPS

\* Going back from the newest element, times do not grow.
Descending == \A a, b \in Ages : a < b => Times(Back(b)) =< Times(Back(a))

RamInv == TypeOK /\ Descending

\* The slots behind the write pointer.
LEMMA BackSlots ==
    ASSUME TypeOK, max_number_of_elements > 0,
           NEW k \in 0 .. max_number_of_elements - 1
    PROVE  /\ Back(k) = IF write_to - 1 - k >= 0 THEN write_to - 1 - k
                        ELSE write_to - 1 - k + max_number_of_elements
           /\ Back(k) \in 0 .. max_number_of_elements - 1
  BY BackInRing, StorageAssumption DEF TypeOK, tail, Back

\* The ages that count are fewer than the slots.
LEMMA AgesInRing ==
    ASSUME TypeOK, NEW k \in Ages
    PROVE  max_number_of_elements > 0 /\ k \in 0 .. max_number_of_elements - 1
  BY StorageAssumption DEF TypeOK, Ages

LEMMA TimesType ==
    ASSUME TypeOK, NEW slot \in 0 .. MaxElements - 1
    PROVE  Times(slot) \in Nat
  <1>1. heap[slot] \in Element \cup {Null}
    BY DEF TypeOK
  <1>2. heap[slot].time \in Time
    BY <1>1, StorageAssumption DEF Element, Null
  <1> QED BY <1>2, StorageAssumption DEF Times

LEMMA AgeTimes ==
    ASSUME TypeOK, NEW k \in Ages
    PROVE  Back(k) \in 0 .. MaxElements - 1 /\ Times(Back(k)) \in Nat
  <1>1. Back(k) \in 0 .. max_number_of_elements - 1
    BY AgesInRing, BackSlots
  <1>2. Back(k) \in 0 .. MaxElements - 1
    BY <1>1, StorageAssumption DEF TypeOK
  <1> QED BY <1>2, TimesType

\* What is stored, oldest first, is what is met going back, read backwards.
LEMMA DescendingIsInOrder ==
    ASSUME TypeOK, Descending
    PROVE  StoredInOrder
  <1>1. number_of_elements \in Nat
    BY StorageAssumption DEF TypeOK
  <1> SUFFICES ASSUME NEW i \in 1 .. number_of_elements - 1
               PROVE  Stored[i].time =< Stored[i + 1].time
    BY DEF StoredInOrder
  <1>2. /\ number_of_elements - i \in Ages /\ number_of_elements - (i + 1) \in Ages
        /\ number_of_elements - (i + 1) < number_of_elements - i
        /\ i \in 1 .. number_of_elements /\ i + 1 \in 1 .. number_of_elements
    BY <1>1 DEF Ages
  <1>3. /\ Stored[i] = heap[Back(number_of_elements - i)]
        /\ Stored[i + 1] = heap[Back(number_of_elements - (i + 1))]
    BY <1>2 DEF Stored
  <1> QED BY <1>2, <1>3 DEF Descending, Times

-----------------------------------------------------------------------------
(* Positions *)

\* A stored element is the one of its age.
LEMMA StoredElements ==
    ASSUME TypeOK
    PROVE  /\ number_of_elements \in Nat
           /\ Stored \in Seq(Element \cup {Null})
           /\ Len(Stored) = number_of_elements /\ DOMAIN Stored = 1 .. number_of_elements
           /\ \A i \in 1 .. number_of_elements :
                 /\ number_of_elements - i \in Ages
                 /\ Stored[i] = heap[Back(number_of_elements - i)]
                 /\ Stored[i].time = Times(Back(number_of_elements - i))
  <1>1. number_of_elements \in Nat
    BY StorageAssumption DEF TypeOK
  <1>2. ASSUME NEW i \in 1 .. number_of_elements
        PROVE  /\ number_of_elements - i \in Ages
               /\ heap[Back(number_of_elements - i)] \in Element \cup {Null}
    <2>1. number_of_elements - i \in Ages
      BY <1>1 DEF Ages
    <2> QED BY <2>1, AgeTimes DEF TypeOK
  <1>3. Stored = [i \in 1 .. number_of_elements |-> heap[Back(number_of_elements - i)]]
    BY DEF Stored
  <1> QED BY <1>1, <1>2, <1>3 DEF Times

\* Going ahead from an element leads back to the newer ones.
LEMMA AheadIsBack ==
    ASSUME TypeOK, NEW s \in Ages, NEW k \in 0 .. s
    PROVE  Ahead(Back(s), k) = Back(s - k) /\ s - k \in Ages
  <1> DEFINE m == max_number_of_elements
  <1>1. /\ m \in Nat /\ m > 0 /\ write_to \in 0 .. m - 1 /\ s \in 0 .. m - 1
        /\ k \in 0 .. m - 1 /\ s - k \in 0 .. m - 1 /\ s - k \in Ages
    BY AgesInRing, StorageAssumption DEF TypeOK, Ages, tail
  <1>2. /\ Back(s) = IF write_to - 1 - s >= 0 THEN write_to - 1 - s
                     ELSE write_to - 1 - s + m
        /\ Back(s) \in 0 .. m - 1
        /\ Back(s - k) = IF write_to - 1 - (s - k) >= 0 THEN write_to - 1 - (s - k)
                         ELSE write_to - 1 - (s - k) + m
    BY <1>1, BackSlots
  <1>3. Ahead(Back(s), k) = IF Back(s) + k < m THEN Back(s) + k ELSE Back(s) + k - m
    BY <1>1, <1>2, AheadInRing DEF Ahead
  <1> QED BY <1>1, <1>2, <1>3

\* The number the code counts between two elements: their distance, or one less
\* when the end of the ring lies between them.
LEMMA BetweenAges ==
    ASSUME TypeOK, NEW a \in Ages, NEW b \in Ages, b =< a
    PROVE  /\ NumberBetween(Back(a), Back(b)) \in {a - b, a - b + 1}
           /\ NumberBetween(Back(a), Back(b)) \in 1 .. a - b + 1
           /\ Back(a) =< Back(b) => NumberBetween(Back(a), Back(b)) = a - b + 1
  <1> DEFINE m == max_number_of_elements
             start == Back(a)
             end == Back(b)
             border == IF start \in Borders \/ end \in Borders THEN 1 ELSE 0
  <1>1. /\ m \in Nat /\ m > 0 /\ write_to \in 0 .. m - 1 /\ a \in 0 .. m - 1
        /\ b \in 0 .. m - 1
    BY AgesInRing, StorageAssumption DEF TypeOK, tail
  <1>2. /\ start = IF write_to - 1 - a >= 0 THEN write_to - 1 - a
                   ELSE write_to - 1 - a + m
        /\ end = IF write_to - 1 - b >= 0 THEN write_to - 1 - b
                 ELSE write_to - 1 - b + m
        /\ start \in 0 .. m - 1 /\ end \in 0 .. m - 1
    BY <1>1, BackSlots
  <1>3. border \in {0, 1}
    OBVIOUS
  <1>4. CASE start > end
    <2>1. NumberBetween(start, end) = border + (m - 1 - start) + end + 1
      BY <1>4 DEF NumberBetween, tail
    <2>2. end = start + (a - b) - m /\ a - b >= 1
      BY <1>1, <1>2, <1>4
    <2> HIDE DEF start, end, border
    <2>3. NumberBetween(start, end) = border + (a - b)
      BY <1>1, <1>2, <1>3, <2>1, <2>2
    <2> QED BY <1>1, <1>2, <1>3, <1>4, <2>2, <2>3 DEF start, end
  <1>5. CASE ~(start > end)
    <2>1. NumberBetween(start, end) = end - start + 1
      BY <1>5 DEF NumberBetween
    <2>2. end = start + (a - b)
      BY <1>1, <1>2, <1>5
    <2> HIDE DEF start, end, border
    <2>3. NumberBetween(start, end) = a - b + 1
      BY <1>1, <1>2, <2>1, <2>2
    <2> QED BY <1>1, <2>3 DEF start, end
  <1> QED BY <1>4, <1>5

\* The elements of a straight storage are in the order of their slots.
LEMMA StraightAges ==
    ASSUME TypeOK, Straight, NEW a \in Ages, NEW b \in Ages, b =< a
    PROVE  Back(a) =< Back(b)
  <1> DEFINE m == max_number_of_elements
  <1>1. /\ m \in Nat /\ m > 0 /\ write_to \in 0 .. m - 1 /\ a \in 0 .. m - 1
        /\ b \in 0 .. m - 1 /\ Oldest \in 0 .. m - 1 /\ a =< Oldest
        /\ number_of_elements > 0 /\ 0 \in 0 .. m - 1
    BY AgesInRing, StorageAssumption DEF TypeOK, Ages, Oldest, tail
  <1>2. \A k \in 0 .. m - 1 :
           Back(k) = IF write_to - 1 - k >= 0 THEN write_to - 1 - k
                     ELSE write_to - 1 - k + m
    BY <1>1, BackSlots
  <1>3. Back(Oldest) =< Back(0)
    BY <1>1 DEF Straight
  <1> QED BY <1>1, <1>2, <1>3

\* A read never goes past the newest element, may stop two elements before it,
\* and reaches it in a straight storage.
LEMMA DistanceAges ==
    ASSUME TypeOK, NEW s \in Ages
    PROVE  /\ Distance(Back(s), Back(0)) \in 1 .. s + 1
           /\ Distance(Back(s), Back(0)) >= s - 1
           /\ Back(s) =< Back(0) => Distance(Back(s), Back(0)) = s + 1
  <1> DEFINE m == max_number_of_elements
             start == Back(s)
             end == Back(0)
             first == IF start \in Borders THEN 1 ELSE 0
             last == IF end \in Borders THEN 1 ELSE 0
  <1>1. /\ m \in Nat /\ m > 0 /\ write_to \in 0 .. m - 1 /\ s \in 0 .. m - 1
        /\ 0 \in 0 .. m - 1
    BY AgesInRing, StorageAssumption DEF TypeOK, tail
  <1>2. /\ start = IF write_to - 1 - s >= 0 THEN write_to - 1 - s
                   ELSE write_to - 1 - s + m
        /\ end = IF write_to - 1 - 0 >= 0 THEN write_to - 1 - 0
                 ELSE write_to - 1 - 0 + m
        /\ start \in 0 .. m - 1 /\ end \in 0 .. m - 1
    BY <1>1, BackSlots
  <1>3. CASE end >= start
    <2>1. Distance(start, end) = end - start + 1
      BY <1>3 DEF Distance
    <2>2. end = start + s
      BY <1>1, <1>2, <1>3
    <2> QED BY <1>1, <1>2, <2>1, <2>2
  <1>4. CASE ~(end >= start)
    <2>1. Distance(start, end) = first + last + (m - 1 - start) + end
      BY <1>4 DEF Distance, tail
    <2>2. end = start + s - m
      BY <1>1, <1>2, <1>4
    <2>3. /\ first \in {0, 1} /\ last \in {0, 1}
          /\ start = m - 1 => first = 1
          /\ end = 0 => last = 1
      BY DEF Borders, tail
    <2> HIDE DEF start, end, first, last
    <2>4. Distance(start, end) = first + last + s - 1
      BY <1>1, <1>2, <2>1, <2>2, <2>3
    <2>5. first + last + s - 1 >= 1
      BY <1>1, <1>2, <1>4, <2>2, <2>3
    <2> QED BY <1>1, <1>2, <1>4, <2>3, <2>4, <2>5 DEF start, end
  <1> QED BY <1>3, <1>4

-----------------------------------------------------------------------------
(* Searches *)

LEMMA TimesInOrder ==
    ASSUME RamInv, NEW a \in Ages, NEW b \in Ages, a =< b
    PROVE  Times(Back(b)) =< Times(Back(a))
  <1>1. a \in Int /\ b \in Int /\ Times(Back(a)) \in Nat
    BY AgeTimes DEF RamInv, Ages
  <1> QED BY <1>1 DEF RamInv, Descending

\* The start of a read is the oldest element that is not before the time.
LEMMA StartFound ==
    ASSUME RamInv, NEW from \in Time, StartAges(from) # {}
    PROVE  \E s \in Ages :
              /\ Min(StartAges(from)) = s
              /\ \A k \in Ages : Times(Back(k)) >= from <=> k =< s
  <1>1. PICK s \in StartAges(from) : TRUE
    OBVIOUS
  <1>2. /\ s \in Ages /\ Times(Back(s)) >= from
        /\ s = Oldest \/ Times(Back(s + 1)) < from
    BY <1>1 DEF StartAges
  <1>3. /\ number_of_elements \in Nat /\ s \in 0 .. number_of_elements - 1
        /\ Oldest = number_of_elements - 1 /\ from \in Nat
    BY <1>2, StorageAssumption DEF RamInv, TypeOK, Ages, Oldest
  <1>4. ASSUME NEW k \in Ages
        PROVE  Times(Back(k)) >= from <=> k =< s
    <2>1. /\ k \in 0 .. number_of_elements - 1
          /\ Times(Back(k)) \in Nat /\ Times(Back(s)) \in Nat
      BY <1>2, AgeTimes DEF Ages, RamInv
    <2>2. CASE k =< s
      BY <1>2, <1>3, <2>1, <2>2, TimesInOrder
    <2>3. CASE ~(k =< s)
      <3>1. s + 1 \in Ages /\ s + 1 =< k /\ s # Oldest
        BY <1>3, <2>1, <2>3 DEF Ages
      <3>2. Times(Back(s + 1)) \in Nat /\ Times(Back(k)) =< Times(Back(s + 1))
        BY <3>1, TimesInOrder, AgeTimes DEF RamInv
      <3> QED BY <1>2, <1>3, <2>1, <2>3, <3>1, <3>2
    <2> QED BY <2>2, <2>3
  <1>5. ASSUME NEW k \in StartAges(from) PROVE k = s
    <2>1. /\ k \in Ages /\ Times(Back(k)) >= from
          /\ k = Oldest \/ Times(Back(k + 1)) < from
      BY <1>5 DEF StartAges
    <2>2. k \in 0 .. number_of_elements - 1 /\ k =< s
      BY <1>4, <2>1 DEF Ages
    <2>3. CASE k # s
      <3>1. k + 1 \in Ages /\ k + 1 =< s /\ k # Oldest
        BY <1>3, <2>2, <2>3 DEF Ages
      <3>2. Times(Back(k + 1)) \in Nat /\ Times(Back(k + 1)) >= from
        BY <1>4, <3>1, AgeTimes DEF RamInv
      <3> QED BY <1>3, <2>1, <3>1, <3>2
    <2> QED BY <2>3
  <1>6. StartAges(from) = {s}
    BY <1>1, <1>5
  <1>7. Min(StartAges(from)) = s
    BY <1>3, <1>6 DEF Min
  <1> QED BY <1>2, <1>4, <1>7

LEMMA StartMissing ==
    ASSUME RamInv, NEW from \in Time, StartAges(from) = {}, NEW k \in Ages
    PROVE  Times(Back(k)) < from
  <1> DEFINE n == number_of_elements
             S == {a \in Ages : Times(Back(a)) >= from}
  <1>1. n \in Nat /\ k \in 0 .. n - 1 /\ from \in Nat /\ Times(Back(k)) \in Nat
        /\ Oldest = n - 1
    BY AgeTimes, StorageAssumption DEF RamInv, TypeOK, Ages, Oldest
  <1> SUFFICES ASSUME Times(Back(k)) >= from PROVE FALSE
    BY <1>1
  <1>2. S \in SUBSET (0 .. n) /\ k \in S
    BY <1>1 DEF Ages
  <1>3. PICK s \in S : \A a \in S : s >= a
    BY <1>1, <1>2, GreatestNumber
  <1>4. CASE s # Oldest
    <2>1. s + 1 \in Ages /\ s \in Ages /\ s \in Nat
      BY <1>1, <1>3, <1>4 DEF Ages
    <2>2. s + 1 \notin S
      BY <1>3, <2>1
    <2>3. Times(Back(s + 1)) < from
      BY <1>1, <2>1, <2>2, AgeTimes DEF RamInv
    <2> QED BY <1>3, <2>1, <2>3 DEF StartAges
  <1>5. CASE s = Oldest
    BY <1>3, <1>5 DEF StartAges
  <1> QED BY <1>4, <1>5

\* The end of a read is not after the time; the elements after it are, but for
\* two of them at most, and for none in a straight storage.
LEMMA EndFound ==
    ASSUME RamInv, NEW to \in Time, NEW s \in Ages, EndSteps(to, Back(s)) # {}
    PROVE  \E e \in 0 .. s :
              /\ Min(EndSteps(to, Back(s))) = e
              /\ Times(Back(s - e)) =< to
              /\ \A k \in Ages : k < s - e - 2 => Times(Back(k)) > to
              /\ Back(s) =< Back(0) =>
                    \A k \in Ages : k < s - e => Times(Back(k)) > to
  <1> DEFINE readable == Distance(Back(s), Back(0))
             E == EndSteps(to, Back(s))
  <1>1. /\ TypeOK /\ to \in Nat /\ s \in Nat /\ s < number_of_elements
        /\ number_of_elements \in Nat
        /\ readable \in 1 .. s + 1 /\ readable >= s - 1
        /\ Back(s) =< Back(0) => readable = s + 1
    BY DistanceAges, StorageAssumption DEF RamInv, TypeOK, Ages
  <1> HIDE DEF readable
  <1>2. E = {k \in 0 .. readable - 1 :
               /\ Times(Ahead(Back(s), k)) \in Times(Back(s)) .. to
               /\ k + 1 = readable \/ Times(Ahead(Back(s), k + 1)) > to}
    BY DEF EndSteps, readable
  <1> HIDE DEF E
  <1>3. E \in SUBSET Nat
    BY <1>1, <1>2
  <1>4. PICK e \in E : \A k \in E : e =< k
    <2>1. E # {}
      BY DEF E
    <2> QED BY <1>3, <2>1, LeastNumber
  <1>5. Min(E) = e
    <2>1. \A k \in E : k \in Int
      BY <1>3
    <2> QED BY <1>4, <2>1 DEF Min
  <1>6. e \in 0 .. s
    BY <1>1, <1>2, <1>4
  <1>7. Ahead(Back(s), e) = Back(s - e)
    BY <1>1, <1>6, AheadIsBack
  <1>8. Times(Back(s - e)) =< to
    BY <1>2, <1>4, <1>7
  <1>9. ASSUME e + 1 # readable, NEW k \in Ages, k < s - e
        PROVE  Times(Back(k)) > to
    <2>1. k \in Nat /\ Times(Back(k)) \in Nat
      BY <1>1, AgeTimes DEF Ages
    <2>2. e + 1 \in 0 .. s /\ k =< s - (e + 1)
      BY <1>1, <1>6, <1>9, <2>1
    <2>3. Ahead(Back(s), e + 1) = Back(s - (e + 1)) /\ s - (e + 1) \in Ages
      BY <1>1, <2>2, AheadIsBack
    <2>4. Times(Back(s - (e + 1))) > to
      BY <1>2, <1>4, <1>9, <2>2, <2>3
    <2>5. /\ Times(Back(s - (e + 1))) =< Times(Back(k))
          /\ Times(Back(s - (e + 1))) \in Nat
      BY <1>1, <2>2, <2>3, TimesInOrder, AgeTimes
    <2> QED BY <1>1, <2>1, <2>4, <2>5
  <1>10. ASSUME NEW k \in Ages, k < s - e - 2
         PROVE  Times(Back(k)) > to
    <2>1. k \in Nat /\ k < s - e /\ e + 1 # readable
      BY <1>1, <1>6, <1>10 DEF Ages
    <2> QED BY <1>9, <2>1
  <1>11. ASSUME Back(s) =< Back(0), NEW k \in Ages, k < s - e
         PROVE  Times(Back(k)) > to
    <2>1. e + 1 # readable
      BY <1>1, <1>6, <1>11 DEF Ages
    <2> QED BY <1>9, <1>11, <2>1
  <1> QED BY <1>5, <1>6, <1>8, <1>10, <1>11 DEF E

LEMMA EndMissing ==
    ASSUME RamInv, NEW to \in Time, NEW s \in Ages, EndSteps(to, Back(s)) = {}
    PROVE  Times(Back(s)) > to
  <1> DEFINE readable == Distance(Back(s), Back(0))
             S == {k \in 0 .. readable - 1 : Times(Ahead(Back(s), k)) =< to}
  <1>1. /\ TypeOK /\ to \in Nat /\ s \in Nat /\ s < number_of_elements
        /\ number_of_elements \in Nat /\ readable \in 1 .. s + 1
        /\ Times(Back(s)) \in Nat
    BY DistanceAges, AgeTimes, StorageAssumption DEF RamInv, TypeOK, Ages
  <1> SUFFICES ASSUME Times(Back(s)) =< to PROVE FALSE
    BY <1>1
  <1>2. EndSteps(to, Back(s)) =
           {k \in 0 .. readable - 1 :
               /\ Times(Ahead(Back(s), k)) \in Times(Back(s)) .. to
               /\ k + 1 = readable \/ Times(Ahead(Back(s), k + 1)) > to}
    BY DEF EndSteps
  <1> HIDE DEF readable
  <1>3. ASSUME NEW k \in 0 .. readable - 1
        PROVE  /\ Ahead(Back(s), k) = Back(s - k)
               /\ Times(Ahead(Back(s), k)) \in Nat
               /\ Times(Ahead(Back(s), k)) >= Times(Back(s))
    <2>1. k \in 0 .. s /\ Ahead(Back(s), k) = Back(s - k) /\ s - k \in Ages
      BY <1>1, AheadIsBack
    <2>2. s - k =< s
      BY <1>1, <2>1
    <2> QED BY <1>1, <2>1, <2>2, TimesInOrder, AgeTimes
  <1>4. 0 \in S
    <2>1. 0 \in 0 .. readable - 1 /\ s - 0 = s
      BY <1>1
    <2> QED BY <1>3, <2>1
  <1>5. S \in SUBSET (0 .. s)
    BY <1>1
  <1>6. PICK e \in S : \A k \in S : e >= k
    BY <1>1, <1>4, <1>5, GreatestNumber
  <1>7. e \in EndSteps(to, Back(s))
    <2>1. /\ e \in 0 .. readable - 1
          /\ Times(Ahead(Back(s), e)) \in Times(Back(s)) .. to
      BY <1>1, <1>3, <1>6
    <2>2. CASE e + 1 # readable
      <3>1. e + 1 \in 0 .. readable - 1 /\ e + 1 \notin S
        BY <1>1, <1>6, <2>1, <2>2
      <3>2. Times(Ahead(Back(s), e + 1)) > to
        BY <1>1, <1>3, <3>1
      <3> QED BY <1>2, <2>1, <3>2
    <2> QED BY <1>2, <2>1, <2>2
  <1> QED BY <1>7

-----------------------------------------------------------------------------
(* The invariant *)

LEMMA InitialStorage == Init => RamInv
  <1> SUFFICES ASSUME Init PROVE RamInv
    OBVIOUS
  <1>1. TypeOK
    BY StorageAssumption DEF Init, TypeOK
  <1>2. Ages = {}
    BY DEF Init, Ages
  <1> QED BY <1>1, <1>2 DEF RamInv, Descending

LEMMA InitMemoryKeeps ==
    ASSUME RamInv, NEW len \in Capacities, InitMemory(len)
    PROVE  RamInv'
  <1>1. len \in Nat /\ len > 0 /\ MaxElements \in Nat
    BY StorageAssumption
  <1>2. heap' = [slot \in 0 .. MaxElements - 1 |-> Null]
    BY DEF InitMemory
  <1>3. CASE len =< MaxElements
    <2>1. write_to' = 0 /\ number_of_elements' = 0 /\ max_number_of_elements' = len
      BY <1>3 DEF InitMemory
    <2>2. TypeOK'
      BY <1>1, <1>2, <1>3, <2>1 DEF TypeOK, tail
    <2>3. Ages' = {}
      BY <2>1 DEF Ages
    <2> QED BY <2>2, <2>3 DEF RamInv, Descending
  <1>4. CASE ~(len =< MaxElements)
    <2>1. UNCHANGED handler
      BY <1>4 DEF InitMemory
    <2>2. TypeOK'
      BY <1>2, <2>1 DEF RamInv, TypeOK, handler, tail
    <2>3. ASSUME NEW k \in Ages' PROVE Times(Back(k))' = 0
      <3>1. k \in Ages /\ Back(k)' = Back(k)
        BY <2>1 DEF Ages, Back, handler
      <3>2. Back(k) \in 0 .. MaxElements - 1
        BY <3>1, AgeTimes DEF RamInv
      <3> QED BY <1>2, <3>1, <3>2 DEF Times, Null
    <2> QED BY <2>2, <2>3 DEF RamInv, Descending
  <1> QED BY <1>3, <1>4

\* The written element becomes the newest one, and the others one older.
LEMMA WriteShifts ==
    ASSUME RamInv, NEW element \in Element, Write(element)
    PROVE  /\ heap'[Back(0)'] = element
           /\ \A k \in Ages : heap'[Back(k + 1)'] = heap[Back(k)]
  <1> DEFINE m == max_number_of_elements
             n == number_of_elements
  <1>1. /\ MaxElements \in Nat /\ m \in Nat /\ n \in 0 .. m - 1 /\ m > 0 /\ m =< MaxElements
        /\ write_to \in 0 .. m - 1 /\ TypeOK
    BY StorageAssumption DEF RamInv, TypeOK, Write, HasRoom, tail
  <1>2. /\ heap' = [heap EXCEPT ![write_to] = element]
        /\ write_to' = IF write_to + 1 > m - 1 THEN 0 ELSE write_to + 1
        /\ number_of_elements' = n + 1
        /\ max_number_of_elements' = m
    BY DEF Write, NextSlot, tail
  <1>3. write_to' \in 0 .. m - 1 /\ m' = m
    BY <1>1, <1>2
  <1>4. ASSUME NEW k \in 0 .. m - 1
        PROVE  Back(k)' = IF write_to' - 1 - k >= 0 THEN write_to' - 1 - k
                          ELSE write_to' - 1 - k + m
    BY <1>1, <1>3, BackInRing DEF Back
  <1>5. Back(0)' = write_to
    BY <1>1, <1>2, <1>3, <1>4
  <1>6. ASSUME NEW k \in Ages
        PROVE  Back(k + 1)' = Back(k) /\ Back(k) # write_to /\ Back(k) \in 0 .. m - 1
    <2>1. k \in 0 .. m - 2 /\ k + 1 \in 0 .. m - 1
      BY <1>1, <1>6 DEF Ages
    <2>2. /\ Back(k) = IF write_to - 1 - k >= 0 THEN write_to - 1 - k
                       ELSE write_to - 1 - k + m
          /\ Back(k) \in 0 .. m - 1
      BY <1>1, <2>1, BackSlots
    <2> QED BY <1>1, <1>2, <1>4, <2>1, <2>2
  <1> QED BY <1>1, <1>2, <1>5, <1>6 DEF TypeOK

LEMMA WriteKeeps ==
    ASSUME RamInv, NEW element \in Element, Write(element)
    PROVE  RamInv'
  <1> DEFINE m == max_number_of_elements
             n == number_of_elements
  <1>1. /\ MaxElements \in Nat /\ m \in Nat /\ n \in 0 .. m - 1 /\ m > 0 /\ m =< MaxElements
        /\ write_to \in 0 .. m - 1 /\ TypeOK /\ Descending
    BY StorageAssumption DEF RamInv, TypeOK, Write, HasRoom, tail
  <1>2. /\ heap' = [heap EXCEPT ![write_to] = element]
        /\ write_to' = IF write_to + 1 > m - 1 THEN 0 ELSE write_to + 1
        /\ number_of_elements' = n + 1
        /\ max_number_of_elements' = m
    BY DEF Write, NextSlot, tail
  <1>3. TypeOK'
    <2>1. heap' \in [0 .. MaxElements - 1 -> Element \cup {Null}]
      BY <1>1, <1>2 DEF TypeOK
    <2> QED BY <1>1, <1>2, <2>1 DEF TypeOK, tail
  <1>4. Times(Back(0))' = element.time
    BY WriteShifts DEF Times
  <1>5. ASSUME NEW k \in Ages PROVE Times(Back(k + 1))' = Times(Back(k))
    BY <1>5, WriteShifts DEF Times
  <1>6. ASSUME NEW a \in Ages', NEW b \in Ages', a < b
         PROVE  Times(Back(b))' =< Times(Back(a))'
    <2>1. b - 1 \in Ages /\ a \in 0 .. n /\ b \in 1 .. n
      BY <1>1, <1>2, <1>6 DEF Ages
    <2>2. Times(Back(b))' = Times(Back(b - 1))
      <3>1. (b - 1) + 1 = b
        BY <2>1
      <3> QED BY <1>5, <2>1, <3>1
    <2>3. CASE a = 0
      <3>1. 0 \in Ages /\ n # 0
        BY <1>1, <2>1 DEF Ages
      <3>2. Times(Back(0)) =< element.time
        BY <3>1 DEF Write, IsRecent
      <3>3. Times(Back(b - 1)) =< Times(Back(0))
        <4>1. CASE b - 1 = 0
          BY <3>1, <4>1, <1>1, AgeTimes
        <4>2. CASE b - 1 # 0
          BY <1>1, <2>1, <3>1, <4>2 DEF Descending
        <4> QED BY <4>1, <4>2
      <3>4. Times(Back(b - 1)) \in Nat /\ Times(Back(0)) \in Nat /\ element.time \in Nat
        BY <1>1, <2>1, <3>1, AgeTimes, StorageAssumption DEF Element
      <3> QED BY <1>4, <2>2, <2>3, <3>2, <3>3, <3>4
    <2>4. CASE a # 0
      <3>1. a - 1 \in Ages /\ a - 1 < b - 1 /\ (a - 1) + 1 = a
        BY <1>1, <1>6, <2>1, <2>4 DEF Ages
      <3>2. Times(Back(a))' = Times(Back(a - 1))
        BY <1>5, <3>1
      <3> QED BY <1>1, <2>1, <2>2, <3>1, <3>2 DEF Descending
    <2> QED BY <2>3, <2>4
  <1> QED BY <1>3, <1>6 DEF RamInv, Descending

-----------------------------------------------------------------------------
(* Deletion *)

\* The elements to delete are the oldest ones, from the age newest on, and as
\* many are erased, or one less when they cross the end of the ring.
LEMMA DeleteRange ==
    ASSUME RamInv, NEW to \in Time, DeletableAges(to) # {}
    PROVE  \E newest \in Ages :
              /\ \A k \in Ages : Times(Back(k)) =< to <=> k >= newest
              /\ Min(DeletableAges(to)) = newest
              /\ Min(LastDeletable(to)) = Oldest
              /\ DeleteCount(to) \in {Oldest - newest, Oldest - newest + 1}
              /\ DeleteCount(to) \in 1 .. number_of_elements
              /\ Straight => DeleteCount(to) = Oldest - newest + 1
  <1> DEFINE m == max_number_of_elements
             n == number_of_elements
             D == DeletableAges(to)
  <1>1. /\ TypeOK /\ Descending /\ to \in Nat /\ m \in Nat /\ n \in 0 .. m
        /\ m > 0 => write_to \in 0 .. m - 1
    BY StorageAssumption DEF RamInv, TypeOK, tail
  <1>2. PICK d \in D : \A k \in D : d =< k
    <2>1. D \in SUBSET Nat
      BY <1>1 DEF DeletableAges, Ages
    <2> QED BY <2>1, LeastNumber
  <1>3. d \in Ages /\ Times(Back(d)) =< to
    BY <1>2 DEF DeletableAges
  <1>4. m > 0 /\ d \in 0 .. n - 1 /\ Oldest \in Ages /\ Oldest = n - 1 /\ n > 0
    BY <1>1, <1>3 DEF Ages, Oldest
  <1>5. \A k \in Ages : Times(Back(k)) =< to <=> k >= d
    <2> TAKE k \in Ages
    <2>1. k \in Int /\ Times(Back(k)) \in Nat /\ Times(Back(d)) \in Nat /\ d \in Int
      BY <1>1, <1>3, <1>4, AgeTimes DEF Ages
    <2>2. CASE k >= d
      <3>1. Times(Back(k)) =< Times(Back(d))
        <4>1. k = d \/ d < k
          BY <2>1, <2>2
        <4> QED BY <1>1, <1>3, <2>1, <4>1 DEF Descending
      <3> QED BY <1>1, <1>3, <2>1, <2>2, <3>1
    <2>3. CASE ~(k >= d)
      <3>1. k \notin D
        BY <1>2, <2>1, <2>3
      <3> QED BY <2>3, <3>1 DEF DeletableAges
    <2> QED BY <2>2, <2>3
  <1>6. Min(D) = d
    <2>1. \A k \in D : k \in Int
      BY <1>1 DEF DeletableAges, Ages
    <2> QED BY <1>2, <2>1 DEF Min
  <1>7. LastDeletable(to) = {Oldest}
    <2>1. Oldest \in LastDeletable(to)
      BY <1>4, <1>5 DEF LastDeletable, DeletableAges
    <2>2. ASSUME NEW k \in LastDeletable(to) PROVE k = Oldest
      <3>1. k \in Ages /\ k >= d /\ (k = Oldest \/ Times(Back(k + 1)) > to)
        BY <1>5, <2>2 DEF LastDeletable, DeletableAges
      <3>2. CASE k # Oldest
        <4>1. k + 1 \in Ages /\ k + 1 >= d
          BY <1>4, <3>1, <3>2 DEF Ages
        <4>2. Times(Back(k + 1)) =< to /\ Times(Back(k + 1)) \in Nat
          BY <1>1, <1>5, <4>1, AgeTimes
        <4> QED BY <1>1, <3>1, <3>2, <4>2
      <3> QED BY <3>2
    <2> QED BY <2>1, <2>2
  <1>8. Min(LastDeletable(to)) = Oldest
    BY <1>4, <1>7 DEF Min
  <1>9. DeleteCount(to) = NumberBetween(Back(Oldest), Back(d))
    BY <1>6, <1>8 DEF DeleteCount
  <1>10. d =< Oldest /\ d \in Int /\ Oldest - d + 1 =< n
    BY <1>1, <1>4
  <1>11. /\ DeleteCount(to) \in {Oldest - d, Oldest - d + 1}
         /\ DeleteCount(to) \in 1 .. Oldest - d + 1
         /\ Straight => DeleteCount(to) = Oldest - d + 1
    BY <1>1, <1>3, <1>4, <1>9, <1>10, BetweenAges, StraightAges
  <1>12. DeleteCount(to) \in 1 .. n
    BY <1>1, <1>4, <1>10, <1>11
  <1> QED BY <1>3, <1>5, <1>6, <1>8, <1>11, <1>12

\* The elements left have the ages they had, and are not erased.
LEMMA DeleteLeaves ==
    ASSUME RamInv, NEW to \in Time, Delete(to)
    PROVE  /\ TypeOK'
           /\ number_of_elements' = number_of_elements - DeleteCount(to)
           /\ \A k \in Ages' : /\ k \in Ages /\ Back(k)' = Back(k)
                              /\ heap'[Back(k)] = heap[Back(k)]
  <1> DEFINE m == max_number_of_elements
             n == number_of_elements
             count == DeleteCount(to)
             start == Back(Min(LastDeletable(to)))
             erased == {Ahead(start, i) : i \in 0 .. count - 1}
  <1>1. /\ TypeOK /\ Descending /\ m \in Nat /\ n \in 0 .. m /\ m =< MaxElements
        /\ MaxElements \in Nat /\ (m > 0 => write_to \in 0 .. m - 1)
    BY StorageAssumption DEF RamInv, TypeOK, tail
  <1>2. start = Back(Oldest) /\ count \in 1 .. n
    BY DeleteRange DEF Delete
  <1>3. /\ heap' = [slot \in 0 .. MaxElements - 1 |->
                       IF slot \in erased THEN Null ELSE heap[slot]]
        /\ number_of_elements' = n - count
        /\ write_to' = write_to /\ max_number_of_elements' = m
    BY <1>1 DEF Delete, TypeOK
  <1> HIDE DEF count, start
  <1>4. TypeOK'
    <2>1. heap' \in [0 .. MaxElements - 1 -> Element \cup {Null}]
      BY <1>1, <1>3 DEF TypeOK
    <2> QED BY <1>1, <1>2, <1>3, <2>1 DEF TypeOK, tail
  <1>5. ASSUME NEW k \in 0 .. n - count - 1
        PROVE  /\ k \in Ages /\ Back(k)' = Back(k)
               /\ heap'[Back(k)] = heap[Back(k)]
    <2>1. k \in Ages /\ Back(k)' = Back(k) /\ m > 0 /\ Oldest \in 0 .. m - 1
          /\ k \in 0 .. m - 1 /\ Oldest = n - 1
      BY <1>1, <1>2, <1>3, <1>5 DEF Ages, Back, Oldest
    <2>2. /\ Back(k) = IF write_to - 1 - k >= 0 THEN write_to - 1 - k
                       ELSE write_to - 1 - k + m
          /\ start = IF write_to - 1 - Oldest >= 0 THEN write_to - 1 - Oldest
                     ELSE write_to - 1 - Oldest + m
          /\ Back(k) \in 0 .. m - 1 /\ start \in 0 .. m - 1
      BY <1>1, <1>2, <2>1, BackSlots
    <2>3. ASSUME NEW i \in 0 .. count - 1 PROVE Ahead(start, i) # Back(k)
      <3>1. i \in 0 .. m - 1
        BY <1>1, <1>2, <2>3
      <3>2. Ahead(start, i) = IF start + i < m THEN start + i ELSE start + i - m
        BY <1>1, <2>2, <3>1, AheadInRing DEF Ahead
      <3> QED BY <1>1, <1>2, <1>5, <2>1, <2>2, <2>3, <3>1, <3>2
    <2>4. Back(k) \notin erased
      BY <2>3
    <2>5. Back(k) \in 0 .. MaxElements - 1
      BY <1>1, <2>2
    <2>6. heap'[Back(k)] = heap[Back(k)]
      BY <1>3, <2>4, <2>5
    <2> QED BY <2>1, <2>6
  <1>6. \A k \in Ages' : k \in 0 .. n - count - 1
    BY <1>3 DEF Ages
  <1> QED BY <1>3, <1>4, <1>5, <1>6 DEF count

LEMMA DeleteKeeps ==
    ASSUME RamInv, NEW to \in Time, Delete(to)
    PROVE  RamInv'
  <1>1. \A k \in Ages' : k \in Ages /\ Times(Back(k))' = Times(Back(k))
    BY DeleteLeaves DEF Times
  <1> QED BY <1>1, DeleteLeaves DEF RamInv, Descending

LEMMA StorageStepKeeps == RamInv /\ [Next]_vars => RamInv'
  <1> SUFFICES ASSUME RamInv, [Next]_vars PROVE RamInv'
    OBVIOUS
  <1>1. ASSUME NEW len \in Capacities, InitMemory(len) PROVE RamInv'
    BY <1>1, InitMemoryKeeps
  <1>2. ASSUME NEW element \in Element, Write(element) PROVE RamInv'
    BY <1>2, WriteKeeps
  <1>3. ASSUME NEW to \in Time, Delete(to) PROVE RamInv'
    BY <1>3, DeleteKeeps
  <1>4. ASSUME UNCHANGED <<heap, handler>> PROVE RamInv'
    BY <1>4 DEF handler, RamInv, TypeOK, tail, Descending, Ages, Times, Back
  <1>5. CASE WriteRefused
    BY <1>4, <1>5 DEF WriteRefused
  <1>6. ASSUME NEW from \in Time, NEW to \in Time, NEW size \in Buffers,
               Read(from, to, size)
        PROVE  RamInv'
    BY <1>4, <1>6 DEF Read
  <1>7. ASSUME NEW to \in Time, DeleteRefused(to) PROVE RamInv'
    BY <1>4, <1>7 DEF DeleteRefused
  <1>8. CASE AskTimes
    BY <1>4, <1>8 DEF AskTimes
  <1>9. CASE UNCHANGED vars
    BY <1>4, <1>9 DEF vars, handler
  <1> QED BY <1>1, <1>2, <1>3, <1>5, <1>6, <1>7, <1>8, <1>9 DEF Next

-----------------------------------------------------------------------------
\* The handler never leaves the array, whatever the lengths asked for, and a
\* deletion never counts more elements than there are.
THEOREM StorageType == Spec => []TypeOK
  <1>1. RamInv => TypeOK
    BY DEF RamInv
  <1> QED BY InitialStorage, StorageStepKeeps, <1>1, PTL DEF Spec

\* Writes, deletions, wraps and refused initializations keep the elements in the
\* order of their times.
THEOREM StorageOrder == Spec => []StoredInOrder
  <1>1. RamInv => StoredInOrder
    BY DescendingIsInOrder DEF RamInv
  <1> QED BY InitialStorage, StorageStepKeeps, <1>1, PTL DEF Spec
-----------------------------------------------------------------------------
(* Reads *)

\* A read answers with the elements from the first of the period on, up to one
\* of the period, with three more after it at most; in a straight storage, up to
\* the last one.
LEMMA ReadPositions ==
    ASSUME RamInv, NEW from \in Time, NEW to \in Time,
           StartAges(from) # {},
           EndSteps(to, Back(Min(StartAges(from)))) # {}
    PROVE  \E first \in 1 .. number_of_elements, last \in 1 .. number_of_elements :
              LET start == Back(Min(StartAges(from)))
                  end == Ahead(start, Min(EndSteps(to, start)))
              IN  /\ first =< last
                  /\ NumberBetween(start, end) = last - first + 1
                  /\ ReadElements(from, to) = SubSeq(Stored, first, last)
                  /\ \A i \in 1 .. number_of_elements :
                        Stored[i].time >= from <=> i >= first
                  /\ Stored[last].time =< to
                  /\ \A i \in 1 .. number_of_elements :
                        Stored[i].time =< to => i =< last + 3
                  /\ Straight => \A i \in 1 .. number_of_elements :
                                    Stored[i].time =< to <=> i =< last
  <1> DEFINE n == number_of_elements
             start == Back(Min(StartAges(from)))
             end == Ahead(start, Min(EndSteps(to, start)))
             count == NumberBetween(start, end)
  <1>1. PICK s \in Ages : /\ Min(StartAges(from)) = s
                          /\ \A k \in Ages : Times(Back(k)) >= from <=> k =< s
    BY StartFound
  <1>2. start = Back(s)
    BY <1>1
  <1>3. PICK e \in 0 .. s :
           /\ Min(EndSteps(to, Back(s))) = e
           /\ Times(Back(s - e)) =< to
           /\ \A k \in Ages : k < s - e - 2 => Times(Back(k)) > to
           /\ Back(s) =< Back(0) => \A k \in Ages : k < s - e => Times(Back(k)) > to
    BY <1>1, EndFound
  <1>4. /\ TypeOK /\ n \in Nat /\ s \in 0 .. n - 1 /\ e \in Nat /\ s - e \in Ages
        /\ to \in Nat /\ from \in Nat /\ 0 \in Ages
    BY <1>3, StorageAssumption DEF RamInv, TypeOK, Ages
  <1>5. end = Back(s - e)
    BY <1>2, <1>3, <1>4, AheadIsBack
  <1>6. /\ count \in {e, e + 1} /\ count \in 1 .. e + 1
        /\ Back(s) =< Back(s - e) => count = e + 1
    <2>1. s - e =< s /\ s - (s - e) = e
      BY <1>4
    <2> QED BY <1>2, <1>4, <1>5, <2>1, BetweenAges
  <1> HIDE DEF start, end, count
  <1> DEFINE first == n - s
             last == n - s + count - 1
  <1>7. /\ first \in 1 .. n /\ last \in 1 .. n /\ first =< last
        /\ count = last - first + 1 /\ n - last = s - count + 1
        /\ n - last \in Ages /\ n - last >= s - e
    BY <1>3, <1>4, <1>6 DEF Ages
  <1>8. /\ Stored \in Seq(Element \cup {Null}) /\ Len(Stored) = n
        /\ \A i \in 1 .. n : /\ n - i \in Ages
                             /\ Stored[i] = heap[Back(n - i)]
                             /\ Stored[i].time = Times(Back(n - i))
    BY <1>4, StoredElements
  <1>9. ReadElements(from, to) = SubSeq(Stored, first, last)
    <2>1. ReadElements(from, to) = [i \in 1 .. count |-> heap[Ahead(start, i - 1)]]
      BY DEF ReadElements, start, end, count
    <2>2. SubSeq(Stored, first, last) = [i \in 1 .. count |-> Stored[first + i - 1]]
      <3>1. /\ first \in 1 .. Len(Stored) /\ last \in 1 .. Len(Stored)
            /\ last - first + 1 = count
        BY <1>4, <1>6, <1>7, <1>8
      <3> HIDE DEF first, last
      <3> QED BY <1>8, <3>1, SubSeqElements
    <2>3. ASSUME NEW i \in 1 .. count
          PROVE  heap[Ahead(start, i - 1)] = Stored[first + i - 1]
      <3>1. /\ i - 1 \in 0 .. s /\ first + i - 1 \in 1 .. n
            /\ n - (first + i - 1) = s - (i - 1)
        BY <1>3, <1>4, <1>6
      <3>2. Ahead(start, i - 1) = Back(s - (i - 1))
        BY <1>2, <1>4, <3>1, AheadIsBack
      <3> QED BY <1>8, <3>1, <3>2
    <2> QED BY <2>1, <2>2, <2>3
  <1>10. ASSUME NEW i \in 1 .. n PROVE Stored[i].time >= from <=> i >= first
    BY <1>1, <1>4, <1>8
  <1>11. Stored[last].time =< to
    <2>1. /\ Times(Back(n - last)) =< Times(Back(s - e))
          /\ Times(Back(n - last)) \in Nat /\ Times(Back(s - e)) \in Nat
      BY <1>4, <1>7, TimesInOrder, AgeTimes
    <2> QED BY <1>3, <1>4, <1>7, <1>8, <2>1
  <1>12. ASSUME Straight, NEW i \in 1 .. n
         PROVE  Stored[i].time =< to <=> i =< last
    <2>1. Back(s) =< Back(0) /\ Back(s) =< Back(s - e)
      <3>1. 0 =< s /\ s - e =< s
        BY <1>4
      <3> QED BY <1>4, <1>12, <3>1, StraightAges
    <2>2. n - i \in Ages /\ Stored[i].time = Times(Back(n - i)) /\ last = n - (s - e)
      BY <1>4, <1>6, <1>8, <2>1
    <2>3. Times(Back(n - i)) \in Nat /\ Times(Back(s - e)) \in Nat
      BY <1>4, <2>2, AgeTimes
    <2>4. CASE i =< last
      <3>1. s - e =< n - i
        BY <1>4, <2>2, <2>4
      <3>2. Times(Back(n - i)) =< Times(Back(s - e))
        BY <1>4, <2>2, <3>1, TimesInOrder
      <3> QED BY <1>3, <1>4, <2>2, <2>3, <2>4, <3>2
    <2>5. CASE ~(i =< last)
      <3>1. n - i < s - e
        BY <1>4, <2>2, <2>5
      <3> QED BY <1>3, <1>4, <2>1, <2>2, <2>3, <2>5, <3>1
    <2> QED BY <2>4, <2>5
  <1>13. ASSUME NEW i \in 1 .. n, Stored[i].time =< to
         PROVE  i =< last + 3
    <2> SUFFICES ASSUME i > last + 3 PROVE FALSE
      BY <1>4, <1>7
    <2>1. n - i \in Ages /\ Stored[i].time = Times(Back(n - i))
          /\ Times(Back(n - i)) \in Nat
      BY <1>4, <1>8, AgeTimes
    <2>2. n - i < s - e - 2
      BY <1>4, <1>6
    <2> QED BY <1>3, <1>4, <1>13, <2>1, <2>2
  <1> HIDE DEF first, last
  <1> QED BY <1>7, <1>9, <1>10, <1>11, <1>12, <1>13 DEF start, end, count

LEMMA ReadCodes ==
    ASSUME NEW from, NEW to, NEW size
    PROVE  LET start == Back(Min(StartAges(from)))
               end == Ahead(start, Min(EndSteps(to, start)))
               code == ReadCode(from, to, size)
           IN  \/ code = -1 /\ StartAges(from) = {}
               \/ code = -2 /\ StartAges(from) # {} /\ EndSteps(to, start) = {}
               \/ /\ StartAges(from) # {} /\ EndSteps(to, start) # {}
                  /\ code = IF NumberBetween(start, end) > size THEN -3 ELSE 0
  BY DEF ReadCode

\* Without the end of the ring in between, a read that succeeds answers with
\* the whole period, however long and with how many equal times.
THEOREM StraightReads == Spec => []ReadsWholePeriodWhenStraight
  <1>1. RamInv => ReadsWholePeriodWhenStraight
    <2> SUFFICES ASSUME RamInv, Straight, NEW from \in Time, NEW to \in Time,
                        NEW size \in Buffers, ReadCode(from, to, size) = 0
                 PROVE  \E first, last \in 1 .. number_of_elements :
                           /\ ReadElements(from, to) = SubSeq(Stored, first, last)
                           /\ \A i \in 1 .. number_of_elements :
                                 Stored[i].time \in from .. to <=> i \in first .. last
      BY DEF ReadsWholePeriodWhenStraight
    <2>1. StartAges(from) # {} /\ EndSteps(to, Back(Min(StartAges(from)))) # {}
      BY ReadCodes
    <2>2. PICK first \in 1 .. number_of_elements, last \in 1 .. number_of_elements :
             /\ ReadElements(from, to) = SubSeq(Stored, first, last)
             /\ \A i \in 1 .. number_of_elements :
                   Stored[i].time >= from <=> i >= first
             /\ \A i \in 1 .. number_of_elements :
                   Stored[i].time =< to <=> i =< last
      BY <2>1, ReadPositions
    <2>3. ASSUME NEW i \in 1 .. number_of_elements
          PROVE  Stored[i].time \in from .. to <=> i \in first .. last
      <3>1. TypeOK /\ from \in Nat /\ to \in Nat /\ number_of_elements \in Nat
        BY StorageAssumption DEF RamInv, TypeOK
      <3>2. Stored[i].time \in Nat
        BY <3>1, StoredElements, AgeTimes
      <3> QED BY <2>2, <3>1, <3>2
    <2> QED BY <2>2, <2>3
  <1> QED BY InitialStorage, StorageStepKeeps, <1>1, PTL DEF Spec

-----------------------------------------------------------------------------
(* Deletions of straight storages *)

\* Without the end of the ring in between, a deletion leaves nothing that is
\* dated up to the time.
THEOREM StraightDeletes == Spec => DeletesWholePeriodWhenStraight
  <1>1. ASSUME RamInv, Straight, NEW to \in Time, Delete(to)
        PROVE  LeavesNoneUpTo(to)
    <2>1. PICK newest \in Ages :
             /\ \A k \in Ages : Times(Back(k)) =< to <=> k >= newest
             /\ DeleteCount(to) = Oldest - newest + 1
      BY <1>1, DeleteRange DEF Delete
    <2>2. /\ number_of_elements \in Nat /\ newest \in Nat /\ to \in Nat /\ TypeOK
          /\ Oldest = number_of_elements - 1 /\ number_of_elements' = newest
      BY <1>1, <2>1, DeleteLeaves, StorageAssumption
         DEF RamInv, TypeOK, Ages, Oldest
    <2>3. ASSUME NEW i \in 1 .. number_of_elements'
          PROVE  Stored'[i].time > to
      <3>1. number_of_elements' - i \in Ages' /\ number_of_elements' - i < newest
        BY <2>2 DEF Ages
      <3>0. PICK k \in Ages' : k = number_of_elements' - i
        BY <3>1
      <3>2. /\ k \in Ages /\ k \in Int /\ Back(k)' = Back(k)
            /\ heap'[Back(k)] = heap[Back(k)]
        BY <1>1, <2>2, <3>0, DeleteLeaves DEF Ages
      <3>3. Times(Back(k)) > to
        BY <2>1, <2>2, <3>0, <3>1, <3>2, AgeTimes
      <3>4. Stored'[i] = heap'[Back(k)']
        BY <3>0 DEF Stored
      <3> QED BY <3>2, <3>3, <3>4 DEF Times
    <2> QED BY <2>3 DEF LeavesNoneUpTo
  <1>2. RamInv /\ [Next]_vars
          => [Straight => \A to \in Time : Delete(to) => LeavesNoneUpTo(to)]_vars
    BY <1>1
  <1> QED BY InitialStorage, StorageStepKeeps, <1>2, PTL
          DEF Spec, DeletesWholePeriodWhenStraight

-----------------------------------------------------------------------------
(* The storage implements TimeStore *)

\* What is stored after a step, element by element.
LEMMA NextStored ==
    /\ Stored' = [i \in 1 .. number_of_elements' |-> Stored'[i]]
    /\ \A i \in 1 .. number_of_elements' : \A k :
          k = number_of_elements' - i => Stored'[i] = heap'[Back(k)']
  BY DEF Stored

LEMMA PeriodIs ==
    ASSUME TypeOK, NEW from, NEW to
    PROVE  Store!Period(from, to) =
              {i \in 1 .. number_of_elements : Stored[i].time \in from .. to}
  <1>1. Len(Stored) = number_of_elements
    BY StoredElements
  <1> QED BY <1>1 DEF Store!Period

LEMMA InitMemoryIsReset ==
    ASSUME RamInv, NEW len \in Capacities, InitMemory(len)
    PROVE  Store!Reset \/ Store!ResetRefused
  <1>1. heap' = [slot \in 0 .. MaxElements - 1 |-> Null]
    BY DEF InitMemory
  <1>2. CASE len =< MaxElements
    <2>1. /\ number_of_elements' = 0 /\ max_number_of_elements' = len
          /\ answer' = Answer("init", 0, << >>)
      BY <1>2 DEF InitMemory
    <2>2. Stored' = << >>
      BY <2>1 DEF Stored
    <2> QED BY <1>2, <2>1, <2>2 DEF Store!Reset, Store!Answer, Answer
  <1>3. CASE ~(len =< MaxElements)
    <2>1. UNCHANGED handler /\ answer' = Answer("init", 1, << >>)
      BY <1>3 DEF InitMemory
    <2>2. ASSUME NEW i \in 1 .. number_of_elements
          PROVE  heap'[Back(number_of_elements - i)] = Null
      <3>1. number_of_elements - i \in Ages
        BY <2>2, StoredElements DEF RamInv
      <3>2. Back(number_of_elements - i) \in 0 .. MaxElements - 1
        BY <3>1, AgeTimes DEF RamInv
      <3> QED BY <1>1, <3>2
    <2>3. Stored' = [i \in 1 .. number_of_elements |->
                        heap'[Back(number_of_elements - i)]]
      BY <2>1 DEF Stored, handler, Back
    <2>4. Stored' = [i \in 1 .. Len(Stored) |-> Null]
      BY <2>2, <2>3, StoredElements DEF RamInv
    <2> QED BY <2>1, <2>4 DEF Store!ResetRefused, Store!Answer, Answer, handler
  <1> QED BY <1>2, <1>3

LEMMA WriteIsWrite ==
    ASSUME RamInv, NEW element \in Element, Write(element)
    PROVE  Store!Write(element)
  <1> DEFINE n == number_of_elements
  <1>1. /\ number_of_elements' = n + 1 /\ n < max_number_of_elements
        /\ max_number_of_elements' = max_number_of_elements
        /\ answer' = Answer("write", 0, << >>)
    BY DEF Write, HasRoom
  <1>2. /\ n \in Nat /\ Len(Stored) = n /\ Stored \in Seq(Element \cup {Null})
        /\ \A i \in 1 .. n : n - i \in Ages /\ Stored[i] = heap[Back(n - i)]
    BY StoredElements DEF RamInv
  <1>3. /\ heap'[Back(0)'] = element
        /\ \A k \in Ages : heap'[Back(k + 1)'] = heap[Back(k)]
    BY WriteShifts
  <1>4. Stored' = [i \in 1 .. n + 1 |-> IF i = n + 1 THEN element ELSE Stored[i]]
    <2>1. ASSUME NEW i \in 1 .. n + 1
          PROVE  Stored'[i] = IF i = n + 1 THEN element ELSE Stored[i]
      <3>1. CASE i = n + 1
        <4>1. 0 = number_of_elements' - i /\ i \in 1 .. number_of_elements'
          BY <1>1, <1>2, <3>1
        <4> QED BY <1>3, <3>1, <4>1, NextStored
      <3>2. CASE i # n + 1
        <4>1. PICK k \in Ages : k = n - i
          BY <1>2, <3>2
        <4>2. k + 1 = number_of_elements' - i /\ i \in 1 .. number_of_elements'
          BY <1>1, <1>2, <4>1
        <4>3. Stored'[i] = heap'[Back(k + 1)']
          BY <4>2, NextStored
        <4> QED BY <1>2, <1>3, <3>2, <4>1, <4>3
      <3> QED BY <3>1, <3>2
    <2> QED BY <1>1, <2>1, NextStored
  <1>5. Stored' = Append(Stored, element)
    <2>1. Append(Stored, element) =
             [i \in 1 .. n + 1 |-> IF i = n + 1 THEN element ELSE Stored[i]]
      BY <1>2, AppendIs
    <2> QED BY <1>4, <2>1
  <1> QED BY <1>1, <1>2, <1>5 DEF Store!Write, Store!Answer, Answer

LEMMA ReadIsRead ==
    ASSUME RamInv, NEW from \in Time, NEW to \in Time, NEW size \in Buffers,
           Read(from, to, size)
    PROVE  Store!Read(from, to) \/ Store!ReadRefused(from, to, size)
  <1> DEFINE n == number_of_elements
             start == Back(Min(StartAges(from)))
             end == Ahead(start, Min(EndSteps(to, start)))
             code == ReadCode(from, to, size)
  <1>1. /\ TypeOK /\ n \in Nat /\ Len(Stored) = n /\ from \in Nat /\ to \in Nat
        /\ \A i \in 1 .. n : /\ n - i \in Ages /\ Stored[i].time \in Nat
                             /\ Stored[i].time = Times(Back(n - i))
    BY StoredElements, AgeTimes, StorageAssumption DEF RamInv
  <1>2. /\ Store!Period(from, to) = {i \in 1 .. n : Stored[i].time \in from .. to}
    BY <1>1, PeriodIs
  <1>3. /\ UNCHANGED <<heap, handler>>
        /\ answer' = Answer("read", code,
                            IF code = 0 THEN ReadElements(from, to) ELSE << >>)
    BY DEF Read
  <1>4. UNCHANGED <<max_number_of_elements, Stored>>
    BY <1>3 DEF handler, Stored, Back
  <1>5. CASE StartAges(from) = {}
    <2>1. code = -1
      BY <1>5, ReadCodes
    <2>2. \A i \in 1 .. Len(Stored) : Stored[i].time < from
      BY <1>1, <1>5, StartMissing
    <2>3. answer' = Store!Answer("read", -1, << >>)
      BY <1>3, <2>1 DEF Store!Answer, Answer
    <2> QED BY <1>4, <2>2, <2>3 DEF Store!ReadRefused
  <1>6. CASE StartAges(from) # {} /\ EndSteps(to, start) = {}
    <2>1. code = -2
      BY <1>6, ReadCodes
    <2>2. PICK s \in Ages : /\ Min(StartAges(from)) = s
                            /\ \A k \in Ages : Times(Back(k)) >= from <=> k =< s
      BY <1>6, StartFound
    <2>3. Times(Back(s)) > to /\ Times(Back(s)) \in Nat
      BY <1>1, <1>6, <2>2, EndMissing, AgeTimes
    <2>4. ASSUME NEW i \in 1 .. n, Stored[i].time \in from .. to PROVE FALSE
      <3>1. n - i \in Ages /\ n - i =< s
        BY <1>1, <2>2, <2>4
      <3>2. Times(Back(s)) =< Stored[i].time
        BY <1>1, <2>2, <3>1, TimesInOrder
      <3> QED BY <1>1, <2>3, <2>4, <3>2
    <2>5. Store!Period(from, to) = {}
      BY <1>2, <2>4
    <2>6. answer' = Store!Answer("read", -2, << >>)
      BY <1>3, <2>1 DEF Store!Answer, Answer
    <2> QED BY <1>4, <2>5, <2>6 DEF Store!ReadRefused
  <1>7. CASE StartAges(from) # {} /\ EndSteps(to, start) # {}
    <2>1. PICK first \in 1 .. n, last \in 1 .. n :
             /\ first =< last
             /\ NumberBetween(start, end) = last - first + 1
             /\ ReadElements(from, to) = SubSeq(Stored, first, last)
             /\ \A i \in 1 .. n : Stored[i].time >= from <=> i >= first
             /\ Stored[last].time =< to
             /\ \A i \in 1 .. n : Stored[i].time =< to => i =< last + 3
      BY <1>7, ReadPositions
    <2>2. code = IF last - first + 1 > size THEN -3 ELSE 0
      BY <1>7, <2>1, ReadCodes
    <2>3. Stored[first].time =< Stored[last].time
      <3>1. n - last =< n - first
        BY <1>1, <2>1
      <3> QED BY <1>1, <3>1, TimesInOrder
    <2>4. /\ first \in Store!Period(from, to) /\ last \in Store!Period(from, to)
          /\ \A k \in Store!Period(from, to) : first =< k /\ k =< last + 3
      BY <1>1, <1>2, <2>1, <2>3
    <2>5. CASE code = 0
      <3>1. answer' = Store!Answer("read", 0, SubSeq(Stored, first, last))
        BY <1>3, <2>1, <2>5 DEF Store!Answer, Answer
      <3> QED BY <1>4, <2>1, <2>4, <3>1 DEF Store!Read
    <2>6. CASE code # 0
      <3>1. code = -3 /\ last - first + 1 > size
        BY <2>2, <2>6
      <3>2. answer' = Store!Answer("read", -3, << >>)
        BY <1>3, <3>1 DEF Store!Answer, Answer
      <3> QED BY <1>4, <2>4, <3>1, <3>2 DEF Store!ReadRefused
    <2> QED BY <2>5, <2>6
  <1> QED BY <1>5, <1>6, <1>7

LEMMA DeleteIsDelete ==
    ASSUME RamInv, NEW to \in Time, Delete(to)
    PROVE  Store!Delete(to)
  <1> DEFINE n == number_of_elements
             count == DeleteCount(to)
  <1>1. PICK newest \in Ages :
           /\ \A k \in Ages : Times(Back(k)) =< to <=> k >= newest
           /\ count \in {Oldest - newest, Oldest - newest + 1}
           /\ count \in 1 .. n
    BY DeleteRange DEF Delete
  <1>2. /\ TypeOK /\ n \in Nat /\ Len(Stored) = n /\ to \in Nat
        /\ Stored \in Seq(Element \cup {Null})
        /\ \A i \in 1 .. n : /\ n - i \in Ages /\ Stored[i].time \in Nat
                             /\ Stored[i] = heap[Back(n - i)]
                             /\ Stored[i].time = Times(Back(n - i))
    BY StoredElements, AgeTimes, StorageAssumption DEF RamInv
  <1>3. /\ number_of_elements' = n - count
        /\ \A k \in Ages' : Back(k)' = Back(k) /\ heap'[Back(k)] = heap[Back(k)]
    BY DeleteLeaves
  <1>4. Stored[count].time =< to
    <2>1. n - count >= newest /\ n - count \in Ages
      BY <1>1, <1>2 DEF Oldest, Ages
    <2> QED BY <1>1, <1>2, <2>1
  <1>5. /\ count \in Store!Period(0, to)
        /\ \A k \in Store!Period(0, to) : k =< count + 1
    <2>1. Store!Period(0, to) = {i \in 1 .. n : Stored[i].time \in 0 .. to}
      BY <1>2, PeriodIs
    <2>2. ASSUME NEW i \in 1 .. n, Stored[i].time =< to
          PROVE  i =< count + 1
      <3>1. n - i >= newest
        BY <1>1, <1>2, <2>2
      <3> QED BY <1>1, <1>2, <3>1 DEF Oldest, Ages
    <2>3. count \in 1 .. n /\ Stored[count].time \in 0 .. to
      BY <1>1, <1>2, <1>4
    <2> HIDE DEF count
    <2>4. \A i \in {j \in 1 .. n : Stored[j].time \in 0 .. to} : i =< count + 1
      BY <2>2
    <2> QED BY <2>1, <2>3, <2>4
  <1> HIDE DEF count
  <1>6. Stored' = [i \in 1 .. n - count |-> Stored[count + i]]
    <2>1. ASSUME NEW i \in 1 .. n - count
          PROVE  Stored'[i] = Stored[count + i]
      <3>1. /\ n - count - i = n - (count + i) /\ count + i \in 1 .. n
            /\ n - count - i \in 0 .. n - count - 1
        BY <1>1, <1>2
      <3>2. PICK k \in Ages' : k = n - (count + i) /\ k = number_of_elements' - i
        BY <1>3, <3>1 DEF Ages
      <3>3. Stored'[i] = heap'[Back(k)']
        BY <1>3, <3>2, NextStored
      <3> QED BY <1>2, <1>3, <3>1, <3>2, <3>3
    <2> QED BY <1>3, <2>1, NextStored
  <1>7. SubSeq(Stored, count + 1, n) = [i \in 1 .. n - count |-> Stored[count + i]]
    BY <1>1, <1>2, SubSeqFrom
  <1>8. answer' = Store!Answer("delete", 0, << >>)
        /\ max_number_of_elements' = max_number_of_elements
    BY DEF Delete, Store!Answer, Answer
  <1> QED BY <1>2, <1>5, <1>6, <1>7, <1>8 DEF Store!Delete

LEMMA AskTimesIsAskTimes ==
    ASSUME RamInv, AskTimes
    PROVE  Store!AskTimes \/ Store!AskTimesEmpty
  <1> DEFINE n == number_of_elements
             m == max_number_of_elements
  <1>1. /\ TypeOK /\ n \in Nat /\ Len(Stored) = n /\ m \in Nat /\ m > 0 /\ n =< m
        /\ \A i \in 1 .. n : /\ n - i \in Ages /\ Stored[i].time \in Nat
                             /\ Stored[i].time = Times(Back(n - i))
    BY StoredElements, AgeTimes, StorageAssumption DEF RamInv, AskTimes, TypeOK
  <1>2. UNCHANGED <<max_number_of_elements, Stored>>
    BY DEF AskTimes, handler, Stored, Back
  <1>3. \/ answer' = Store!Answer("oldest", OldestTime, << >>)
        \/ answer' = Store!Answer("newest", NewestTime, << >>)
    BY DEF AskTimes, Store!Answer, Answer
  <1>4. CASE n = 0
    <2>1. Ages \cup {0} = {0} /\ Stored = << >>
      BY <1>1, <1>4 DEF Ages, Stored
    <2>2. Back(0) \in 0 .. MaxElements - 1
      <3>1. 0 \in 0 .. m - 1
        BY <1>1
      <3>2. Back(0) \in 0 .. m - 1
        BY <1>1, <3>1, BackSlots
      <3> QED BY <1>1, <3>2, StorageAssumption DEF TypeOK
    <2>3. Times(Back(0)) \in Time /\ Times(Back(0)) \in Nat
      <3>1. heap[Back(0)] \in Element \cup {Null}
        BY <1>1, <2>2 DEF TypeOK
      <3>2. heap[Back(0)].time \in Time
        BY <3>1, StorageAssumption DEF Element, Null
      <3> QED BY <3>2, StorageAssumption DEF Times
    <2>4. OldestTime = Times(Back(0)) /\ NewestTime = Times(Back(0))
      <3>1. {Times(Back(k)) : k \in Ages \cup {0}} = {Times(Back(0))}
        BY <2>1
      <3>2. Min({Times(Back(0))}) = Times(Back(0))
        BY <2>3 DEF Min
      <3> QED BY <3>1, <3>2 DEF OldestTime, NewestTime
    <2> QED BY <1>2, <1>3, <2>1, <2>3, <2>4 DEF Store!AskTimesEmpty
  <1>5. CASE n # 0
    <2>1. /\ Ages \cup {0} = Ages /\ Oldest \in Ages /\ 0 \in Ages
          /\ Stored # << >> /\ 1 \in 1 .. n /\ n \in 1 .. n
          /\ n - 1 = Oldest /\ n - n = 0
      BY <1>1, <1>5 DEF Ages, Oldest
    <2>2. Stored[1].time = Times(Back(Oldest)) /\ Stored[Len(Stored)].time = Times(Back(0))
      BY <1>1, <2>1
    <2>3. \A k \in Ages : /\ Times(Back(k)) \in Nat
                          /\ Times(Back(Oldest)) =< Times(Back(k))
      <3> TAKE k \in Ages
      <3>1. k =< Oldest
        BY <1>1 DEF Ages, Oldest
      <3> QED BY <1>1, <2>1, <3>1, TimesInOrder, AgeTimes
    <2>4. OldestTime = Times(Back(Oldest))
      <3> DEFINE T == {Times(Back(k)) : k \in Ages}
      <3>1. OldestTime = Min(T)
        BY <2>1 DEF OldestTime
      <3>2. /\ Times(Back(Oldest)) \in T
            /\ \A t \in T : t \in Nat /\ Times(Back(Oldest)) =< t
        BY <2>1, <2>3
      <3> HIDE DEF T
      <3> QED BY <3>1, <3>2 DEF Min
    <2> QED BY <1>2, <1>3, <2>1, <2>2, <2>4 DEF Store!AskTimes, NewestTime
  <1> QED BY <1>4, <1>5

LEMMA StepIsStep == RamInv /\ [Next]_vars => [Store!Next]_(Store!storeVars)
  <1> SUFFICES ASSUME RamInv, [Next]_vars
               PROVE  Store!Next \/ UNCHANGED Store!storeVars
    OBVIOUS
  <1>1. ASSUME NEW len \in Capacities, InitMemory(len) PROVE Store!Next
    BY <1>1, InitMemoryIsReset DEF Store!Next
  <1>2. ASSUME NEW element \in Element, Write(element) PROVE Store!Next
    BY <1>2, WriteIsWrite DEF Store!Next
  <1>3. CASE WriteRefused
    <2>1. /\ Len(Stored) = max_number_of_elements
          /\ answer' = Store!Answer("write", 1, << >>)
      BY <1>3, StoredElements, StorageAssumption
         DEF WriteRefused, HasRoom, RamInv, TypeOK, Store!Answer, Answer
    <2>2. UNCHANGED <<max_number_of_elements, Stored>>
      BY <1>3 DEF WriteRefused, handler, Stored, Back
    <2> QED BY <2>1, <2>2 DEF Store!Next, Store!WriteRefused
  <1>4. ASSUME NEW from \in Time, NEW to \in Time, NEW size \in Buffers,
               Read(from, to, size)
        PROVE  Store!Next
    BY <1>4, ReadIsRead DEF Store!Next
  <1>5. ASSUME NEW to \in Time, Delete(to) PROVE Store!Next
    BY <1>5, DeleteIsDelete DEF Store!Next
  <1>6. ASSUME NEW to \in Time, DeleteRefused(to) PROVE Store!Next
    <2>1. /\ DeletableAges(to) = {} /\ UNCHANGED <<max_number_of_elements, Stored>>
          /\ answer' = Store!Answer("delete", -1, << >>)
      BY <1>6 DEF DeleteRefused, handler, Stored, Back, Store!Answer, Answer
    <2>2. Store!Period(0, to) = {}
      <3>1. Store!Period(0, to) =
               {i \in 1 .. number_of_elements : Stored[i].time \in 0 .. to}
        BY PeriodIs DEF RamInv
      <3>2. ASSUME NEW i \in 1 .. number_of_elements, Stored[i].time \in 0 .. to
            PROVE  FALSE
        <4>1. number_of_elements - i \in DeletableAges(to)
          BY <3>2, StoredElements DEF RamInv, DeletableAges
        <4> QED BY <2>1, <4>1
      <3> QED BY <3>1, <3>2
    <2>3. Store!DeleteRefused(to)
      BY <2>1, <2>2 DEF Store!DeleteRefused
    <2> QED BY <2>3 DEF Store!Next
  <1>7. CASE AskTimes
    BY <1>7, AskTimesIsAskTimes DEF Store!Next
  <1>8. CASE UNCHANGED vars
    BY <1>8 DEF vars, handler, Stored, Back, Store!storeVars
  <1> QED BY <1>1, <1>2, <1>3, <1>4, <1>5, <1>6, <1>7, <1>8 DEF Next

\* For every array, every length and all dates: each operation of the storage
\* is the operation of TimeStore, also where the code counts the elements of a
\* period wrong, which makes a read miss the last three elements of its period
\* and a deletion leave the last one, and never more.
THEOREM StorageImplements == Spec => ImplementsStore
  <1>1. Init => Store!Init
    <2> SUFFICES ASSUME Init PROVE Store!Init
      OBVIOUS
    <2>1. Stored = << >>
      BY DEF Init, Stored
    <2> QED BY <2>1 DEF Init, Store!Init, Store!Answer, Answer
  <1> QED BY InitialStorage, StorageStepKeeps, StepIsStep, <1>1, PTL
          DEF Spec, ImplementsStore, Store!Spec
==============================================================================
