------------------------- MODULE BinarySearchProofs -------------------------
(***************************************************************************)
(* Proofs about BinarySearch, for every set of integers and every size of  *)
(* array.  The bounds split the array in three: what lies under the low    *)
(* one is smaller than the item, what lies from the high one on is         *)
(* greater, because the array is in increasing order.  When nothing is     *)
(* left between them, the item is nowhere.                                 *)
(***************************************************************************)
EXTENDS BinarySearch, TLAPS

LeftOut ==
    /\ \A i \in 0 .. low_index - 1 : array[i] < search_item
    /\ \A i \in high_index .. array_size - 1 : array[i] > search_item

FoundIsThere == return_address # NULL => array[return_address] = search_item

SearchInv ==
    /\ TypeOK
    /\ Sorted(array, array_size)
    /\ LeftOut
    /\ FoundIsThere
    /\ pc = "returned" => ~Searching

\* The middle of what is left is one of its elements, and neither of its sides
\* is larger than half of it.
LEMMA MiddleInside ==
    ASSUME NEW low \in Nat, NEW high \in Nat, low < high
    PROVE  /\ Middle(low, high) \in low .. high - 1
           /\ 2 * (Middle(low, high) - low) =< high - low
           /\ 2 * (high - (Middle(low, high) + 1)) =< high - low
BY SMT DEF Middle

LEMMA InitSearchInv == Init => SearchInv
BY SearchAssumption
   DEF Init, SearchInv, TypeOK, LeftOut, FoundIsThere, NULL, Indices

\* What is at or under the middle is smaller than the item, or what is at or
\* over it greater, when the middle is.
LEMMA NextSearchInv == SearchInv /\ [Next]_vars => SearchInv'
<1> SUFFICES ASSUME SearchInv, [Next]_vars PROVE SearchInv'
  OBVIOUS
<1> USE SearchAssumption
<1> DEFINE mid == Middle(low_index, high_index)
<1>1. CASE Halve
  <2>1. /\ low_index \in Nat /\ high_index \in Nat /\ low_index < high_index
        /\ array_size \in Nat /\ array_size =< Size
        /\ high_index =< array_size
    BY <1>1 DEF Halve, Searching, SearchInv, TypeOK
  <2>2. mid \in low_index .. high_index - 1
    BY <2>1, MiddleInside
  <2>3. mid \in Nat /\ mid \in 0 .. array_size - 1
    BY <2>1, <2>2
  <2> HIDE DEF mid
  <2>4. \A i \in 0 .. array_size - 1 : array[i] \in Int
    <3> TAKE i \in 0 .. array_size - 1
    <3>1. array \in [Indices -> Value] /\ i \in Indices
      BY <2>1 DEF SearchInv, TypeOK, Indices
    <3>2. array[i] \in Value
      BY <3>1
    <3> QED
      BY <3>2
  <2>5. array[mid] \in Int /\ search_item \in Int
    BY <2>3, <2>4 DEF SearchInv, TypeOK
  <2>6. /\ \A i \in 0 .. mid : array[i] =< array[mid]
        /\ \A i \in mid .. array_size - 1 : array[mid] =< array[i]
    BY <2>1, <2>3 DEF SearchInv, Sorted
  <2>7. CASE /\ search_item < array[mid]
             /\ high_index' = mid
             /\ UNCHANGED <<low_index, return_address>>
    <3>1. TypeOK'
      BY <1>1, <2>1, <2>3, <2>7 DEF Halve, arguments, SearchInv, TypeOK
    <3>2. LeftOut'
      BY <1>1, <2>1, <2>3, <2>4, <2>5, <2>6, <2>7
         DEF Halve, arguments, SearchInv, LeftOut
    <3> QED
      BY <1>1, <2>7, <3>1, <3>2
         DEF Halve, Searching, arguments, SearchInv, FoundIsThere, Sorted
  <2>8. CASE /\ search_item > array[mid]
             /\ low_index' = mid + 1
             /\ UNCHANGED <<high_index, return_address>>
    <3>1. TypeOK'
      BY <1>1, <2>1, <2>2, <2>3, <2>8 DEF Halve, arguments, SearchInv, TypeOK
    <3>2. LeftOut'
      BY <1>1, <2>1, <2>3, <2>4, <2>5, <2>6, <2>8
         DEF Halve, arguments, SearchInv, LeftOut
    <3> QED
      BY <1>1, <2>8, <3>1, <3>2
         DEF Halve, Searching, arguments, SearchInv, FoundIsThere, Sorted
  <2>9. CASE /\ search_item = array[mid]
             /\ return_address' = mid
             /\ UNCHANGED <<low_index, high_index>>
    BY <1>1, <2>1, <2>3, <2>9
       DEF Halve, Searching, arguments, SearchInv, TypeOK, LeftOut, FoundIsThere,
           Sorted
  <2> QED
    BY <1>1, <2>5, <2>7, <2>8, <2>9 DEF Halve, LowerHalf, UpperHalf, compare_UINT32, mid
<1>2. CASE Return
  BY <1>2
     DEF Return, Searching, arguments, SearchInv, TypeOK, LeftOut, FoundIsThere,
         Sorted
<1>3. CASE Done \/ UNCHANGED vars
  BY <1>3
     DEF Done, vars, Searching, SearchInv, TypeOK, LeftOut, FoundIsThere, Sorted
<1> QED
  BY <1>1, <1>2, <1>3 DEF Next

LEMMA SearchInvCorrect == Spec => []SearchInv
<1> QED
  BY InitSearchInv, NextSearchInv, PTL DEF Spec

\* The search only looks at elements of the array (binary_search.c:36-37).
THEOREM TypeCorrect == Spec => []TypeOK
<1>1. SearchInv => TypeOK
  BY DEF SearchInv
<1> QED
  BY <1>1, SearchInvCorrect, PTL

\* What the search returns is right for every array in increasing order: when
\* the bounds meet, every element is on one side or the other of the item.
THEOREM AnswersCorrect == Spec => []AnswersRight
<1>1. SearchInv => AnswersRight
  <2> SUFFICES ASSUME SearchInv, pc = "returned"
               PROVE  IF return_address = NULL THEN ~Contains(search_item)
                      ELSE array[return_address] = search_item
    BY DEF AnswersRight
  <2>1. CASE return_address = NULL
    <3> SUFFICES ASSUME NEW i \in 0 .. array_size - 1, array[i] = search_item
                 PROVE  FALSE
      BY <2>1 DEF Contains
    <3>1. /\ low_index \in Nat /\ high_index \in Nat /\ array_size \in Nat
          /\ high_index =< low_index /\ i \in Indices
      BY <2>1, SearchAssumption DEF SearchInv, TypeOK, Searching, Indices
    <3>2. i \in 0 .. low_index - 1 \/ i \in high_index .. array_size - 1
      BY <3>1
    <3>3. array[i] < search_item \/ array[i] > search_item
      BY <3>2 DEF SearchInv, LeftOut
    <3>4. array[i] \in Int
      BY <3>1, SearchAssumption DEF SearchInv, TypeOK
    <3> QED
      BY <3>3, <3>4
  <2>2. CASE return_address # NULL
    BY <2>2 DEF SearchInv, FoundIsThere
  <2> QED
    BY <2>1, <2>2
<1> QED
  BY <1>1, SearchInvCorrect, PTL

\* Every turn of the loop leaves at most half of the elements, so that a search
\* takes at most as many turns as the size has binary digits.
THEOREM HalvesCorrect == Spec => HalvesWhatIsLeft
<1>1. SearchInv /\ [Next]_vars =>
        [return_address' = NULL /\ Halve =>
          /\ low_index =< low_index' /\ high_index' =< high_index
          /\ 2 * (high_index' - low_index') =< high_index - low_index]_vars
  <2> SUFFICES ASSUME SearchInv, Halve, return_address' = NULL
               PROVE  /\ low_index =< low_index' /\ high_index' =< high_index
                      /\ 2 * (high_index' - low_index') =< high_index - low_index
    OBVIOUS
  <2> DEFINE mid == Middle(low_index, high_index)
  <2>1. low_index \in Nat /\ high_index \in Nat /\ low_index < high_index
    BY SearchAssumption DEF Halve, Searching, SearchInv, TypeOK
  <2>2. /\ mid \in low_index .. high_index - 1
        /\ 2 * (mid - low_index) =< high_index - low_index
        /\ 2 * (high_index - (mid + 1)) =< high_index - low_index
    BY <2>1, MiddleInside
  <2> HIDE DEF mid
  <2>3. mid # NULL
    BY <2>1, <2>2 DEF NULL
  <2>4. \/ high_index' = mid /\ low_index' = low_index
        \/ low_index' = mid + 1 /\ high_index' = high_index
    BY <2>3 DEF Halve, LowerHalf, UpperHalf, mid
  <2> QED
    BY <2>1, <2>2, <2>4
<1> QED
  BY <1>1, SearchInvCorrect, PTL DEF Spec, HalvesWhatIsLeft
=============================================================================
