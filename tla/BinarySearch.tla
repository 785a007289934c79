---------------------------- MODULE BinarySearch ----------------------------
(***************************************************************************)
(* BIN_SEARCH_search of binary_search/binary_search.c, the search that     *)
(* main.c runs: an item is looked for in an array whose elements are in    *)
(* increasing order for the caller's comparator, here compare_UINT32.      *)
(* Addresses are indices, counted from 0 as in the code.                   *)
(***************************************************************************)
EXTENDS Integers

CONSTANTS
    Value,      \* what elements and items are compared by
    Size        \* the largest array

ASSUME SearchAssumption == Value \subseteq Int /\ Size \in Nat

\* What the search answers when the item is not there.
NULL == -1

Sorted(array, array_size) ==
    \A i, j \in 0 .. array_size - 1 : i =< j => array[i] =< array[j]

Indices == 0 .. Size - 1

VARIABLES
    search_item, array, array_size,    \* the arguments
    low_index, high_index,
    return_address,
    pc                                 \* "search" or "returned"

arguments == <<search_item, array, array_size>>
vars == <<search_item, array, array_size, low_index, high_index,
          return_address, pc>>

compare_UINT32(a, b) == IF a > b THEN 1 ELSE IF a < b THEN -1 ELSE 0

\* The index in the middle does not overflow: it is counted from the low one.
Middle(low, high) == low + ((high - low) \div 2)

\* Mutant: the last element is left out.
InitWithoutLast ==
    /\ search_item \in Value
    /\ array_size \in 0 .. Size
    /\ array \in [Indices -> Value]
    /\ Sorted(array, array_size)
    /\ low_index = 0
    /\ high_index = IF array_size = 0 THEN 0 ELSE array_size - 1
    /\ return_address = NULL
    /\ pc = "search"

Init ==
    /\ search_item \in Value
    /\ array_size \in 0 .. Size
    /\ array \in [Indices -> Value]
    /\ Sorted(array, array_size)
    /\ low_index = 0
    /\ high_index = array_size
    /\ return_address = NULL
    /\ pc = "search"

Searching == high_index > low_index /\ return_address = NULL

\* Mutant: the high bound is taken for the last index that is left.
LowerHalfInclusive(mid_index) ==
    high_index' = mid_index - 1 /\ UNCHANGED <<low_index, return_address>>

LowerHalf(mid_index) ==
    high_index' = mid_index /\ UNCHANGED <<low_index, return_address>>

\* Mutant: the middle stays among what is left.
UpperHalfWithMiddle(mid_index) ==
    low_index' = mid_index /\ UNCHANGED <<high_index, return_address>>

UpperHalf(mid_index) ==
    low_index' = mid_index + 1 /\ UNCHANGED <<high_index, return_address>>

\* One turn of the loop: the comparison decides which half is left.
Halve ==
    /\ pc = "search"
    /\ Searching
    /\ LET mid_index == Middle(low_index, high_index)
           comparison_result == compare_UINT32(search_item, array[mid_index])
       IN  \/ comparison_result < 0 /\ LowerHalf(mid_index)
           \/ comparison_result > 0 /\ UpperHalf(mid_index)
           \/ /\ comparison_result = 0
              /\ return_address' = mid_index
              /\ UNCHANGED <<low_index, high_index>>
    /\ UNCHANGED <<arguments, pc>>

Return ==
    /\ pc = "search"
    /\ ~Searching
    /\ pc' = "returned"
    /\ UNCHANGED <<arguments, low_index, high_index, return_address>>

Done == pc = "returned" /\ UNCHANGED vars

Next == Halve \/ Return \/ Done

Spec == Init /\ [][Next]_vars

\* The search is a loop of one thread that waits for nothing.
FairSpec == Spec /\ WF_vars(Halve \/ Return)
-----------------------------------------------------------------------------
\* The bounds stay in the array: every element compared is one of it.
TypeOK ==
    /\ search_item \in Value
    /\ array_size \in 0 .. Size
    /\ array \in [Indices -> Value]
    /\ low_index \in 0 .. array_size
    /\ high_index \in 0 .. array_size
    /\ return_address \in 0 .. array_size - 1 \cup {NULL}
    /\ pc \in {"search", "returned"}

Contains(item) == \E i \in 0 .. array_size - 1 : array[i] = item

\* The answer is right: NULL exactly when no element equals the item, and
\* otherwise the address of an element that does, even among equal ones.
AnswersRight ==
    pc = "returned" =>
        IF return_address = NULL THEN ~Contains(search_item)
        ELSE array[return_address] = search_item

\* Every comparison that does not end the search leaves at most half of the
\* elements, and none of those that were left out comes back.
HalvesWhatIsLeft ==
    [][return_address' = NULL /\ Halve =>
          /\ low_index =< low_index' /\ high_index' =< high_index
          /\ 2 * (high_index' - low_index') =< high_index - low_index]_vars

\* The search returns.
Returns == <>(pc = "returned")
=============================================================================
