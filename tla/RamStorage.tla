----------------------------- MODULE RamStorage -----------------------------
(***************************************************************************)
(* The storage of dated elements of ram_storage/ram_storage.c: a ring of   *)
(* slots in a static array, searched by time from the newest element back  *)
(* to the oldest.  An address is the index of its slot; head is slot 0 and *)
(* tail the last slot in use.  The module is used by one caller at a time: *)
(* every operation is one action.                                          *)
(*                                                                         *)
(* Callers date the elements with a clock, as the tests do: an element is  *)
(* never older than the newest one stored.                                 *)
(***************************************************************************)
EXTENDS Integers, Sequences, FiniteSetsExt

CONSTANTS
    MaxElements,   \* RAM_STORAGE__C_MAX_ELEMENTS_TO_STORE: 5
    Capacities,    \* lengths callers ask for at initialization
    Time,          \* dates
    Data,          \* what an element carries besides its date
    NoData,        \* what a null element carries
    Buffers        \* sizes of the arrays callers read into

ASSUME StorageAssumption ==
    /\ MaxElements \in Nat \ {0}
    /\ Capacities \subseteq Nat \ {0}
    /\ Time \subseteq Nat /\ 0 \in Time
    /\ Buffers \subseteq Nat
    /\ NoData \notin Data

Element == [time : Time, data : Data]

Null == [time |-> 0, data |-> NoData]

VARIABLES
    heap,                     \* RAM_STORAGE_G_MEMORY_HEAP
    write_to,
    number_of_elements,
    max_number_of_elements,
    answer                    \* of the last operation

vars == <<heap, write_to, number_of_elements, max_number_of_elements, answer>>

handler == <<write_to, number_of_elements, max_number_of_elements>>

tail == max_number_of_elements - 1

Answer(op, code, elements) == [op |-> op, code |-> code, elements |-> elements]
-----------------------------------------------------------------------------
(* Browsing the ring *)

\* The slot k before the last written one, and the slot k after a given one.
Back(k) == (write_to - 1 - k) % max_number_of_elements
Ahead(slot, k) == (slot + k) % max_number_of_elements

Times(slot) == heap[slot].time

\* The k-th element back from the newest, for every k that counts.
Ages == 0 .. number_of_elements - 1
Oldest == number_of_elements - 1

\* Mutant: among elements of the same time, it stops at the newest one.
StartAgesNewest(time) ==
    {k \in Ages : /\ Times(Back(k)) >= time
                  /\ k = Oldest \/ Times(Back(k + 1)) =< time}

\* search_element_start_time: going back from the newest element, the first
\* that is not before the time while the one before it is, or is not stored.
StartAges(time) ==
    {k \in Ages : /\ Times(Back(k)) >= time
                  /\ k = Oldest \/ Times(Back(k + 1)) < time}

\* get_abs_distance_between_address, in elements, both ends included.  When
\* the period crosses the end of the ring, only an end of it that lies at the
\* end of the ring is counted.
Borders == {0, tail}

Distance(start, end) ==
    IF end >= start
    THEN end - start + 1
    ELSE (IF start \in Borders THEN 1 ELSE 0) + (IF end \in Borders THEN 1 ELSE 0)
           + (tail - start) + end

\* search_element_end_time: going forward from the start element, the last one
\* that is not after the time, within the distance to the newest element.
EndSteps(time, start) ==
    LET readable == Distance(start, Back(0))
        InPeriod(k) == Times(Ahead(start, k)) \in Times(start) .. time
    IN  {k \in 0 .. readable - 1 :
            /\ InPeriod(k)
            /\ k + 1 = readable \/ Times(Ahead(start, k + 1)) > time}

\* Mutant: the last element is not counted.
NumberBetweenExclusive(start, end) ==
    IF start > end
    THEN (IF start \in Borders \/ end \in Borders THEN 1 ELSE 0)
           + (tail - start) + end + 1
    ELSE end - start

\* get_number_of_elements_between_positions
NumberBetween(start, end) ==
    IF start > end
    THEN (IF start \in Borders \/ end \in Borders THEN 1 ELSE 0)
           + (tail - start) + end + 1
    ELSE end - start + 1
-----------------------------------------------------------------------------
Init ==
    /\ heap = [slot \in 0 .. MaxElements - 1 |-> Null]
    /\ write_to = 0
    /\ number_of_elements = 0
    /\ max_number_of_elements = 0
    /\ answer = Answer("none", 0, << >>)

\* RAM_STORAGE_init_ram_memory_storage: the memory is cleaned first, whatever
\* the length.
InitMemory(len) ==
    /\ heap' = [slot \in 0 .. MaxElements - 1 |-> Null]
    /\ IF len =< MaxElements
       THEN /\ write_to' = 0
            /\ number_of_elements' = 0
            /\ max_number_of_elements' = len
            /\ answer' = Answer("init", 0, << >>)
       ELSE /\ answer' = Answer("init", 1, << >>)
            /\ UNCHANGED handler

\* The caller's clock does not go back.
IsRecent(element) ==
    number_of_elements = 0 \/ Times(Back(0)) =< element.time

HasRoom == number_of_elements < max_number_of_elements

\* Mutant: the write pointer goes past the tail.
NextSlotPastTail(slot) == IF slot > tail THEN 0 ELSE slot + 1

NextSlot(slot) == IF slot + 1 > tail THEN 0 ELSE slot + 1

\* RAM_STORAGE_write_element
Write(element) ==
    /\ HasRoom
    /\ IsRecent(element)
    /\ heap' = [heap EXCEPT ![write_to] = element]
    /\ write_to' = NextSlot(write_to)
    /\ number_of_elements' = number_of_elements + 1
    /\ answer' = Answer("write", 0, << >>)
    /\ UNCHANGED max_number_of_elements

WriteRefused ==
    /\ ~HasRoom
    /\ answer' = Answer("write", 1, << >>)
    /\ UNCHANGED <<heap, handler>>

\* RAM_STORAGE_read_elements_between_two_dates
ReadCode(from, to, size) ==
    IF StartAges(from) = {} THEN -1
    ELSE LET start == Back(Min(StartAges(from)))
         IN  IF EndSteps(to, start) = {} THEN -2
             ELSE LET end == Ahead(start, Min(EndSteps(to, start)))
                  IN  IF NumberBetween(start, end) > size THEN -3 ELSE 0

ReadElements(from, to) ==
    LET start == Back(Min(StartAges(from)))
        end == Ahead(start, Min(EndSteps(to, start)))
    IN  [i \in 1 .. NumberBetween(start, end) |-> heap[Ahead(start, i - 1)]]

Read(from, to, size) ==
    /\ LET code == ReadCode(from, to, size)
       IN  answer' = Answer("read", code,
                            IF code = 0 THEN ReadElements(from, to) ELSE << >>)
    /\ UNCHANGED <<heap, handler>>

\* RAM_STORAGE_delete_up_to_time: the newest element to delete is the first
\* met going back from the newest, the oldest to delete the last one met.
DeletableAges(to) == {k \in Ages : Times(Back(k)) =< to}

\* Mutant: the search stops at the first element to delete.
LastDeletableNewest(to) == DeletableAges(to)

LastDeletable(to) ==
    {k \in DeletableAges(to) : k = Oldest \/ Times(Back(k + 1)) > to}

DeleteCount(to) ==
    NumberBetween(Back(Min(LastDeletable(to))), Back(Min(DeletableAges(to))))

Delete(to) ==
    /\ DeletableAges(to) # {}
    /\ LET start == Back(Min(LastDeletable(to)))
           erased == {Ahead(start, i) : i \in 0 .. DeleteCount(to) - 1}
       IN  heap' = [slot \in DOMAIN heap |->
                       IF slot \in erased THEN Null ELSE heap[slot]]
    /\ number_of_elements' = number_of_elements - DeleteCount(to)
    /\ answer' = Answer("delete", 0, << >>)
    /\ UNCHANGED <<write_to, max_number_of_elements>>

DeleteRefused(to) ==
    /\ DeletableAges(to) = {}
    /\ answer' = Answer("delete", -1, << >>)
    /\ UNCHANGED <<heap, handler>>

\* get_oldest_time and get_newest_time, asked of an initialized storage: the
\* last written slot is looked at even when nothing is stored.
OldestTime == Min({Times(Back(k)) : k \in Ages \cup {0}})

NewestTime == Times(Back(0))

AskTimes ==
    /\ max_number_of_elements > 0
    /\ \/ answer' = Answer("oldest", OldestTime, << >>)
       \/ answer' = Answer("newest", NewestTime, << >>)
    /\ UNCHANGED <<heap, handler>>

Next ==
    \/ \E len \in Capacities : InitMemory(len)
    \/ \E element \in Element : Write(element)
    \/ WriteRefused
    \/ \E from, to \in Time, size \in Buffers : Read(from, to, size)
    \/ \E to \in Time : Delete(to)
    \/ \E to \in Time : DeleteRefused(to)
    \/ AskTimes

Spec == Init /\ [][Next]_vars
-----------------------------------------------------------------------------
\* The elements the handler counts, oldest first.
Stored == [i \in 1 .. number_of_elements |-> heap[Back(number_of_elements - i)]]

\* The handler stays inside the array.
TypeOK ==
    /\ heap \in [0 .. MaxElements - 1 -> Element \cup {Null}]
    /\ max_number_of_elements \in 0 .. MaxElements
    /\ number_of_elements \in 0 .. max_number_of_elements
    /\ write_to \in 0 .. (IF max_number_of_elements = 0 THEN 0 ELSE tail)

\* Deletions and wraps keep the stored elements in the order of their times,
\* which the searches by time rely on.
StoredInOrder ==
    \A i \in 1 .. number_of_elements - 1 : Stored[i].time =< Stored[i + 1].time

\* The storage implements TimeStore (ram_storage.c:277-773).  When the end of
\* the ring lies inside the period, Distance may miss two slots and
\* NumberBetween one: a read misses three elements at most, a deletion one.
Store == INSTANCE TimeStore
           WITH capacity <- max_number_of_elements, stored <- Stored,
                Element <- Element \cup {Null},
                Capacities <- {len \in Capacities : len =< MaxElements},
                ReadSlack <- 3, DeleteSlack <- 1

ImplementsStore == Store!Spec

\* The stored elements occupy consecutive slots, without the end of the ring
\* between two of them.
Straight == number_of_elements > 0 => Back(Oldest) =< Back(0)

\* Without the end of the ring in between, a read answers with the whole
\* period, however long, even when several elements have the same time.
ReadsWholePeriodWhenStraight ==
    Straight =>
        \A from, to \in Time, size \in Buffers :
            ReadCode(from, to, size) = 0 =>
                \E first, last \in 1 .. number_of_elements :
                    /\ ReadElements(from, to) = SubSeq(Stored, first, last)
                    /\ \A i \in 1 .. number_of_elements :
                          Stored[i].time \in from .. to <=> i \in first .. last

\* Nothing stored after the step is dated up to the time.
LeavesNoneUpTo(to) == \A i \in 1 .. number_of_elements' : Stored'[i].time > to

\* Without the end of the ring in between, a deletion leaves nothing of the
\* period.
DeletesWholePeriodWhenStraight ==
    [][Straight => \A to \in Time : Delete(to) => LeavesNoneUpTo(to)]_vars
-----------------------------------------------------------------------------
(* What a comment of the code says, and does not hold *)

\* ram_storage.c:615: delete_up_to_time searches the elements whose time is
\* less than or equal to the time.  A deletion leaves none of them.
DeletesWholePeriod ==
    [][\A to \in Time : Delete(to) => LeavesNoneUpTo(to)]_vars
=============================================================================
