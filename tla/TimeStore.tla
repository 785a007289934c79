------------------------------ MODULE TimeStore ------------------------------
(***************************************************************************)
(* What a storage of dated elements promises, when elements arrive in the  *)
(* order of their times: it keeps them in that order up to its capacity,   *)
(* a read answers with consecutive elements of the asked period, from the  *)
(* first of them on, and a deletion takes elements from the oldest side,   *)
(* none of them newer than the asked time.  Either may stop before the end *)
(* of the period, by a number of elements that is bounded once for all.    *)
(***************************************************************************)
EXTENDS Integers, Sequences

CONSTANTS
    Element,     \* records with a time
    Null,        \* the element of an empty slot, dated 0
    Time,
    Capacities,
    Buffers,     \* sizes of the readers' arrays
    ReadSlack,   \* how many of the newest of a period a read may miss
    DeleteSlack  \* how many of the newest of a period a deletion may leave

VARIABLES capacity, stored, answer

storeVars == <<capacity, stored, answer>>

Answer(op, code, elements) == [op |-> op, code |-> code, elements |-> elements]

\* Positions of the stored elements of a period.
Period(from, to) == {i \in 1 .. Len(stored) : stored[i].time \in from .. to}

Init ==
    /\ capacity = 0
    /\ stored = << >>
    /\ answer = Answer("none", 0, << >>)

Reset ==
    /\ capacity' \in Capacities
    /\ stored' = << >>
    /\ answer' = Answer("init", 0, << >>)

\* A refused initialization has emptied the memory all the same: the elements
\* are still counted, and are null.
ResetRefused ==
    /\ stored' = [i \in 1 .. Len(stored) |-> Null]
    /\ answer' = Answer("init", 1, << >>)
    /\ UNCHANGED capacity

Write(element) ==
    /\ Len(stored) < capacity
    /\ stored' = Append(stored, element)
    /\ answer' = Answer("write", 0, << >>)
    /\ UNCHANGED capacity

WriteRefused ==
    /\ Len(stored) = capacity
    /\ answer' = Answer("write", 1, << >>)
    /\ UNCHANGED <<capacity, stored>>

Read(from, to) ==
    /\ \E i \in Period(from, to) : \E j \in Period(from, to) :
          /\ \A k \in Period(from, to) : i =< k
          /\ i =< j
          /\ \A k \in Period(from, to) : k =< j + ReadSlack
          /\ answer' = Answer("read", 0, SubSeq(stored, i, j))
    /\ UNCHANGED <<capacity, stored>>

ReadRefused(from, to, size) ==
    /\ \/ /\ \A i \in 1 .. Len(stored) : stored[i].time < from
          /\ answer' = Answer("read", -1, << >>)
       \/ /\ Period(from, to) = {}
          /\ answer' = Answer("read", -2, << >>)
       \/ /\ \E i, j \in Period(from, to) : j - i + 1 > size
          /\ answer' = Answer("read", -3, << >>)
    /\ UNCHANGED <<capacity, stored>>

Delete(to) ==
    /\ \E j \in Period(0, to) :
          /\ \A k \in Period(0, to) : k =< j + DeleteSlack
          /\ stored' = SubSeq(stored, j + 1, Len(stored))
    /\ answer' = Answer("delete", 0, << >>)
    /\ UNCHANGED capacity

DeleteRefused(to) ==
    /\ Period(0, to) = {}
    /\ answer' = Answer("delete", -1, << >>)
    /\ UNCHANGED <<capacity, stored>>

\* The times of the oldest and of the newest element.
AskTimes ==
    /\ stored # << >>
    /\ \/ answer' = Answer("oldest", stored[1].time, << >>)
       \/ answer' = Answer("newest", stored[Len(stored)].time, << >>)
    /\ UNCHANGED <<capacity, stored>>

\* An empty store has no time to tell: the answer is any.
AskTimesEmpty ==
    /\ stored = << >>
    /\ \E op \in {"oldest", "newest"}, time \in Time :
          answer' = Answer(op, time, << >>)
    /\ UNCHANGED <<capacity, stored>>

Next ==
    \/ Reset
    \/ ResetRefused
    \/ \E element \in Element : Write(element)
    \/ WriteRefused
    \/ \E from, to \in Time : Read(from, to)
    \/ \E from, to \in Time, size \in Buffers : ReadRefused(from, to, size)
    \/ \E to \in Time : Delete(to) \/ DeleteRefused(to)
    \/ AskTimes
    \/ AskTimesEmpty

Spec == Init /\ [][Next]_storeVars
=============================================================================
