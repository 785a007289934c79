----------------------------- MODULE SharedFifo -----------------------------
(***************************************************************************)
(* What a queue without a lock promises a sender and a receiver that use   *)
(* it at the same time: every operation takes effect at one moment, and    *)
(* they are the operations of a first-in first-out buffer.  The promise    *)
(* ends with the first update of the count that is lost.  From then on the *)
(* order, the items and even their number are open, but never more than    *)
(* the capacity.                                                           *)
(***************************************************************************)
EXTENDS Integers, Sequences

CONSTANTS
    Item,
    Capacity

VARIABLES
    capacity,   \* 0 until the queue is created
    fifo,       \* items sent and not received, oldest first
    inbox,      \* the item received and not yet handled, if any
    broken      \* an update was lost

fifoVars == <<capacity, fifo, inbox, broken>>

Init ==
    /\ capacity = 0
    /\ fifo = << >>
    /\ inbox = << >>
    /\ broken = FALSE

Create ==
    /\ capacity = 0
    /\ capacity' = Capacity
    /\ UNCHANGED <<fifo, inbox, broken>>

Send(item) ==
    /\ ~broken
    /\ Len(fifo) < capacity
    /\ fifo' = Append(fifo, item)
    /\ UNCHANGED <<capacity, inbox, broken>>

Receive ==
    /\ ~broken
    /\ inbox = << >>
    /\ fifo # << >>
    /\ inbox' = <<Head(fifo)>>
    /\ fifo' = Tail(fifo)
    /\ UNCHANGED <<capacity, broken>>

\* What the receiver does with an item is its own business.
Handle ==
    /\ inbox # << >>
    /\ inbox' = << >>
    /\ UNCHANGED <<capacity, fifo, broken>>

LoseCount ==
    /\ capacity > 0
    /\ broken' = TRUE
    /\ Len(fifo') =< capacity
    /\ UNCHANGED capacity

Next ==
    \/ Create
    \/ \E item \in Item : Send(item)
    \/ Receive
    \/ Handle
    \/ LoseCount

Spec == Init /\ [][Next]_fifoVars
=============================================================================
