----------------------------- MODULE BoundedFifo -----------------------------
(***************************************************************************)
(* What the queue promises its users: a first-in first-out buffer of fixed *)
(* capacity whose operations answer with a code and, for a receive, with   *)
(* the oldest item.                                                        *)
(***************************************************************************)
EXTENDS Integers, Sequences

CONSTANTS
    Item,
    Lengths,   \* capacities a caller may ask for
    Nothing    \* the item part of an answer that carries none

VARIABLES capacity, fifo, answer

fifoVars == <<capacity, fifo, answer>>

Answer(op, code, item) == [op |-> op, code |-> code, item |-> item]

Init ==
    /\ capacity = 0
    /\ fifo = << >>
    /\ answer = Answer("none", 0, Nothing)

\* A queue is created once and keeps its capacity.
Create(len) ==
    /\ capacity = 0
    /\ len > 0
    /\ capacity' = len
    /\ answer' = Answer("create", 0, Nothing)
    /\ UNCHANGED fifo

CreateRefused ==
    /\ \E code \in {1, -1, -2, -3} : answer' = Answer("create", code, Nothing)
    /\ UNCHANGED <<capacity, fifo>>

Send(item) ==
    /\ Len(fifo) < capacity
    /\ fifo' = Append(fifo, item)
    /\ answer' = Answer("send", 0, Nothing)
    /\ UNCHANGED capacity

SendRefused ==
    /\ Len(fifo) >= capacity
    /\ answer' = Answer("send", -1, Nothing)
    /\ UNCHANGED <<capacity, fifo>>

Receive ==
    /\ fifo # << >>
    /\ answer' = Answer("receive", 0, Head(fifo))
    /\ fifo' = Tail(fifo)
    /\ UNCHANGED capacity

ReceiveRefused ==
    /\ fifo = << >>
    /\ answer' = Answer("receive", -1, Nothing)
    /\ UNCHANGED <<capacity, fifo>>

Next ==
    \/ \E len \in Lengths : Create(len)
    \/ CreateRefused
    \/ \E item \in Item : Send(item)
    \/ SendRefused
    \/ Receive
    \/ ReceiveRefused

Spec == Init /\ [][Next]_fifoVars
=============================================================================
