------------------------------ MODULE CommQueue ------------------------------
(***************************************************************************)
(* The queue of queue/queue.c used by one thread at a time: each operation *)
(* runs to its end before the next starts.  The specification implements   *)
(* BoundedFifo, the queue's contents being what print_queue would print.   *)
(* CommandPath has the two threads of the program inside the operations.   *)
(***************************************************************************)
EXTENDS QueueRing

CONSTANTS
    Item,      \* what a slot can hold
    Lengths,   \* lengths callers pass to create_queue
    Sizes      \* item sizes callers pass to create_queue

VARIABLE answer   \* operation, return code and item of the last call

vars == <<length, item_size, write_to, read_from, waiting_messages, area,
          answer>>

\* Callers never make the product wrap: main and the state manager pass
\* 3 and 3, the tests 5 and at most 4.
ASSUME CallerAssumption ==
    /\ Lengths \subseteq Nat
    /\ Sizes \subseteq Nat
    /\ \A len \in Lengths, size \in Sizes : len * size < UintRange
    /\ Blank \notin Item

Answer(op, code, item) == [op |-> op, code |-> code, item |-> item]

Init == RingInit /\ answer = Answer("none", 0, Blank)

Create(len, size) ==
    /\ CreateQueue(len, size)
    /\ answer' = Answer("create", CreateCode(len, size), Blank)

Send(item) ==
    /\ HasRoom
    /\ CopyIn(item)
    /\ waiting_messages' = waiting_messages + 1
    /\ answer' = Answer("send", 0, Blank)
    /\ UNCHANGED <<length, item_size, read_from>>

SendRefused ==
    /\ ~HasRoom
    /\ answer' = Answer("send", -1, Blank)
    /\ UNCHANGED ringVars

Receive ==
    /\ HasItem
    /\ answer' = Answer("receive", 0, NextItem)
    /\ MoveReader
    /\ waiting_messages' = waiting_messages - 1
    /\ UNCHANGED <<length, item_size, write_to, area>>

ReceiveRefused ==
    /\ ~HasItem
    /\ answer' = Answer("receive", -1, Blank)
    /\ UNCHANGED ringVars

Next ==
    \/ \E len \in Lengths, size \in Sizes : Create(len, size)
    \/ \E item \in Item : Send(item)
    \/ SendRefused
    \/ Receive
    \/ ReceiveRefused

Spec == Init /\ [][Next]_vars
-----------------------------------------------------------------------------
\* Every field of the structure keeps its range: in particular both pointers
\* stay inside the area of a created queue, and the count inside 0 .. length
\* (queue.h:13-27).
TypeOK ==
    /\ length \in Nat
    /\ item_size \in Nat
    /\ length * item_size < MaxQueueLength
    /\ waiting_messages \in 0 .. length
    /\ length = 0 => write_to = 0 /\ read_from = 0
    /\ length > 0 => write_to \in 0 .. length - 1
                     /\ read_from \in 0 .. length - 1
    /\ area \in [0 .. length - 1 -> Item \cup {Blank}]

\* The count and the two pointers, which queue_send and queue_receive update
\* separately, always tell the same number of waiting items, and each waiting
\* slot was filled by a send.
RingInv ==
    length > 0 => /\ RingAligned(waiting_messages)
                  /\ \A i \in 1 .. waiting_messages : area[Nth(i)] \in Item

\* The queue of the code implements the bounded FIFO, its content being what
\* print_queue shows (queue.c:224-247).  A queue created for n items takes n:
\* the self tests, which send one more and assert that it is taken (queue.c:29-32,
\* 62-65 and 95-98), are not followed by the code.
Fifo == INSTANCE BoundedFifo
          WITH capacity <- length, fifo <- PrintQueue, Nothing <- Blank

ImplementsFifo == Fifo!Spec
=============================================================================
