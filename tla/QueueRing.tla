------------------------------ MODULE QueueRing ------------------------------
(***************************************************************************)
(* The message queue of queue/queue.c: a ring of length slots inside one   *)
(* statically allocated area.  A pointer of the code is represented by the *)
(* index of the slot it points to: head is 0 and tail (one past the last   *)
(* slot) is length.  The queue never holds part of a slot, since every     *)
(* copy and every advance is by item_size bytes.                           *)
(*                                                                         *)
(* The module has no specification of its own.  It gives the pieces of     *)
(* create_queue, queue_send, queue_receive and print_queue, which          *)
(* CommQueue runs as whole operations and CommandPath runs as the steps    *)
(* of two threads.                                                         *)
(***************************************************************************)
EXTENDS Integers, Sequences

CONSTANTS
    MaxQueueLength,  \* bytes of queue_memory_area: MAX_QUEUE_LENGTH, 100
    UintRange,       \* 2^32: sizes are unsigned int
    Blank            \* the content of a slot nobody wrote

ASSUME SizeAssumption ==
    /\ MaxQueueLength \in Nat \ {0}
    /\ UintRange \in Nat
    /\ MaxQueueLength =< UintRange

VARIABLES
    length,             \* slots in the ring, 0 until the queue is created
    item_size,          \* bytes in a slot
    write_to,           \* next slot queue_send fills
    read_from,          \* last slot queue_receive emptied
    waiting_messages,   \* number of items queued, as the code counts them
    area                \* content of the slots

ringVars == <<length, item_size, write_to, read_from, waiting_messages, area>>

\* Static storage: every field of the QUEUE structure starts at zero.
RingInit ==
    /\ length = 0
    /\ item_size = 0
    /\ write_to = 0
    /\ read_from = 0
    /\ waiting_messages = 0
    /\ area = [slot \in 0 .. length - 1 |-> Blank]
-----------------------------------------------------------------------------
(* create_queue *)

\* The product is computed in an unsigned int.
SizeInBytes(len, size) == (len * size) % UintRange

CreateCode(len, size) ==
    CASE length # 0                               -> 1
      [] length = 0 /\ len = 0                    -> -1
      [] length = 0 /\ len # 0
           /\ SizeInBytes(len, size) >= MaxQueueLength -> -2
      [] length = 0 /\ len # 0
           /\ SizeInBytes(len, size) = 0          -> -3
      [] OTHER                                    -> 0

\* Mutant: the reader starts on the first slot instead of the last.
CreateQueueReaderAtHead(len, size) ==
    IF CreateCode(len, size) = 0
    THEN /\ length' = len
         /\ item_size' = size
         /\ write_to' = 0
         /\ read_from' = 0
         /\ waiting_messages' = 0
         /\ area' = [slot \in 0 .. len - 1 |-> Blank]
    ELSE UNCHANGED ringVars

CreateQueue(len, size) ==
    IF CreateCode(len, size) = 0
    THEN /\ length' = len
         /\ item_size' = size
         /\ write_to' = 0
         /\ read_from' = len - 1
         /\ waiting_messages' = 0
         /\ area' = [slot \in 0 .. len - 1 |-> Blank]
    ELSE UNCHANGED ringVars
-----------------------------------------------------------------------------
(* The pieces of queue_send and queue_receive *)

\* Mutants: the pointer goes one slot too far, or skips the last slot.
AdvancePastTail(slot) == IF slot + 1 > length THEN 0 ELSE slot + 1
AdvanceBeforeTail(slot) == IF slot + 2 >= length THEN 0 ELSE slot + 1

\* A pointer moved by one slot goes back to head when it reaches tail.
Advance(slot) == IF slot + 1 >= length THEN 0 ELSE slot + 1

\* Mutant: a full queue takes one more item.
HasRoomWhenFull == waiting_messages =< length

HasRoom == waiting_messages < length

\* Mutants: an empty queue gives an item, or the last item stays in the queue.
HasItemWhenEmpty == waiting_messages >= 0
HasItemButLast == waiting_messages > 1

HasItem == waiting_messages > 0

\* Mutant: the write pointer moves before the slot is filled.
CopyAhead(item) ==
    /\ area' = [area EXCEPT ![Advance(write_to)] = item]
    /\ write_to' = Advance(write_to)

\* queue_send, up to the increment: fill the slot, move the write pointer.
CopyIn(item) ==
    /\ area' = [area EXCEPT ![write_to] = item]
    /\ write_to' = Advance(write_to)

\* Mutant: the item is read before the pointer moves.
ItemAtReader == area[read_from]

\* queue_receive, up to the decrement: move the read pointer, empty the slot.
NextItem == area[Advance(read_from)]

MoveReader == read_from' = Advance(read_from)
-----------------------------------------------------------------------------
(* print_queue walks the waiting items, oldest first.  The i-th of them is *)
(* i slots after read_from, back at head past the end of the ring.         *)

Nth(i) == IF read_from + i >= length
          THEN read_from + i - length
          ELSE read_from + i

Items(n) == [i \in 1 .. n |-> area[Nth(i)]]

PrintQueue == Items(waiting_messages)
-----------------------------------------------------------------------------
(* What holds of the pointers of a queue that was created: the write       *)
(* pointer is n + 1 slots after the read pointer when n items wait.        *)

RingAligned(n) ==
    LET ahead == read_from + 1 + n
    IN  \/ write_to = ahead
        \/ write_to = ahead - length
        \/ write_to = ahead - length - length
=============================================================================
