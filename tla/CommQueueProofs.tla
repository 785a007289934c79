--------------------------- MODULE CommQueueProofs ---------------------------
(***************************************************************************)
(* Proofs about the queue of queue/queue.c, for every item set, every area *)
(* size and every length and item size a caller may pass: the fields keep  *)
(* their ranges, the pointers and the count agree, and the code implements *)
(* a bounded FIFO.                                                         *)
(***************************************************************************)
EXTENDS CommQueue, SequenceFacts, TLAPS

LEMMA ProductNat ==
    ASSUME NEW a \in Nat, NEW b \in Nat
    PROVE  a * b \in Nat
  BY SMT

\* What a successful create_queue has checked.
LEMMA CreateChecks ==
    ASSUME NEW len \in Lengths, NEW size \in Sizes, CreateCode(len, size) = 0
    PROVE  /\ len \in Nat /\ len > 0
           /\ size \in Nat
           /\ length = 0
           /\ len * size < MaxQueueLength
  <1>1. len \in Nat /\ size \in Nat /\ len * size < UintRange
    BY CallerAssumption
  <1>2. len * size \in Nat
    BY <1>1, ProductNat
  <1>3. SizeInBytes(len, size) = len * size
    BY <1>1, <1>2, SmallModulus, SizeAssumption DEF SizeInBytes
  <1>4. length = 0 /\ len # 0 /\ ~(SizeInBytes(len, size) >= MaxQueueLength)
    BY DEF CreateCode
  <1> QED
    BY <1>1, <1>2, <1>3, <1>4, SizeAssumption

LEMMA InitialState == Init => TypeOK /\ RingInv
  BY SizeAssumption DEF Init, RingInit, TypeOK, RingInv

\* One step per operation: the fields keep their ranges and stay aligned.
LEMMA StepKeeps == TypeOK /\ RingInv /\ [Next]_vars => TypeOK' /\ RingInv'
  <1> SUFFICES ASSUME TypeOK, RingInv, [Next]_vars
               PROVE  TypeOK' /\ RingInv'
    OBVIOUS
  <1>1. ASSUME NEW len \in Lengths, NEW size \in Sizes, Create(len, size)
        PROVE  TypeOK' /\ RingInv'
    <2>1. CASE CreateCode(len, size) = 0
      <3>1. /\ len \in Nat /\ len > 0 /\ size \in Nat
            /\ len * size < MaxQueueLength
        BY <2>1, CreateChecks
      <3>2. TypeOK'
        BY <1>1, <2>1, <3>1 DEF Create, CreateQueue, TypeOK
      <3>3. RingInv'
        BY <1>1, <2>1, <3>1 DEF Create, CreateQueue, RingInv, RingAligned, Nth
      <3> QED BY <3>2, <3>3
    <2>2. CASE CreateCode(len, size) # 0
      BY <1>1, <2>2
         DEF Create, CreateQueue, ringVars, TypeOK, RingInv, RingAligned, Nth
    <2> QED BY <2>1, <2>2
  <1>2. ASSUME NEW item \in Item, Send(item)
        PROVE  TypeOK' /\ RingInv'
    <2>1. TypeOK'
      BY <1>2 DEF Send, CopyIn, HasRoom, Advance, TypeOK
    <2>2. RingAligned(waiting_messages)'
      <3>1. /\ length \in Nat /\ length > 0 /\ waiting_messages \in 0 .. length - 1
            /\ write_to \in 0 .. length - 1 /\ read_from \in 0 .. length - 1
            /\ RingAligned(waiting_messages)
        BY <1>2 DEF Send, HasRoom, TypeOK, RingInv
      <3>2. /\ length' = length /\ read_from' = read_from
            /\ waiting_messages' = waiting_messages + 1
            /\ write_to' = IF write_to + 1 >= length THEN 0 ELSE write_to + 1
        BY <1>2 DEF Send, CopyIn, Advance
      <3> QED BY <3>1, <3>2 DEF RingAligned
    <2>3. \A i \in (1 .. waiting_messages)' : (area[Nth(i)])' \in Item
      <3> SUFFICES ASSUME NEW i \in 1 .. waiting_messages + 1
                   PROVE  (area[Nth(i)])' \in Item
        BY <1>2 DEF Send
      <3>1. Nth(i)' = Nth(i) /\ Nth(i) \in 0 .. length - 1
        BY <1>2 DEF Send, HasRoom, Nth, TypeOK
      <3>2. CASE i = waiting_messages + 1
        <4>1. Nth(i) = write_to
          BY <1>2, <3>2 DEF Send, HasRoom, Nth, TypeOK, RingInv, RingAligned
        <4> QED BY <1>2, <3>1, <4>1 DEF Send, CopyIn, TypeOK
      <3>3. CASE i # waiting_messages + 1
        <4>1. Nth(i) # write_to
          BY <1>2, <3>3 DEF Send, HasRoom, Nth, TypeOK, RingInv, RingAligned
        <4>2. area[Nth(i)] \in Item
          BY <1>2, <3>3 DEF Send, HasRoom, TypeOK, RingInv
        <4> QED BY <1>2, <3>1, <4>1, <4>2 DEF Send, CopyIn, TypeOK
      <3> QED BY <3>2, <3>3
    <2> QED BY <2>1, <2>2, <2>3 DEF RingInv
  <1>3. ASSUME Receive
        PROVE  TypeOK' /\ RingInv'
    <2>1. TypeOK'
      BY <1>3 DEF Receive, MoveReader, HasItem, Advance, TypeOK
    <2>2. RingAligned(waiting_messages)'
      BY <1>3 DEF Receive, MoveReader, HasItem, Advance, TypeOK, RingInv,
                  RingAligned
    <2>3. \A i \in (1 .. waiting_messages)' : (area[Nth(i)])' \in Item
      <3> SUFFICES ASSUME NEW i \in 1 .. waiting_messages - 1
                   PROVE  (area[Nth(i)])' \in Item
        BY <1>3 DEF Receive
      <3>1. i \in Nat /\ i + 1 \in 1 .. waiting_messages
        BY DEF TypeOK
      <3>2. Nth(i)' = Nth(i + 1)
        BY <1>3 DEF Receive, HasItem, MoveReader, Advance, Nth, TypeOK
      <3>3. area[Nth(i + 1)] \in Item
        BY <1>3, <3>1 DEF Receive, HasItem, TypeOK, RingInv
      <3> QED BY <1>3, <3>2, <3>3 DEF Receive
    <2> QED BY <2>1, <2>2, <2>3 DEF RingInv
  <1>4. ASSUME UNCHANGED ringVars
        PROVE  TypeOK' /\ RingInv'
    BY <1>4 DEF ringVars, TypeOK, RingInv, RingAligned, Nth
  <1>5. CASE UNCHANGED vars
    BY <1>4, <1>5 DEF vars, ringVars
  <1> QED
    BY <1>1, <1>2, <1>3, <1>4, <1>5 DEF Next, SendRefused, ReceiveRefused

\* The fields of the queue keep their ranges, whatever its users ask for.
THEOREM TypeCorrect == Spec => []TypeOK
  BY InitialState, StepKeeps, PTL DEF Spec

\* The write pointer is always as many slots ahead of the read pointer as the
\* count says, and every waiting slot holds an item that was sent.
THEOREM RingCorrect == Spec => []RingInv
  BY InitialState, StepKeeps, PTL DEF Spec
-----------------------------------------------------------------------------
(* The code implements the bounded FIFO *)

\* The contents of the queue before a send, element by element.
LEMMA SendAppends ==
    ASSUME TypeOK, RingInv, NEW item \in Item, Send(item)
    PROVE  PrintQueue' = Append(PrintQueue, item)
  <1> DEFINE f == [i \in 1 .. waiting_messages + 1 |-> (area[Nth(i)])']
  <1>1. waiting_messages \in Nat /\ waiting_messages' = waiting_messages + 1
    BY DEF Send, TypeOK
  <1>2. f \in [1 .. waiting_messages + 1 -> {(area[Nth(i)])' : i \in 1 .. waiting_messages + 1}]
    OBVIOUS
  <1>3. f[waiting_messages + 1] = item
    <2>1. Nth(waiting_messages + 1) = write_to
      BY DEF Send, HasRoom, Nth, TypeOK, RingInv, RingAligned
    <2>2. \A i : (area[Nth(i)])' = area'[Nth(i)]
      BY DEF Send, Nth
    <2>3. area'[write_to] = item
      BY DEF Send, HasRoom, CopyIn, TypeOK
    <2>4. f[waiting_messages + 1] = area'[Nth(waiting_messages + 1)]
      BY <1>1, <2>2
    <2> QED BY <2>1, <2>3, <2>4
  <1>4. \A i \in 1 .. waiting_messages : f[i] = area[Nth(i)]
    <2> SUFFICES ASSUME NEW i \in 1 .. waiting_messages
                 PROVE  (area[Nth(i)])' = area[Nth(i)]
      BY <1>1
    <2>1. Nth(i)' = Nth(i) /\ Nth(i) \in 0 .. length - 1
      BY DEF Send, HasRoom, Nth, TypeOK
    <2>2. Nth(i) # write_to
      BY DEF Send, HasRoom, Nth, TypeOK, RingInv, RingAligned
    <2> QED BY <2>1, <2>2 DEF Send, CopyIn, TypeOK
  <1>5. PrintQueue' = f
    BY <1>1 DEF PrintQueue, Items
  <1>6. f = [i \in 1 .. waiting_messages + 1 |-> f[i]]
    OBVIOUS
  <1>7. PrintQueue = [i \in 1 .. waiting_messages |-> f[i]]
    BY <1>4 DEF PrintQueue, Items
  <1>8. Append([i \in 1 .. waiting_messages |-> f[i]], f[waiting_messages + 1])
          = [i \in 1 .. waiting_messages + 1 |-> f[i]]
    <2> HIDE DEF f
    <2> QED BY <1>1, <1>2, AppendElement
  <1> HIDE DEF f
  <1> QED BY <1>3, <1>5, <1>6, <1>7, <1>8

\* A receive takes the oldest item and leaves the others in order.
LEMMA ReceiveTakesHead ==
    ASSUME TypeOK, RingInv, Receive
    PROVE  /\ PrintQueue # << >>
           /\ NextItem = Head(PrintQueue)
           /\ PrintQueue' = Tail(PrintQueue)
  <1> DEFINE f == [i \in 1 .. waiting_messages |-> area[Nth(i)]]
  <1> DEFINE S == {area[Nth(i)] : i \in 1 .. waiting_messages}
  <1>1. /\ waiting_messages \in Nat /\ waiting_messages > 0
        /\ waiting_messages' = waiting_messages - 1
    BY DEF Receive, HasItem, TypeOK
  <1>2. f \in [1 .. waiting_messages -> S]
    OBVIOUS
  <1>3. PrintQueue = f
    BY DEF PrintQueue, Items
  <1>4. f = [i \in 1 .. waiting_messages |-> f[i]]
    OBVIOUS
  <1>5. f[1] = NextItem
    BY <1>1 DEF NextItem, Nth, Advance, HasItem, TypeOK
  <1>6. \A i \in 1 .. waiting_messages - 1 : (area[Nth(i)])' = f[i + 1]
    <2> SUFFICES ASSUME NEW i \in 1 .. waiting_messages - 1
                 PROVE  (area[Nth(i)])' = area[Nth(i + 1)]
      BY <1>1
    <2>1. Nth(i)' = Nth(i + 1)
      BY DEF Receive, HasItem, MoveReader, Advance, Nth, TypeOK
    <2> QED BY <2>1 DEF Receive
  <1>7. PrintQueue' = [i \in 1 .. waiting_messages - 1 |-> f[i + 1]]
    BY <1>1, <1>6 DEF PrintQueue, Items
  <1>8. /\ [i \in 1 .. waiting_messages |-> f[i]] # << >>
        /\ Head([i \in 1 .. waiting_messages |-> f[i]]) = f[1]
        /\ Tail([i \in 1 .. waiting_messages |-> f[i]])
             = [i \in 1 .. waiting_messages - 1 |-> f[i + 1]]
    <2> HIDE DEF f, S
    <2> QED BY <1>1, <1>2, RemoveElement, SMT
  <1> HIDE DEF f
  <1> QED BY <1>3, <1>4, <1>5, <1>7, <1>8

\* The length of what print_queue shows is the count.
LEMMA PrintLength ==
    ASSUME TypeOK
    PROVE  /\ Len(PrintQueue) = waiting_messages
           /\ waiting_messages = 0 => PrintQueue = << >>
  BY DEF TypeOK, PrintQueue, Items

\* Each operation of the code is an operation of the bounded FIFO.
LEMMA StepImplements ==
    TypeOK /\ RingInv /\ [Next]_vars => [Fifo!Next]_(Fifo!fifoVars)
  <1> SUFFICES ASSUME TypeOK, RingInv, [Next]_vars
               PROVE  Fifo!Next \/ UNCHANGED Fifo!fifoVars
    OBVIOUS
  <1> USE DEF Answer, Fifo!Answer
  <1>1. ASSUME NEW len \in Lengths, NEW size \in Sizes, Create(len, size)
        PROVE  Fifo!Next
    <2>1. CASE CreateCode(len, size) = 0
      <3>1. len > 0 /\ length = 0
        BY <2>1, CreateChecks
      <3>2. waiting_messages = 0
        BY <3>1 DEF TypeOK
      <3>3. PrintQueue = << >> /\ PrintQueue' = << >>
        BY <1>1, <2>1, <3>2 DEF Create, CreateQueue, PrintQueue, Items
      <3>4. Fifo!Create(len)
        BY <1>1, <2>1, <3>1, <3>3 DEF Create, CreateQueue, Fifo!Create
      <3> QED BY <3>4 DEF Fifo!Next
    <2>2. CASE CreateCode(len, size) # 0
      <3>1. CreateCode(len, size) \in {1, -1, -2, -3}
        BY <2>2 DEF CreateCode
      <3>2. PrintQueue' = PrintQueue
        BY <1>1, <2>2 DEF Create, CreateQueue, ringVars, PrintQueue, Items, Nth
      <3>3. Fifo!CreateRefused
        BY <1>1, <2>2, <3>1, <3>2
           DEF Create, CreateQueue, ringVars, Fifo!CreateRefused
      <3> QED BY <3>3 DEF Fifo!Next
    <2> QED BY <2>1, <2>2
  <1>2. ASSUME NEW item \in Item, Send(item)
        PROVE  Fifo!Next
    <2>1. Fifo!Send(item)
      BY <1>2, SendAppends, PrintLength DEF Send, HasRoom, Fifo!Send
    <2> QED BY <2>1 DEF Fifo!Next
  <1>3. ASSUME SendRefused PROVE Fifo!Next
    <2>1. PrintQueue' = PrintQueue /\ length' = length
      BY <1>3 DEF SendRefused, ringVars, PrintQueue, Items, Nth
    <2>2. Len(PrintQueue) >= length
      BY <1>3, PrintLength DEF SendRefused, HasRoom, TypeOK
    <2>3. Fifo!SendRefused
      BY <1>3, <2>1, <2>2 DEF SendRefused, Fifo!SendRefused
    <2> QED BY <2>3 DEF Fifo!Next
  <1>4. ASSUME Receive PROVE Fifo!Next
    <2>1. Fifo!Receive
      BY <1>4, ReceiveTakesHead DEF Receive, Fifo!Receive
    <2> QED BY <2>1 DEF Fifo!Next
  <1>5. ASSUME ReceiveRefused PROVE Fifo!Next
    <2>1. PrintQueue' = PrintQueue /\ length' = length
      BY <1>5 DEF ReceiveRefused, ringVars, PrintQueue, Items, Nth
    <2>2. PrintQueue = << >>
      BY <1>5, PrintLength DEF ReceiveRefused, HasItem, TypeOK
    <2>3. Fifo!ReceiveRefused
      BY <1>5, <2>1, <2>2 DEF ReceiveRefused, Fifo!ReceiveRefused
    <2> QED BY <2>3 DEF Fifo!Next
  <1>6. ASSUME UNCHANGED vars PROVE UNCHANGED Fifo!fifoVars
    BY <1>6 DEF vars, Fifo!fifoVars, PrintQueue, Items, Nth
  <1> QED BY <1>1, <1>2, <1>3, <1>4, <1>5, <1>6 DEF Next

\* The queue of the code is a bounded FIFO for its users, when they take
\* turns: nothing is lost, duplicated or reordered, a send is refused only
\* when the queue is full and a receive only when it is empty.
THEOREM Implements == Spec => ImplementsFifo
  <1>1. Init => Fifo!Init
    BY DEF Init, RingInit, Answer, Fifo!Init, Fifo!Answer, PrintQueue, Items
  <1>2. Spec => [](TypeOK /\ RingInv)
    BY InitialState, StepKeeps, PTL DEF Spec
  <1> QED
    BY <1>1, <1>2, StepImplements, PTL DEF Spec, ImplementsFifo, Fifo!Spec
=============================================================================
