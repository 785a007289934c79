-------------------------- MODULE CommandPathProofs --------------------------
(***************************************************************************)
(* Proofs about the threads of CommandPath, for every queue length, every  *)
(* set of commands, every number of them and every mission budget.         *)
(*                                                                         *)
(* TypeOK is inductive by itself.  CountInRange needs it, FifoUnlessRaced  *)
(* needs both, and the two properties of the copies follow from the three. *)
(* CommandsTakeEffect needs all of them, and what follows every command on *)
(* its way from the client to the manager.                                 *)
(***************************************************************************)
EXTENDS CommandPath, SequenceFacts, SequenceTheorems, TLAPS

LEMMA Initially == Init => /\ TypeOK
                           /\ CountInRange
                           /\ FifoUnlessRaced
                           /\ StopsOnlyOnBudget
  <1> SUFFICES ASSUME Init
               PROVE  TypeOK /\ CountInRange /\ FifoUnlessRaced /\ StopsOnlyOnBudget
    OBVIOUS
  <1> USE DEF Init, RingInit
  <1>1. <<0, 0, 0>> \in Item
    BY PathAssumption DEF Item
  <1>2. TypeOK
    <2>1. area \in [0 .. length - 1 -> Item]
      BY <1>1, PathAssumption
    <2>2. stream \in Seq(Byte) /\ accepted \in Seq(Item)
      OBVIOUS
    <2>3. mission_counter \in 0 .. ByteRange - 1 /\ sent \in 0 .. MaxCommands
      BY CounterAssumption, PathAssumption
    <2>4. /\ current_state \in StateMap /\ commanded \in StateMap
          /\ disturbed \subseteq {"race", "split", "full"}
          /\ cancelled \in BOOLEAN /\ crashed \in BOOLEAN
      BY DEF StateMap
    <2>5. /\ main \in MainPlaces /\ server \in ServerPlaces
          /\ manager \in ManagerPlaces
          /\ main = "create_queue" /\ server = "not_started"
          /\ manager = "not_started"
          /\ conn \in {"none", "open", "closed", "reset"}
      BY DEF MainPlaces, ServerPlaces, ManagerPlaces
    <2>6. /\ length = 0 /\ item_size = 0 /\ write_to = 0 /\ read_from = 0
          /\ waiting_messages = 0 /\ server_count = 0 /\ manager_count = 0
          /\ buffer \in Item /\ comm_buffer \in Item
      BY <1>1
    <2> HIDE DEF Init, RingInit
    <2> QED BY <2>1, <2>2, <2>3, <2>4, <2>5, <2>6 DEF TypeOK
  <1>3. CountInRange
    BY DEF CountInRange
  <1>4. FifoUnlessRaced
    BY DEF FifoUnlessRaced, Items, Unremoved, Unstored
  <1>5. StopsOnlyOnBudget
    BY CounterAssumption DEF StopsOnlyOnBudget
  <1> QED BY <1>2, <1>3, <1>4, <1>5
-----------------------------------------------------------------------------
(* Type correctness *)

\* main finds the queue not created, and creates it.
LEMMA CreateFirst ==
    ASSUME length = 0
    PROVE  CreateCode(QueueLength, ItemSize) = 0
  <1>1. QueueLength * ItemSize \in Nat /\ QueueLength * ItemSize < UintRange
    BY PathAssumption, SizeAssumption
  <1>2. SizeInBytes(QueueLength, ItemSize) = QueueLength * ItemSize
    BY <1>1, SizeAssumption DEF SizeInBytes
  <1> QED BY <1>2, PathAssumption, SizeAssumption DEF CreateCode

\* The state manager finds it created, and changes nothing.
LEMMA CreateAgain ==
    ASSUME length # 0, CreateQueue(QueueLength, ItemSize)
    PROVE  UNCHANGED ringVars
  BY DEF CreateQueue, CreateCode

\* The steps of main and of the client keep the types.
LEMMA MainKeepsTypes == ASSUME TypeOK, Main PROVE TypeOK'
  <1> USE DEF TypeOK, MainPlaces, ServerPlaces, ManagerPlaces, ringVars,
              managerVars, serverVars, managerThreadVars, clientVars, historyVars
  <1>1. CASE MainCreateQueue
    <2>1. length = 0
      BY <1>1 DEF MainCreateQueue
    <2>2. /\ length' = QueueLength /\ item_size' = ItemSize
          /\ write_to' = 0 /\ read_from' = QueueLength - 1
          /\ waiting_messages' = 0
          /\ area' = [slot \in 0 .. QueueLength - 1 |-> Blank]
      BY <1>1, <2>1, CreateFirst DEF MainCreateQueue, CreateQueue
    <2>3. Blank \in Item
      BY PathAssumption DEF Item
    <2> QED BY <1>1, <2>2, <2>3, PathAssumption DEF MainCreateQueue
  <1>2. CASE MainStartServer BY <1>2 DEF MainStartServer
  <1>3. CASE MainStartManager BY <1>3 DEF MainStartManager
  <1>4. CASE MainJoinServer BY <1>4 DEF MainJoinServer
  <1>5. CASE MainReturn BY <1>5 DEF MainReturn
  <1>6. CASE MainJoinNothing BY <1>6 DEF MainJoinNothing
  <1> QED BY <1>1, <1>2, <1>3, <1>4, <1>5, <1>6 DEF Main

LEMMA ClientKeepsTypes == ASSUME TypeOK, Client PROVE TypeOK'
  <1> USE DEF TypeOK, MainPlaces, ServerPlaces, ManagerPlaces, ringVars,
              managerVars, serverVars, managerThreadVars, clientVars, historyVars
  <1>1. CASE ClientConnect BY <1>1 DEF ClientConnect
  <1>2. ASSUME NEW message \in Messages, ClientSend(message) PROVE TypeOK'
    <2>1. message \in Seq(Byte)
      <3>1. message \in [1 .. 3 -> Byte]
        BY PathAssumption DEF Item
      <3>2. message \in UNION {[1 .. n -> Byte] : n \in Nat}
        BY <3>1
      <3> QED BY <3>2, SeqDef, Zenon
    <2>2. stream' \in Seq(Byte)
      BY <1>2, <2>1 DEF ClientSend
    <2>3. commanded' \in StateMap
      BY <1>2 DEF ClientSend, Target
    <2> QED BY <1>2, <2>2, <2>3, PathAssumption DEF ClientSend
  <1>3. CASE ClientClose BY <1>3 DEF ClientClose
  <1>4. CASE ClientReset BY <1>4 DEF ClientReset
  <1> QED BY <1>1, <1>2, <1>3, <1>4 DEF Client

\* A slot next to the reader is inside the area.
LEMMA AdvanceInRange ==
    ASSUME TypeOK, length > 0, NEW slot \in 0 .. length - 1
    PROVE  Advance(slot) \in 0 .. length - 1
  BY PathAssumption DEF TypeOK, Advance

\* A thread that runs has found the queue created.
LEMMA QueueCreated ==
    ASSUME TypeOK, \/ server \notin {"not_started"}
                   \/ manager \notin {"not_started"}
    PROVE  length = QueueLength /\ length > 0 /\ length \in Nat
  BY PathAssumption DEF TypeOK, MainPlaces

LEMMA ServerKeepsTypes == ASSUME TypeOK, Server PROVE TypeOK'
  <1> USE DEF TypeOK, ServerPlaces, ManagerPlaces, ServerMoves,
              ringVars, managerVars, managerThreadVars, clientVars, historyVars
  <1>1. CASE ServerListen BY <1>1 DEF ServerListen
  <1>2. CASE ServerAccept BY <1>2 DEF ServerAccept
  <1>3. ASSUME NEW n \in 1 .. Len(stream), ServerRead(n) PROVE TypeOK'
    <2>1. buffer' \in Item
      <3>1. \A i \in 1 .. 3 : i =< n => stream[i] \in Byte
        OBVIOUS
      <3> QED BY <1>3, <3>1 DEF ServerRead, Item
    <2>2. stream' \in Seq(Byte)
      BY <1>3 DEF ServerRead
    <2>3. disturbed' \subseteq {"race", "split", "full"}
      BY <1>3 DEF ServerRead
    <2> QED BY <1>3, <2>1, <2>2, <2>3 DEF ServerRead
  <1>4. CASE ServerReadEnd BY <1>4 DEF ServerReadEnd
  <1>5. CASE ServerReadError BY <1>5 DEF ServerReadError
  <1>6. CASE SendCheck BY <1>6 DEF SendCheck
  <1>7. CASE SendFull BY <1>7 DEF SendFull
  <1>8. CASE SendCopy
    <2>1. length > 0 /\ length \in Nat
      BY <1>8, QueueCreated DEF SendCopy
    <2>2. write_to' \in 0 .. length - 1
      BY <1>8, <2>1, AdvanceInRange DEF SendCopy, CopyIn
    <2>3. area' \in [0 .. length - 1 -> Item]
      BY <1>8 DEF SendCopy, CopyIn
    <2> QED BY <1>8, <2>1, <2>2, <2>3 DEF SendCopy
  <1>9. CASE SendLoad BY <1>9 DEF SendLoad
  <1>10. CASE SendStore
    <2>1. accepted' \in Seq(Item)
      BY <1>10 DEF SendStore
    <2>2. disturbed' \subseteq {"race", "split", "full"}
      BY <1>10 DEF SendStore, Races
    <2>3. length > 0
      BY <1>10, QueueCreated DEF SendStore
    <2> QED BY <1>10, <2>1, <2>2, <2>3 DEF SendStore
  <1> QED BY <1>1, <1>2, <1>3, <1>4, <1>5, <1>6, <1>7, <1>8, <1>9, <1>10
          DEF Server

LEMMA CancelIsBoolean ==
    ASSUME NEW code, CancelIfFatal(code)
    PROVE  cancelled' \in BOOLEAN
  BY Zenon DEF CancelIfFatal

\* The manager only ever changes to a state of its map.
LEMMA ChangesToKnownState ==
    ASSUME NEW target, ChangeStateCode(target) = NO_ERROR
    PROVE  target \in StateMap
  BY DEF ChangeStateCode, NO_ERROR, ALREADY_IN_THIS_STATE,
         STATE_CHANGE_NOT_ALLOWED, STATE_NOT_FOUND_IN_MAP

LEMMA ByteModulus ==
    ASSUME NEW n \in Nat
    PROVE  n % ByteRange \in 0 .. ByteRange - 1
  BY CounterAssumption

LEMMA ManagerKeepsTypes == ASSUME TypeOK, Manager PROVE TypeOK'
  <1> USE DEF TypeOK, ServerPlaces, ManagerPlaces, ManagerMoves,
              ringVars, managerVars, serverVars, clientVars, historyVars
  <1>0. <<0, 0, 0>> \in Item
    BY PathAssumption DEF Item
  <1>1. CASE ManagerCreateQueue
    <2>1. UNCHANGED ringVars
      BY <1>1, QueueCreated, CreateAgain DEF ManagerCreateQueue
    <2> QED BY <1>1, <2>1 DEF ManagerCreateQueue
  <1>2. CASE ManagerInitialization
    BY <1>2 DEF ManagerInitialization, Initialization, StateMap
  <1>3. CASE ReceiveCheck BY <1>3 DEF ReceiveCheck
  <1>4. CASE ReceiveEmpty BY <1>4 DEF ReceiveEmpty
  <1>5. CASE ReceiveCopy
    <2>1. length > 0 /\ length \in Nat
      BY <1>5, QueueCreated DEF ReceiveCopy
    <2>2. Advance(read_from) \in 0 .. length - 1
      BY <2>1, AdvanceInRange
    <2>3. comm_buffer' \in Item
      BY <1>5, <2>2 DEF ReceiveCopy, Copied, NextItem
    <2>4. accepted' \in Seq(Item)
      BY <1>5 DEF ReceiveCopy
    <2> QED BY <1>5, <2>1, <2>2, <2>3, <2>4 DEF ReceiveCopy, MoveReader
  <1>6. CASE ReceiveLoad BY <1>6 DEF ReceiveLoad
  <1>7. CASE ReceiveStore
    <2>1. disturbed' \subseteq {"race", "split", "full"}
      BY <1>7 DEF ReceiveStore, Races
    <2>2. length > 0
      BY <1>7, QueueCreated DEF ReceiveStore
    <2> QED BY <1>7, <2>1, <2>2 DEF ReceiveStore
  <1>8. CASE ManagerDispatch
    <2>1. /\ current_state' \in StateMap /\ cancelled' \in BOOLEAN
          /\ mission_counter' = mission_counter
      <3>1. CASE ChangeState(comm_buffer[2])
        BY <3>1, CancelIsBoolean, ChangesToKnownState DEF ChangeState
      <3>2. CASE UNCHANGED managerVars
        BY <3>2
      <3> QED BY <1>8, <3>1, <3>2 DEF ManagerDispatch, Dispatch
    <2> QED BY <1>0, <1>8, <2>1 DEF ManagerDispatch
  <1>9. CASE ManagerExecute
    <2>1. /\ current_state' \in StateMap /\ cancelled' \in BOOLEAN
          /\ mission_counter' \in 0 .. ByteRange - 1
      <3>1. CASE ExecuteMission
        <4>1. mission_counter + 1 \in Nat
          BY CounterAssumption
        <4> QED BY <3>1, <4>1, CancelIsBoolean, ByteModulus DEF ExecuteMission
      <3>2. CASE ExecuteSurvival
        BY <3>2 DEF ExecuteSurvival
      <3> QED BY <1>9, <3>1, <3>2 DEF ManagerExecute
    <2> QED BY <1>9, <2>1 DEF ManagerExecute
  <1>10. CASE ManagerSleep BY <1>10 DEF ManagerSleep
  <1> QED BY <1>1, <1>2, <1>3, <1>4, <1>5, <1>6, <1>7, <1>8, <1>9, <1>10
          DEF Manager

LEMMA StutterKeepsTypes == ASSUME TypeOK, UNCHANGED vars PROVE TypeOK'
  BY DEF TypeOK, vars, ringVars, managerVars, serverVars, managerThreadVars,
         clientVars, historyVars

LEMMA StepKeepsTypes == TypeOK /\ [Next]_vars => TypeOK'
  BY MainKeepsTypes, ClientKeepsTypes, ServerKeepsTypes, ManagerKeepsTypes,
     StutterKeepsTypes
     DEF Next, Done

\* The queue's pointers, the stream and the threads' places keep their ranges
\* for every queue length and every set of commands.
THEOREM TypeCorrect == Spec => []TypeOK
  BY Initially, StepKeepsTypes, PTL DEF Spec
-----------------------------------------------------------------------------
(* The count *)

\* Only the steps of the two queue operations touch the count; what the other
\* thread can store meanwhile keeps each thread's test true.
LEMMA StepKeepsCount == TypeOK /\ CountInRange /\ [Next]_vars => CountInRange'
  <1> SUFFICES ASSUME TypeOK, CountInRange, [Next]_vars
               PROVE  CountInRange'
    OBVIOUS
  <1> USE DEF CountInRange
  <1>1. CASE Main
    <2> USE DEF ringVars, serverVars, managerThreadVars
    <2>1. CASE MainCreateQueue
      <3>1. length = 0 /\ server = "not_started" /\ manager = "not_started"
        BY <2>1 DEF MainCreateQueue, TypeOK
      <3>2. length' = QueueLength /\ waiting_messages' = 0
        BY <2>1, <3>1, CreateFirst DEF MainCreateQueue, CreateQueue
      <3> QED BY <2>1, <3>1, <3>2, PathAssumption DEF MainCreateQueue
    <2>2. CASE MainStartServer BY <2>2 DEF MainStartServer
    <2>3. CASE MainStartManager BY <2>3 DEF MainStartManager
    <2>4. CASE MainJoinServer BY <2>4 DEF MainJoinServer
    <2>5. CASE MainReturn BY <2>5 DEF MainReturn
    <2>6. CASE MainJoinNothing BY <2>6 DEF MainJoinNothing
    <2> QED BY <1>1, <2>1, <2>2, <2>3, <2>4, <2>5, <2>6 DEF Main
  <1>2. CASE Client
    BY <1>2 DEF Client, ClientConnect, ClientSend, ClientClose, ClientReset,
                ringVars, serverVars, managerThreadVars
  <1>3. CASE Server
    <2> USE DEF ringVars, managerThreadVars, ServerMoves, TypeOK
    <2>1. CASE ServerListen BY <2>1 DEF ServerListen
    <2>2. CASE ServerAccept BY <2>2 DEF ServerAccept
    <2>3. ASSUME NEW n \in 1 .. Len(stream), ServerRead(n) PROVE CountInRange'
      BY <2>3 DEF ServerRead
    <2>4. CASE ServerReadEnd BY <2>4 DEF ServerReadEnd
    <2>5. CASE ServerReadError BY <2>5 DEF ServerReadError
    <2>6. CASE SendCheck BY <2>6 DEF SendCheck, HasRoom
    <2>7. CASE SendFull BY <2>7 DEF SendFull
    <2>8. CASE SendCopy BY <2>8 DEF SendCopy
    <2>9. CASE SendLoad BY <2>9 DEF SendLoad
    <2>10. CASE SendStore BY <2>10 DEF SendStore
    <2> QED BY <1>3, <2>1, <2>2, <2>3, <2>4, <2>5, <2>6, <2>7, <2>8, <2>9, <2>10
            DEF Server
  <1>4. CASE Manager
    <2> USE DEF ringVars, serverVars, ManagerMoves, TypeOK
    <2>1. CASE ManagerCreateQueue
      <3>1. UNCHANGED ringVars
        BY <2>1, QueueCreated, CreateAgain DEF ManagerCreateQueue
      <3> QED BY <2>1, <3>1 DEF ManagerCreateQueue
    <2>2. CASE ManagerInitialization BY <2>2 DEF ManagerInitialization
    <2>3. CASE ReceiveCheck BY <2>3 DEF ReceiveCheck, HasItem
    <2>4. CASE ReceiveEmpty BY <2>4 DEF ReceiveEmpty
    <2>5. CASE ReceiveCopy BY <2>5 DEF ReceiveCopy
    <2>6. CASE ReceiveLoad BY <2>6 DEF ReceiveLoad
    <2>7. CASE ReceiveStore BY <2>7 DEF ReceiveStore
    <2>8. CASE ManagerDispatch BY <2>8 DEF ManagerDispatch
    <2>9. CASE ManagerExecute BY <2>9 DEF ManagerExecute
    <2>10. CASE ManagerSleep BY <2>10 DEF ManagerSleep
    <2> QED BY <1>4, <2>1, <2>2, <2>3, <2>4, <2>5, <2>6, <2>7, <2>8, <2>9, <2>10
            DEF Manager
  <1>5. CASE UNCHANGED vars
    BY <1>5 DEF vars, ringVars, serverVars, managerThreadVars
  <1> QED BY <1>1, <1>2, <1>3, <1>4, <1>5 DEF Next, Done
\* However the loads and stores of the two threads interleave, the count stays
\* between zero and the length.
THEOREM CountCorrect == Spec => []CountInRange
  <1>1. TypeOK /\ CountInRange /\ [Next]_vars => (TypeOK /\ CountInRange)'
    BY StepKeepsTypes, StepKeepsCount
  <1> QED BY Initially, <1>1, PTL DEF Spec
-----------------------------------------------------------------------------
(* The contents of the queue *)

\* What is left of the invariant when nothing of the queue moves.
LEMMA SameContents ==
    ASSUME FifoUnlessRaced,
           UNCHANGED <<length, write_to, read_from, waiting_messages, area,
                       server_count, manager_count, accepted, buffer>>,
           disturbed \subseteq disturbed',
           Unstored' = Unstored, Unremoved' = Unremoved,
           server' = "store" => server = "store",
           manager' = "store" => manager = "store"
    PROVE  FifoUnlessRaced'
  <1>1. Items(Len(accepted))' = Items(Len(accepted))
    BY DEF Items, Nth
  <1>2. RingAligned(Len(accepted) + Unstored)' = RingAligned(Len(accepted) + Unstored)
    BY DEF RingAligned
  <1>3. (area[Nth(Len(accepted) + 1)])' = area[Nth(Len(accepted) + 1)]
    BY DEF Nth
  <1>4. Raced => Raced'
    BY DEF Raced
  <1> HIDE DEF Items, RingAligned, Nth, Raced
  <1> QED BY <1>1, <1>2, <1>3, <1>4 DEF FifoUnlessRaced

\* The numbers the next lemmas reason about.
LEMMA ContentsNumbers ==
    ASSUME TypeOK, CountInRange, FifoUnlessRaced, ~Raced, length > 0
    PROVE  /\ length \in Nat
           /\ Len(accepted) \in Nat
           /\ waiting_messages = Len(accepted) + Unremoved
           /\ waiting_messages =< length
           /\ read_from \in 0 .. length - 1
           /\ write_to \in 0 .. length - 1
           /\ RingAligned(Len(accepted) + Unstored)
           /\ Unstored \in {0, 1} /\ Unremoved \in {0, 1}
  BY PathAssumption DEF TypeOK, CountInRange, FifoUnlessRaced, Unstored, Unremoved

\* The server fills the slot after the last item: no waiting item is touched.
LEMMA SendCopyKeepsContents ==
    ASSUME TypeOK, CountInRange, FifoUnlessRaced, SendCopy
    PROVE  FifoUnlessRaced'
  <1> SUFFICES ASSUME ~Raced
               PROVE  FifoUnlessRaced'
    BY DEF FifoUnlessRaced, Raced, SendCopy, historyVars
  <1> DEFINE n == Len(accepted)
  <1>1. length > 0
    BY QueueCreated DEF SendCopy, ServerMoves
  <1>2. /\ length \in Nat /\ n \in Nat
        /\ waiting_messages = n + Unremoved /\ Unremoved \in {0, 1}
        /\ read_from \in 0 .. length - 1
        /\ write_to \in 0 .. length - 1
        /\ RingAligned(n + Unstored)
    BY <1>1, ContentsNumbers
  <1>3. waiting_messages < length /\ Unstored = 0 /\ Unstored' = 1
    BY DEF SendCopy, ServerMoves, CountInRange, Unstored
  <1>4. n < length
    BY <1>2, <1>3
  <1>5. /\ length' = length /\ read_from' = read_from
        /\ waiting_messages' = waiting_messages /\ accepted' = accepted
        /\ buffer' = buffer /\ disturbed' = disturbed
        /\ manager' = manager /\ manager_count' = manager_count
        /\ server' = "load" /\ Unremoved' = Unremoved
        /\ area' = [area EXCEPT ![write_to] = buffer]
        /\ write_to' = IF write_to + 1 >= length THEN 0 ELSE write_to + 1
    BY DEF SendCopy, ServerMoves, CopyIn, Advance, managerThreadVars,
           historyVars, Unremoved
  <1>6. area \in [0 .. length - 1 -> Item]
    BY DEF TypeOK
  <1>7. Nth(n + 1) = write_to
    BY <1>2, <1>3, <1>4 DEF Nth, RingAligned
  <1>8. \A i \in Nat : Nth(i)' = Nth(i)
    BY <1>5 DEF Nth
  <1>9. \A i \in 1 .. n : (area[Nth(i)])' = area[Nth(i)]
    <2> SUFFICES ASSUME NEW i \in 1 .. n PROVE (area[Nth(i)])' = area[Nth(i)]
      OBVIOUS
    <2>1. Nth(i) # write_to /\ Nth(i) \in 0 .. length - 1
      BY <1>2, <1>3, <1>4 DEF Nth, RingAligned
    <2>2. Nth(i)' = Nth(i)
      BY <1>8
    <2> HIDE DEF Nth
    <2> QED BY <1>5, <1>6, <2>1, <2>2
  <1>10. Items(n)' = Items(n)
    BY <1>5, <1>9 DEF Items
  <1>11. RingAligned(n + Unstored)'
    BY <1>2, <1>3, <1>5 DEF RingAligned
  <1>12. (area[Nth(n + 1)])' = buffer
    <2>1. Nth(n + 1)' = write_to
      BY <1>2, <1>5, <1>7 DEF Nth
    <2> QED BY <1>2, <1>5, <1>6, <2>1
  <1> QED BY <1>2, <1>5, <1>10, <1>11, <1>12 DEF FifoUnlessRaced

\* When the store of the count shows the item, it becomes the newest one.
LEMMA SendStoreKeepsContents ==
    ASSUME TypeOK, CountInRange, FifoUnlessRaced, SendStore
    PROVE  FifoUnlessRaced'
  <1> SUFFICES ASSUME ~Raced, ~Raced'
               PROVE  FifoUnlessRaced'
    BY DEF FifoUnlessRaced, Raced, SendStore, Races
  <1> DEFINE n == Len(accepted)
  <1> DEFINE f == [i \in 1 .. n + 1 |-> area[Nth(i)]]
  <1> DEFINE S == {area[Nth(i)] : i \in 1 .. n + 1}
  <1>1. length > 0
    BY QueueCreated DEF SendStore, ServerMoves
  <1>2. /\ length \in Nat /\ n \in Nat
        /\ waiting_messages = n + Unremoved
        /\ RingAligned(n + Unstored)
    BY <1>1, ContentsNumbers
  <1>3. /\ server = "store" /\ Unstored = 1 /\ Unstored' = 0
        /\ server_count = waiting_messages /\ manager # "store"
    BY DEF SendStore, ServerMoves, Unstored, FifoUnlessRaced, Races, Raced
  <1>4. /\ UNCHANGED <<length, read_from, write_to, area, buffer, manager,
                       manager_count>>
        /\ waiting_messages' = waiting_messages + 1
        /\ Unremoved' = Unremoved /\ server' = "read"
        /\ accepted' = Append(accepted, buffer)
    BY <1>3 DEF SendStore, ServerMoves, managerThreadVars, Unremoved
  <1>5. Len(accepted') = n + 1
    BY <1>4 DEF TypeOK
  <1>6. f[n + 1] = buffer
    BY <1>2, <1>3 DEF FifoUnlessRaced
  <1>7. accepted = [i \in 1 .. n |-> f[i]]
    BY <1>2 DEF FifoUnlessRaced, Items
  <1>8. accepted' = [i \in 1 .. n + 1 |-> f[i]]
    <2>1. f \in [1 .. n + 1 -> S]
      OBVIOUS
    <2> HIDE DEF f, S
    <2>2. Append([i \in 1 .. n |-> f[i]], f[n + 1]) = [i \in 1 .. n + 1 |-> f[i]]
      BY <1>2, <2>1, AppendElement
    <2> QED BY <1>4, <1>6, <1>7, <2>2
  <1>9. \A i \in 1 .. n + 1 : (area[Nth(i)])' = area[Nth(i)]
    BY <1>4 DEF Nth
  <1>10. accepted' = (Items(Len(accepted)))'
    BY <1>5, <1>8, <1>9 DEF Items
  <1>11. RingAligned(Len(accepted) + Unstored)'
    BY <1>2, <1>3, <1>4, <1>5 DEF RingAligned
  <1>12. waiting_messages' = Len(accepted') + Unremoved'
    BY <1>2, <1>4, <1>5 DEF Unremoved
  <1> QED BY <1>3, <1>4, <1>10, <1>11, <1>12 DEF FifoUnlessRaced

\* The manager's copy takes the oldest item, and the others move up.
LEMMA ReceiveCopyTakesHead ==
    ASSUME TypeOK, CountInRange, FifoUnlessRaced, ReceiveCopy, ~Raced
    PROVE  /\ accepted # << >>
           /\ NextItem = Head(accepted)
           /\ server = "copy" => write_to # Advance(read_from)
           /\ FifoUnlessRaced'
  <1> DEFINE n == Len(accepted)
  <1> DEFINE f == [i \in 1 .. n |-> area[Nth(i)]]
  <1> DEFINE S == {area[Nth(i)] : i \in 1 .. n}
  <1>1. length > 0
    BY QueueCreated DEF ReceiveCopy, ManagerMoves
  <1>2. /\ length \in Nat /\ n \in Nat
        /\ waiting_messages = n + Unremoved
        /\ waiting_messages =< length
        /\ read_from \in 0 .. length - 1
        /\ write_to \in 0 .. length - 1
        /\ RingAligned(n + Unstored) /\ Unstored \in {0, 1}
    BY <1>1, ContentsNumbers
  <1>3. waiting_messages > 0 /\ Unremoved = 0 /\ Unremoved' = 1
    BY DEF ReceiveCopy, ManagerMoves, CountInRange, Unremoved
  <1>4. n > 0 /\ n =< length
    BY <1>2, <1>3
  <1>5. /\ UNCHANGED <<length, write_to, waiting_messages, area, buffer, server,
                       server_count, disturbed>>
        /\ read_from' = IF read_from + 1 >= length THEN 0 ELSE read_from + 1
        /\ Unstored' = Unstored /\ manager' = "load"
    BY DEF ReceiveCopy, ManagerMoves, MoveReader, Advance, serverVars, Unstored
  <1>6. accepted # << >> /\ accepted' = Tail(accepted)
    BY <1>4 DEF ReceiveCopy, TypeOK
  <1>7. Len(accepted') = n - 1
    BY <1>4, <1>6 DEF TypeOK
  <1>8. accepted = [i \in 1 .. n |-> f[i]]
    BY <1>2 DEF FifoUnlessRaced, Items
  <1>9. /\ Head(accepted) = f[1]
        /\ Tail(accepted) = [i \in 1 .. n - 1 |-> f[i + 1]]
    <2>1. f \in [1 .. n -> S]
      OBVIOUS
    <2> HIDE DEF f, S
    <2>2. /\ Head([i \in 1 .. n |-> f[i]]) = f[1]
          /\ Tail([i \in 1 .. n |-> f[i]]) = [i \in 1 .. n - 1 |-> f[i + 1]]
      BY <1>2, <1>4, <2>1, RemoveElement, SMT
    <2> QED BY <1>8, <2>2
  <1>10. f[1] = NextItem
    BY <1>2, <1>4 DEF NextItem, Nth, Advance
  <1>11. \A i \in 1 .. length - 1 : Nth(i)' = Nth(i + 1)
    BY <1>2, <1>4, <1>5 DEF Nth
  <1>12. \A i \in 1 .. n - 1 : (area[Nth(i)])' = f[i + 1]
    <2> SUFFICES ASSUME NEW i \in 1 .. n - 1
                 PROVE  (area[Nth(i)])' = area[Nth(i + 1)]
      BY <1>2
    <2>1. Nth(i)' = Nth(i + 1)
      BY <1>2, <1>4, <1>11
    <2> QED BY <1>5, <2>1
  <1>13. accepted' = Items(Len(accepted))'
    BY <1>2, <1>6, <1>7, <1>9, <1>12 DEF Items
  <1>14. RingAligned(Len(accepted) + Unstored)'
    BY <1>2, <1>4, <1>5, <1>7 DEF RingAligned
  <1>15. Unstored = 1 => (area[Nth(Len(accepted) + 1)])' = buffer
    <2> SUFFICES ASSUME Unstored = 1
                 PROVE  (area[Nth(Len(accepted) + 1)])' = buffer
      OBVIOUS
    <2>1. n \in 1 .. length - 1
      BY <1>2, <1>3, <1>4 DEF CountInRange, FifoUnlessRaced, Unstored
    <2>2. Nth(Len(accepted) + 1)' = Nth(n + 1)
      BY <1>2, <1>5, <1>7, <2>1 DEF Nth
    <2>3. area[Nth(n + 1)] = buffer
      BY DEF FifoUnlessRaced
    <2> QED BY <1>5, <2>2, <2>3
  <1>16. server = "copy" => write_to # Advance(read_from)
    <2> SUFFICES ASSUME server = "copy"
                 PROVE  write_to # Advance(read_from)
      OBVIOUS
    <2>1. waiting_messages < length /\ Unstored = 0
      BY DEF CountInRange, Unstored
    <2> QED BY <1>2, <1>3, <2>1 DEF RingAligned, Advance
  <1>17. waiting_messages' = Len(accepted') + Unremoved'
    BY <1>2, <1>3, <1>5, <1>7
  <1>18. FifoUnlessRaced'
    BY <1>5, <1>13, <1>14, <1>15, <1>17 DEF FifoUnlessRaced
  <1> HIDE DEF f
  <1> QED BY <1>6, <1>9, <1>10, <1>16, <1>18
\* main creates an empty queue: nothing was accepted before.
LEMMA CreateKeepsContents ==
    ASSUME TypeOK, FifoUnlessRaced, MainCreateQueue
    PROVE  FifoUnlessRaced'
  <1> SUFFICES ASSUME ~Raced
               PROVE  FifoUnlessRaced'
    BY DEF FifoUnlessRaced, Raced, MainCreateQueue, historyVars
  <1>1. /\ length = 0 /\ waiting_messages = 0
        /\ server = "not_started" /\ manager = "not_started"
    BY DEF MainCreateQueue, TypeOK
  <1>2. Len(accepted) = 0
    BY <1>1 DEF FifoUnlessRaced, Unremoved, TypeOK
  <1>3. /\ length' = QueueLength /\ write_to' = 0
        /\ read_from' = QueueLength - 1 /\ waiting_messages' = 0
    BY <1>1, CreateFirst DEF MainCreateQueue, CreateQueue
  <1>4. /\ accepted' = accepted /\ server' = server /\ manager' = manager
    BY DEF MainCreateQueue, historyVars, serverVars, managerThreadVars
  <1>5. Unstored' = 0 /\ Unremoved' = 0
    BY <1>1, <1>4 DEF Unstored, Unremoved
  <1>6. accepted' = Items(Len(accepted))'
    BY <1>2, <1>4 DEF Items, FifoUnlessRaced
  <1>7. RingAligned(Len(accepted) + Unstored)'
    BY <1>2, <1>3, <1>4, <1>5, PathAssumption DEF RingAligned
  <1> QED BY <1>1, <1>2, <1>3, <1>4, <1>5, <1>6, <1>7 DEF FifoUnlessRaced

LEMMA StepKeepsContents ==
    TypeOK /\ CountInRange /\ FifoUnlessRaced /\ [Next]_vars => FifoUnlessRaced'
  <1> SUFFICES ASSUME TypeOK, CountInRange, FifoUnlessRaced, [Next]_vars
               PROVE  FifoUnlessRaced'
    OBVIOUS
  <1> USE DEF ringVars, serverVars, managerThreadVars, historyVars, Unstored,
              Unremoved
  <1>1. CASE Main
    <2>1. CASE MainCreateQueue BY <2>1, CreateKeepsContents
    <2>2. CASE MainStartServer
      <3>1. server = "not_started"
        BY <2>2 DEF MainStartServer, TypeOK, CountInRange, FifoUnlessRaced
      <3> QED BY <2>2, <3>1, SameContents DEF MainStartServer
    <2>3. CASE MainStartManager
      <3>1. manager = "not_started"
        BY <2>3 DEF MainStartManager, TypeOK
      <3> QED BY <2>3, <3>1, SameContents DEF MainStartManager
    <2>4. CASE MainJoinServer BY <2>4, SameContents DEF MainJoinServer
    <2>5. CASE MainReturn BY <2>5, SameContents DEF MainReturn
    <2>6. CASE MainJoinNothing BY <2>6, SameContents DEF MainJoinNothing
    <2> QED BY <1>1, <2>1, <2>2, <2>3, <2>4, <2>5, <2>6 DEF Main
  <1>2. CASE Client
    BY <1>2, SameContents
       DEF Client, ClientConnect, ClientSend, ClientClose, ClientReset
  <1>3. CASE Server
    <2> USE DEF ServerMoves
    <2>1. CASE ServerListen BY <2>1, SameContents DEF ServerListen
    <2>2. CASE ServerAccept BY <2>2, SameContents DEF ServerAccept
    <2>3. ASSUME NEW n \in 1 .. Len(stream), ServerRead(n)
          PROVE  FifoUnlessRaced'
      <3>1. Raced' <=> Raced
        BY <2>3 DEF ServerRead, Raced
      <3>2. Items(Len(accepted))' = Items(Len(accepted))
        BY <2>3 DEF ServerRead, Items, Nth
      <3>3. RingAligned(Len(accepted) + Unstored)'
              <=> RingAligned(Len(accepted) + Unstored)
        BY <2>3 DEF ServerRead, RingAligned
      <3> HIDE DEF Unremoved
      <3>4. Unremoved' = Unremoved
        BY <2>3 DEF ServerRead, Unremoved
      <3> QED BY <2>3, <3>1, <3>2, <3>3, <3>4 DEF ServerRead, FifoUnlessRaced
    <2>4. CASE ServerReadEnd BY <2>4, SameContents DEF ServerReadEnd
    <2>5. CASE ServerReadError BY <2>5, SameContents DEF ServerReadError
    <2>6. CASE SendCheck BY <2>6, SameContents DEF SendCheck
    <2>7. CASE SendFull BY <2>7, SameContents DEF SendFull
    <2>8. CASE SendCopy BY <2>8, SendCopyKeepsContents
    <2>9. CASE SendLoad
      <3>1. Items(Len(accepted))' = Items(Len(accepted))
        BY <2>9 DEF SendLoad, Items, Nth
      <3>2. RingAligned(Len(accepted) + Unstored)'
              <=> RingAligned(Len(accepted) + Unstored)
        BY <2>9 DEF SendLoad, RingAligned
      <3>3. (area[Nth(Len(accepted) + 1)])' = area[Nth(Len(accepted) + 1)]
        BY <2>9 DEF SendLoad, Nth
      <3> QED BY <2>9, <3>1, <3>2, <3>3 DEF SendLoad, FifoUnlessRaced, Raced
    <2>10. CASE SendStore BY <2>10, SendStoreKeepsContents
    <2> QED BY <1>3, <2>1, <2>2, <2>3, <2>4, <2>5, <2>6, <2>7, <2>8, <2>9, <2>10
            DEF Server
  <1>4. CASE Manager
    <2> USE DEF ManagerMoves
    <2>1. CASE ManagerCreateQueue
      <3>1. UNCHANGED ringVars
        BY <2>1, QueueCreated, CreateAgain DEF ManagerCreateQueue
      <3> QED BY <2>1, <3>1, SameContents DEF ManagerCreateQueue
    <2>2. CASE ManagerInitialization BY <2>2, SameContents DEF ManagerInitialization
    <2>3. CASE ReceiveCheck BY <2>3, SameContents DEF ReceiveCheck
    <2>4. CASE ReceiveEmpty BY <2>4, SameContents DEF ReceiveEmpty
    <2>5. CASE ReceiveCopy
      <3>1. Raced => Raced'
        BY <2>5 DEF ReceiveCopy, Raced
      <3>2. CASE Raced BY <3>1, <3>2 DEF FifoUnlessRaced
      <3>3. CASE ~Raced BY <2>5, <3>3, ReceiveCopyTakesHead
      <3> QED BY <3>2, <3>3
    <2>6. CASE ReceiveLoad
      <3>1. Items(Len(accepted))' = Items(Len(accepted))
        BY <2>6 DEF ReceiveLoad, Items, Nth
      <3>2. RingAligned(Len(accepted) + Unstored)'
              <=> RingAligned(Len(accepted) + Unstored)
        BY <2>6 DEF ReceiveLoad, RingAligned
      <3>3. (area[Nth(Len(accepted) + 1)])' = area[Nth(Len(accepted) + 1)]
        BY <2>6 DEF ReceiveLoad, Nth
      <3> QED BY <2>6, <3>1, <3>2, <3>3 DEF ReceiveLoad, FifoUnlessRaced, Raced
    <2>7. CASE ReceiveStore
      <3> SUFFICES ASSUME ~Raced, ~Raced'
                   PROVE  FifoUnlessRaced'
        BY <2>7 DEF FifoUnlessRaced, Raced, ReceiveStore, Races
      <3>1. server # "store" /\ manager_count = waiting_messages
        BY <2>7 DEF ReceiveStore, Races, Raced, FifoUnlessRaced
      <3>2. Items(Len(accepted))' = Items(Len(accepted))
        BY <2>7 DEF ReceiveStore, Items, Nth
      <3>3. RingAligned(Len(accepted) + Unstored)'
              <=> RingAligned(Len(accepted) + Unstored)
        BY <2>7 DEF ReceiveStore, RingAligned
      <3>4. (area[Nth(Len(accepted) + 1)])' = area[Nth(Len(accepted) + 1)]
        BY <2>7 DEF ReceiveStore, Nth
      <3>5. waiting_messages' = (Len(accepted) + Unremoved)'
        BY <2>7, <3>1 DEF ReceiveStore, FifoUnlessRaced, TypeOK
      <3> QED BY <2>7, <3>1, <3>2, <3>3, <3>4, <3>5
              DEF ReceiveStore, FifoUnlessRaced
    <2>8. CASE ManagerDispatch BY <2>8, SameContents DEF ManagerDispatch
    <2>9. CASE ManagerExecute BY <2>9, SameContents DEF ManagerExecute
    <2>10. CASE ManagerSleep BY <2>10, SameContents DEF ManagerSleep
    <2> QED BY <1>4, <2>1, <2>2, <2>3, <2>4, <2>5, <2>6, <2>7, <2>8, <2>9, <2>10
            DEF Manager
  <1>5. CASE UNCHANGED vars
    BY <1>5, SameContents DEF vars
  <1> QED BY <1>1, <1>2, <1>3, <1>4, <1>5 DEF Next, Done

\* The part of the state the theorems about the contents rest on.
QueueInv == TypeOK /\ CountInRange /\ FifoUnlessRaced

LEMMA QueueInvariant == Spec => []QueueInv
  <1>1. Init => QueueInv
    BY Initially DEF QueueInv
  <1>2. QueueInv /\ [Next]_vars => QueueInv'
    BY StepKeepsTypes, StepKeepsCount, StepKeepsContents DEF QueueInv
  <1> QED BY <1>1, <1>2, PTL DEF Spec

\* The queue is a FIFO at every step of the two threads, until two updates of
\* its count overlap.
THEOREM ContentsCorrect == Spec => []FifoUnlessRaced
  <1>1. QueueInv => FifoUnlessRaced
    BY DEF QueueInv
  <1> QED BY <1>1, QueueInvariant, PTL

\* Until then the two threads never copy the same slot at the same time.
THEOREM CopiesCorrect == Spec => []CopiesDisjoint
  <1>1. QueueInv => CopiesDisjoint
    <2> SUFFICES ASSUME QueueInv, ~Raced, server = "copy", manager = "copy"
                 PROVE  write_to # Advance(read_from)
      BY DEF CopiesDisjoint
    <2>1. TypeOK /\ CountInRange /\ FifoUnlessRaced
      BY DEF QueueInv
    <2>2. length > 0
      BY <2>1, QueueCreated
    <2>3. /\ length \in Nat /\ Len(accepted) \in Nat
          /\ waiting_messages = Len(accepted) + Unremoved
          /\ read_from \in 0 .. length - 1
          /\ write_to \in 0 .. length - 1
          /\ RingAligned(Len(accepted) + Unstored)
      BY <2>1, <2>2, ContentsNumbers
    <2>4. /\ waiting_messages < length /\ waiting_messages > 0
          /\ Unstored = 0 /\ Unremoved = 0
      BY <2>1 DEF CountInRange, Unstored, Unremoved
    <2> QED BY <2>3, <2>4 DEF RingAligned, Advance
  <1> QED BY <1>1, QueueInvariant, PTL

\* Until then, and whatever the server is doing at that moment, the manager
\* receives the oldest item that was sent.
THEOREM DeliveryCorrect == Spec => DeliversOldest
  <1>1. QueueInv /\ [Next]_vars
          => [ManagerMoves("copy", "load") /\ ~Raced
                => accepted # << >> /\ comm_buffer' = Head(accepted)]_vars
    <2> SUFFICES ASSUME QueueInv, [Next]_vars, ~Raced,
                        manager = "copy", manager' = "load"
                 PROVE  accepted # << >> /\ comm_buffer' = Head(accepted)
      BY DEF ManagerMoves
    <2>1. TypeOK /\ CountInRange /\ FifoUnlessRaced
      BY DEF QueueInv
    <2>2. ReceiveCopy
      <3>1. ~Main
        BY <2>1 DEF Main, MainCreateQueue, MainStartServer, MainStartManager,
                    MainJoinServer, MainReturn, MainJoinNothing,
                    managerThreadVars, TypeOK
      <3>2. ~Client
        BY DEF Client, ClientConnect, ClientSend, ClientClose, ClientReset,
               managerThreadVars
      <3>3. ~Server
        BY DEF Server, ServerListen, ServerAccept, ServerRead, ServerReadEnd,
               ServerReadError, SendCheck, SendFull, SendCopy, SendLoad,
               SendStore, managerThreadVars
      <3>4. ~UNCHANGED vars
        BY DEF vars, managerThreadVars
      <3>5. Manager
        BY <3>1, <3>2, <3>3, <3>4 DEF Next, Done
      <3> QED BY <3>5
              DEF Manager, ManagerCreateQueue, ManagerInitialization,
                  ReceiveCheck, ReceiveEmpty, ReceiveLoad, ReceiveStore,
                  ManagerDispatch, ManagerExecute, ManagerSleep, ManagerMoves
    <2>3. /\ accepted # << >> /\ NextItem = Head(accepted)
          /\ server = "copy" => write_to # Advance(read_from)
      BY <2>1, <2>2, ReceiveCopyTakesHead
    <2> QED BY <2>2, <2>3 DEF ReceiveCopy, Copied
  <1> QED BY <1>1, QueueInvariant, PTL DEF Spec, DeliversOldest
-----------------------------------------------------------------------------
(* The queue between the two threads is a FIFO with atomic operations *)

\* What the mapping to SharedFifo needs besides the contents: the slot the
\* manager has emptied keeps its item until the count is stored, and no update
\* is lost before the queue is created.
SlotInv ==
    /\ ~Raced /\ Unremoved = 1 => area[read_from] = comm_buffer
    /\ Raced => main # "create_queue"

SharedInv == QueueInv /\ SlotInv

\* main creates the queue in its first step, and no other step changes its
\* length.
LEMMA LengthKept ==
    ASSUME TypeOK, TypeOK', [Next]_vars, main # "create_queue"
    PROVE  /\ length > 0 /\ length \in Nat /\ length' = length
           /\ main' # "create_queue"
  <1>1. main' # "create_queue"
    <2>1. ASSUME Main PROVE main' # "create_queue"
      BY <2>1 DEF Main, MainCreateQueue, MainStartServer, MainStartManager,
                  MainJoinServer, MainReturn, MainJoinNothing
    <2>2. ASSUME Client PROVE main' = main
      BY <2>2 DEF Client, ClientConnect, ClientSend, ClientClose, ClientReset
    <2>3. ASSUME Server PROVE main' = main
      BY <2>3 DEF Server, ServerListen, ServerAccept, ServerRead, ServerReadEnd,
                  ServerReadError, SendCheck, SendFull, SendCopy, SendLoad,
                  SendStore
    <2>4. ASSUME Manager PROVE main' = main
      BY <2>4 DEF Manager, ManagerCreateQueue, ManagerInitialization,
                  ReceiveCheck, ReceiveEmpty, ReceiveCopy, ReceiveLoad,
                  ReceiveStore, ManagerDispatch, ManagerExecute, ManagerSleep
    <2> QED BY <2>1, <2>2, <2>3, <2>4 DEF Next, Done, vars
  <1> QED BY <1>1, PathAssumption DEF TypeOK

\* The manager's copy keeps the slot it took the item from, and the server's
\* copy goes to another one.
LEMMA SendCopySparesSlot ==
    ASSUME TypeOK, CountInRange, FifoUnlessRaced, SlotInv, SendCopy, ~Raced,
           Unremoved = 1
    PROVE  area'[read_from] = area[read_from]
  <1>1. length > 0
    BY QueueCreated DEF SendCopy, ServerMoves
  <1>2. /\ length \in Nat /\ Len(accepted) \in Nat
        /\ waiting_messages = Len(accepted) + 1
        /\ read_from \in 0 .. length - 1 /\ write_to \in 0 .. length - 1
        /\ RingAligned(Len(accepted) + Unstored)
    BY <1>1, ContentsNumbers
  <1>3. waiting_messages < length /\ Unstored = 0
    BY DEF SendCopy, ServerMoves, CountInRange, Unstored
  <1>4. write_to # read_from
    BY <1>2, <1>3 DEF RingAligned
  <1> QED BY <1>2, <1>4 DEF SendCopy, CopyIn, TypeOK

LEMMA StepKeepsSlot ==
    ASSUME SharedInv, QueueInv', [Next]_vars
    PROVE  SlotInv'
  <1> USE DEF SharedInv, QueueInv
  <1>1. Raced' => main' # "create_queue"
    <2>1. CASE main # "create_queue"
      BY <2>1, LengthKept
    <2>2. CASE main = "create_queue"
      <3>1. server = "not_started" /\ manager = "not_started" /\ ~Raced
        BY <2>2 DEF TypeOK, SlotInv
      <3>2. Main \/ Client \/ UNCHANGED vars \/ Server \/ Manager
        BY DEF Next, Done
      <3>3. ~Server /\ ~Manager
        BY <3>1 DEF Server, ServerListen, ServerAccept, ServerRead, ServerReadEnd,
             ServerReadError, SendCheck, SendFull, SendCopy, SendLoad, SendStore,
             ServerMoves, Manager, ManagerCreateQueue, ManagerInitialization,
             ReceiveCheck, ReceiveEmpty, ReceiveCopy, ReceiveLoad, ReceiveStore,
             ManagerDispatch, ManagerExecute, ManagerSleep, ManagerMoves
      <3>4. disturbed' = disturbed
        BY <3>2, <3>3
           DEF Main, MainCreateQueue, MainStartServer, MainStartManager,
               MainJoinServer, MainReturn, MainJoinNothing, Client,
               ClientConnect, ClientSend, ClientClose, ClientReset, vars,
               historyVars
      <3> QED BY <3>1, <3>4 DEF Raced
    <2> QED BY <2>1, <2>2
  <1>2. ASSUME ~Raced', Unremoved' = 1
        PROVE  area'[read_from'] = comm_buffer'
    <2> USE DEF ringVars, serverVars, managerThreadVars, historyVars, Unremoved
    <2>1. CASE Main
      <3>1. manager' \in {"load", "store"}
        BY <1>2
      <3>2. ~MainCreateQueue
        BY <3>1 DEF MainCreateQueue, TypeOK
      <3> QED BY <1>2, <2>1, <3>1, <3>2
              DEF Main, MainStartServer, MainStartManager, MainJoinServer,
                  MainReturn, MainJoinNothing, SlotInv, Raced
    <2>2. CASE Client
      BY <1>2, <2>2 DEF Client, ClientConnect, ClientSend, ClientClose,
                        ClientReset, SlotInv, Raced
    <2>3. CASE Server
      <3>1. /\ ~Raced /\ Unremoved = 1
            /\ comm_buffer' = comm_buffer /\ read_from' = read_from
        BY <1>2, <2>3
           DEF Server, ServerListen, ServerAccept, ServerRead, ServerReadEnd,
               ServerReadError, SendCheck, SendFull, SendCopy, SendLoad,
               SendStore, Raced, Races
      <3>2. CASE SendCopy
        BY <3>1, <3>2, SendCopySparesSlot DEF SlotInv
      <3>3. CASE ~SendCopy
        <4>1. area' = area
          BY <2>3, <3>3
             DEF Server, ServerListen, ServerAccept, ServerRead, ServerReadEnd,
                 ServerReadError, SendCheck, SendFull, SendLoad, SendStore
        <4> QED BY <3>1, <4>1 DEF SlotInv
      <3> QED BY <3>2, <3>3
    <2>4. CASE Manager
      <3>1. manager' \in {"load", "store"}
        BY <1>2
      <3>2. ReceiveCopy \/ ReceiveLoad
        BY <2>4, <3>1
           DEF Manager, ManagerCreateQueue, ManagerInitialization, ReceiveCheck,
               ReceiveEmpty, ReceiveStore, ManagerDispatch, ManagerExecute,
               ManagerSleep, ManagerMoves
      <3>3. CASE ReceiveCopy
        <4>1. ~Raced /\ area' = area /\ read_from' = Advance(read_from)
          BY <1>2, <3>3 DEF ReceiveCopy, MoveReader, Raced
        <4>2. comm_buffer' = NextItem
          BY <3>3, <4>1, ReceiveCopyTakesHead DEF ReceiveCopy, Copied
        <4> QED BY <4>1, <4>2 DEF NextItem
      <3>4. CASE ReceiveLoad
        BY <1>2, <3>4 DEF ReceiveLoad, ManagerMoves, SlotInv, Raced
      <3> QED BY <3>2, <3>3, <3>4
    <2>5. CASE UNCHANGED vars
      BY <1>2, <2>5 DEF vars, SlotInv, Raced
    <2> QED BY <2>1, <2>2, <2>3, <2>4, <2>5 DEF Next, Done
  <1> QED BY <1>1, <1>2 DEF SlotInv

LEMMA SharedInvariant == Spec => []SharedInv
  <1>1. Init => SharedInv
    BY Initially DEF SharedInv, QueueInv, SlotInv, Init, Unremoved, Raced
  <1>2. SharedInv /\ [Next]_vars => SharedInv'
    <2>1. SharedInv /\ [Next]_vars => QueueInv'
      BY StepKeepsTypes, StepKeepsCount, StepKeepsContents DEF SharedInv, QueueInv
    <2> QED BY <2>1, StepKeepsSlot DEF SharedInv
  <1> QED BY <1>1, <1>2, PTL DEF Spec

\* The slots that the count shows are as many as it says, and stay as they
\* are as long as nothing of the ring moves.
LEMMA WaitingLength ==
    ASSUME waiting_messages \in Nat
    PROVE  /\ Len(Waiting) = waiting_messages
           /\ waiting_messages = 0 => Waiting = << >>
  BY DEF Waiting

LEMMA SameWaiting ==
    ASSUME UNCHANGED <<length, read_from, waiting_messages, area>>,
           Unremoved' = Unremoved
    PROVE  Waiting' = Waiting
  <1>1. \A i : (area[Nth(i - Unremoved)])' = area[Nth(i - Unremoved)]
    BY DEF Nth
  <1> QED BY <1>1 DEF Waiting

\* The server's copy fills a slot that does not show yet.
LEMMA SendCopyUnseen ==
    ASSUME TypeOK, CountInRange, FifoUnlessRaced, SendCopy, ~Raced
    PROVE  Waiting' = Waiting
  <1> DEFINE n == Len(accepted)
  <1>1. length > 0
    BY QueueCreated DEF SendCopy, ServerMoves
  <1>2. /\ length \in Nat /\ n \in Nat
        /\ waiting_messages = n + Unremoved /\ Unremoved \in {0, 1}
        /\ read_from \in 0 .. length - 1 /\ write_to \in 0 .. length - 1
        /\ RingAligned(n + Unstored)
    BY <1>1, ContentsNumbers
  <1>3. waiting_messages < length /\ Unstored = 0
    BY DEF SendCopy, ServerMoves, CountInRange, Unstored
  <1>4. /\ UNCHANGED <<length, read_from, waiting_messages>>
        /\ Unremoved' = Unremoved
        /\ area' = [area EXCEPT ![write_to] = buffer]
    BY DEF SendCopy, CopyIn, managerThreadVars, Unremoved
  <1>5. ASSUME NEW i \in 1 .. waiting_messages
        PROVE  (area[Nth(i - Unremoved)])' = area[Nth(i - Unremoved)]
    <2>1. Nth(i - Unremoved) # write_to
      BY <1>2, <1>3 DEF Nth, RingAligned
    <2>2. Nth(i - Unremoved)' = Nth(i - Unremoved)
      BY <1>4 DEF Nth
    <2>3. Nth(i - Unremoved) \in 0 .. length - 1
      BY <1>2, <1>3 DEF Nth
    <2> HIDE DEF Nth
    <2> QED BY <1>4, <2>1, <2>2, <2>3 DEF TypeOK
  <1> QED BY <1>4, <1>5 DEF Waiting

\* The server's store shows the item it copied, behind all others.
LEMMA SendStoreAppends ==
    ASSUME TypeOK, CountInRange, FifoUnlessRaced, SendStore, ~Raced'
    PROVE  Shared!Send(buffer)
  <1> DEFINE w == waiting_messages
             f == [i \in 1 .. w + 1 |-> area[Nth(i - Unremoved)]]
             S == {area[Nth(i - Unremoved)] : i \in 1 .. w + 1}
  <1>1. ~Raced
    BY DEF SendStore, Races, Raced
  <1>2. length > 0
    BY QueueCreated DEF SendStore, ServerMoves
  <1>3. /\ w = Len(accepted) + Unremoved /\ w \in Nat /\ Unremoved \in {0, 1}
        /\ Len(accepted) \in Nat
    BY <1>1, <1>2, ContentsNumbers DEF CountInRange, TypeOK
  <1>4. /\ server_count = w /\ w < length
        /\ area[Nth(Len(accepted) + 1)] = buffer
    <2>1. server = "store" /\ Unstored = 1
      BY DEF SendStore, ServerMoves, Unstored
    <2>2. server_count = w /\ area[Nth(Len(accepted) + 1)] = buffer
      BY <1>1, <2>1 DEF FifoUnlessRaced
    <2> HIDE DEF w
    <2> QED BY <2>1, <2>2, <1>2 DEF CountInRange, TypeOK
  <1>5. /\ UNCHANGED <<length, read_from, area, manager, comm_buffer>>
        /\ waiting_messages' = w + 1 /\ Unremoved' = Unremoved
    BY <1>4 DEF SendStore, managerThreadVars, Unremoved
  <1>6. (w + 1) - Unremoved = Len(accepted) + 1
    BY <1>3
  <1>7. f[w + 1] = buffer
    BY <1>3, <1>4, <1>6
  <1>8. Waiting = [i \in 1 .. w |-> f[i]]
    BY <1>3 DEF Waiting
  <1>9. Waiting' = [i \in 1 .. w + 1 |-> f[i]]
    BY <1>5 DEF Waiting, Nth
  <1>10. Waiting' = Append(Waiting, buffer)
    <2>1. f \in [1 .. w + 1 -> S]
      OBVIOUS
    <2> HIDE DEF f, S
    <2>2. Append([i \in 1 .. w |-> f[i]], f[w + 1]) = [i \in 1 .. w + 1 |-> f[i]]
      BY <1>3, <2>1, AppendElement
    <2> QED BY <1>7, <1>8, <1>9, <2>2
  <1>11. Len(Waiting) < length
    BY <1>3, <1>4, WaitingLength
  <1>12. ~Raced /\ Raced' = Raced
    BY <1>1 DEF Raced
  <1> HIDE DEF w, f, S
  <1> QED BY <1>5, <1>10, <1>11, <1>12 DEF Shared!Send

\* The manager's copy moves the read pointer, and the slot it leaves still
\* shows.
LEMMA ReceiveCopyUnseen ==
    ASSUME TypeOK, CountInRange, ReceiveCopy
    PROVE  Waiting' = Waiting
  <1>1. length > 0 /\ length \in Nat
    BY QueueCreated DEF ReceiveCopy, ManagerMoves
  <1>2. /\ UNCHANGED <<length, waiting_messages, area>>
        /\ Unremoved = 0 /\ Unremoved' = 1
        /\ read_from' = Advance(read_from)
        /\ read_from \in 0 .. length - 1
        /\ waiting_messages \in 0 .. length
    BY <1>1 DEF ReceiveCopy, ManagerMoves, MoveReader, Unremoved, TypeOK,
                CountInRange
  <1>3. ASSUME NEW i \in 1 .. waiting_messages
        PROVE  Nth(i - Unremoved)' = Nth(i - Unremoved)
    BY <1>1, <1>2 DEF Nth, Advance
  <1> HIDE DEF Nth
  <1> QED BY <1>2, <1>3 DEF Waiting

\* The manager's store takes the oldest item away, which is the one it holds.
LEMMA ReceiveStoreTakesHead ==
    ASSUME TypeOK, CountInRange, FifoUnlessRaced, SlotInv, ReceiveStore, ~Raced'
    PROVE  Shared!Receive
  <1> DEFINE w == waiting_messages
             f == [i \in 1 .. w |-> area[Nth(i - 1)]]
             S == {area[Nth(i - 1)] : i \in 1 .. w}
  <1>1. ~Raced
    BY DEF ReceiveStore, Races, Raced
  <1>2. length > 0 /\ length \in Nat
    BY QueueCreated DEF ReceiveStore, ManagerMoves
  <1>3. /\ w \in Nat /\ w > 0 /\ manager_count = w
        /\ Unremoved = 1 /\ Unremoved' = 0
        /\ manager = "store" /\ manager' = "dispatch"
        /\ read_from \in 0 .. length - 1
    BY <1>1, <1>2 DEF ReceiveStore, ManagerMoves, Unremoved, CountInRange,
                      FifoUnlessRaced, TypeOK
  <1>4. /\ UNCHANGED <<length, read_from, area, comm_buffer>>
        /\ waiting_messages' = w - 1
    BY <1>3 DEF ReceiveStore
  <1>5. Waiting = [i \in 1 .. w |-> f[i]]
    BY <1>3 DEF Waiting
  <1>6. Waiting' = [i \in 1 .. w - 1 |-> f[i + 1]]
    <2>1. \A i \in 1 .. w - 1 : (area[Nth(i - Unremoved)])' = f[i + 1]
      BY <1>3, <1>4 DEF Nth
    <2> QED BY <1>4, <2>1 DEF Waiting
  <1>7. f[1] = comm_buffer
    <2>1. area[read_from] = comm_buffer
      BY <1>1, <1>3 DEF SlotInv
    <2>2. Nth(1 - 1) = read_from
      BY <1>2, <1>3 DEF Nth
    <2> QED BY <1>3, <2>1, <2>2
  <1>8. Waiting # << >> /\ Head(Waiting) = comm_buffer /\ Waiting' = Tail(Waiting)
    <2>1. f \in [1 .. w -> S]
      OBVIOUS
    <2> HIDE DEF f, S
    <2>2. /\ [i \in 1 .. w |-> f[i]] # << >>
          /\ Head([i \in 1 .. w |-> f[i]]) = f[1]
          /\ Tail([i \in 1 .. w |-> f[i]]) = [i \in 1 .. w - 1 |-> f[i + 1]]
      BY <1>3, <2>1, RemoveElement
    <2> QED BY <1>5, <1>6, <1>7, <2>2
  <1>9. ~Raced /\ Raced' = Raced
    BY <1>1 DEF Raced
  <1> HIDE DEF w, f, S
  <1> QED BY <1>3, <1>4, <1>8, <1>9 DEF Shared!Receive

\* After a lost update the count still is no more than the length.
LEMMA RacedLosesCount ==
    ASSUME SharedInv, SharedInv', [Next]_vars, Raced'
    PROVE  Shared!LoseCount
  <1>1. TypeOK /\ TypeOK' /\ CountInRange'
    BY DEF SharedInv, QueueInv
  <1>2. main # "create_queue"
    <2>1. CASE Raced
      BY <2>1 DEF SharedInv, SlotInv
    <2>2. CASE ~Raced
      <3>1. SendStore \/ ReceiveStore
        BY <2>2 DEF Raced, Next, Done, vars, Main, MainCreateQueue,
             MainStartServer, MainStartManager, MainJoinServer, MainReturn,
             MainJoinNothing, Client, ClientConnect, ClientSend, ClientClose,
             ClientReset, Server, ServerListen, ServerAccept, ServerRead,
             ServerReadEnd, ServerReadError, SendCheck, SendFull, SendCopy,
             SendLoad, Manager, ManagerCreateQueue, ManagerInitialization,
             ReceiveCheck, ReceiveEmpty, ReceiveCopy, ReceiveLoad,
             ManagerDispatch, ManagerExecute, ManagerSleep, historyVars
      <3> QED BY <1>1, <3>1 DEF SendStore, ReceiveStore, ServerMoves,
                                ManagerMoves, TypeOK
    <2> QED BY <2>1, <2>2
  <1>3. length > 0 /\ length \in Nat /\ length' = length
    BY <1>1, <1>2, LengthKept
  <1>4. waiting_messages' \in Nat /\ waiting_messages' =< length
    BY <1>1, <1>3 DEF CountInRange
  <1>5. Len(Waiting') =< length
    BY <1>4 DEF Waiting
  <1> QED BY <1>3, <1>5 DEF Shared!LoseCount

\* A step that neither moves the ring nor hands an item over is not seen.
LEMMA Unseen ==
    ASSUME Waiting' = Waiting, length' = length, Raced' = Raced,
           \/ UNCHANGED <<manager, comm_buffer>>
           \/ manager' # "dispatch" /\ manager # "dispatch"
    PROVE  UNCHANGED Shared!fifoVars
  BY DEF Shared!fifoVars

\* Each step is an operation of SharedFifo, or is not seen in it.
LEMMA StepImplementsShared ==
    ASSUME SharedInv, SharedInv', [Next]_vars
    PROVE  Shared!Next \/ UNCHANGED Shared!fifoVars
  <1>1. CASE Raced'
    BY <1>1, RacedLosesCount DEF Shared!Next
  <1>2. ASSUME ~Raced' PROVE Shared!Next \/ UNCHANGED Shared!fifoVars
    <2>0. TypeOK /\ CountInRange /\ FifoUnlessRaced /\ SlotInv
      BY DEF SharedInv, QueueInv
    <2> USE DEF ringVars, serverVars, managerThreadVars, historyVars, Unremoved
    <2>1. CASE Main
      <3>1. Raced' = Raced
        BY <2>1 DEF Main, MainCreateQueue, MainStartServer, MainStartManager,
                    MainJoinServer, MainReturn, MainJoinNothing, Raced
      <3>2. CASE MainCreateQueue
        <4>1. /\ length = 0 /\ waiting_messages = 0 /\ manager = "not_started"
          BY <2>0, <3>2 DEF MainCreateQueue, TypeOK
        <4>2. /\ length' = QueueLength /\ waiting_messages' = 0
              /\ manager' = manager
          BY <3>2, <4>1, CreateFirst DEF MainCreateQueue, CreateQueue
        <4>3. Waiting = << >> /\ Waiting' = << >>
          BY <4>1, <4>2 DEF Waiting
        <4>4. Shared!Create
          BY <3>1, <4>1, <4>2, <4>3 DEF Shared!Create
        <4> QED BY <4>4 DEF Shared!Next
      <3>3. CASE ~MainCreateQueue
        <4>1. /\ UNCHANGED <<ringVars, comm_buffer>>
              /\ \/ manager' # "dispatch" /\ manager # "dispatch"
                 \/ UNCHANGED manager
              /\ Unremoved' = Unremoved
          BY <2>0, <2>1, <3>3 DEF Main, MainStartServer, MainStartManager,
               MainJoinServer, MainReturn, MainJoinNothing, TypeOK
        <4> QED BY <3>1, <4>1, SameWaiting, Unseen
      <3> QED BY <3>2, <3>3
    <2>2. CASE Client
      <3>1. UNCHANGED <<ringVars, managerThreadVars, disturbed>>
        BY <2>2 DEF Client, ClientConnect, ClientSend, ClientClose, ClientReset
      <3> QED BY <3>1, SameWaiting, Unseen DEF Raced
    <2>3. CASE Server
      <3>1. UNCHANGED managerThreadVars
        BY <2>3 DEF Server, ServerListen, ServerAccept, ServerRead,
               ServerReadEnd, ServerReadError, SendCheck, SendFull, SendCopy,
               SendLoad, SendStore
      <3>2. CASE SendStore
        <4>1. Shared!Send(buffer) /\ buffer \in Item
          BY <1>2, <2>0, <3>2, SendStoreAppends DEF TypeOK
        <4> QED BY <4>1 DEF Shared!Next
      <3>3. CASE SendCopy
        <4>1. Raced' = Raced /\ ~Raced /\ length' = length
          BY <1>2, <3>3 DEF SendCopy, Raced
        <4> QED BY <2>0, <3>1, <3>3, <4>1, SendCopyUnseen, Unseen
      <3>4. CASE ~SendStore /\ ~SendCopy
        <4>1. UNCHANGED ringVars /\ Raced' = Raced
          BY <2>3, <3>4 DEF Server, ServerListen, ServerAccept, ServerRead,
               ServerReadEnd, ServerReadError, SendCheck, SendFull, SendLoad,
               Raced
        <4> QED BY <3>1, <4>1, SameWaiting, Unseen
      <3> QED BY <3>2, <3>3, <3>4
    <2>4. CASE Manager
      <3> USE DEF ManagerMoves
      <3>1. CASE ReceiveStore
        BY <1>2, <2>0, <3>1, ReceiveStoreTakesHead DEF Shared!Next
      <3>2. CASE ReceiveCopy
        <4>1. /\ Raced' = Raced /\ length' = length
              /\ manager' # "dispatch" /\ manager # "dispatch"
          BY <3>2 DEF ReceiveCopy, Raced
        <4> QED BY <2>0, <3>2, <4>1, ReceiveCopyUnseen, Unseen
      <3>3. CASE ManagerDispatch
        <4>1. /\ manager = "dispatch" /\ manager' = "execute"
              /\ UNCHANGED ringVars /\ Raced' = Raced /\ Unremoved' = Unremoved
          BY <3>3 DEF ManagerDispatch, Raced
        <4>2. Waiting' = Waiting
          BY <4>1, SameWaiting
        <4>3. Shared!Handle
          BY <4>1, <4>2 DEF Shared!Handle
        <4> QED BY <4>3 DEF Shared!Next
      <3>4. CASE ManagerCreateQueue
        <4>1. UNCHANGED ringVars
          BY <2>0, <3>4, QueueCreated, CreateAgain DEF ManagerCreateQueue
        <4>2. /\ Raced' = Raced /\ Unremoved' = Unremoved
              /\ manager' # "dispatch" /\ manager # "dispatch"
          BY <3>4 DEF ManagerCreateQueue, Raced
        <4> QED BY <4>1, <4>2, SameWaiting, Unseen
      <3>5. CASE \/ ManagerInitialization \/ ReceiveCheck \/ ReceiveEmpty
                 \/ ReceiveLoad \/ ManagerExecute \/ ManagerSleep
        <4>1. UNCHANGED ringVars /\ Raced' = Raced
          BY <3>5 DEF ManagerInitialization, ReceiveCheck, ReceiveEmpty,
                      ReceiveLoad, ManagerExecute, ManagerSleep, Raced
        <4>2. /\ manager' # "dispatch" /\ manager # "dispatch"
              /\ Unremoved' = Unremoved
          BY <3>5 DEF ManagerInitialization, ReceiveCheck, ReceiveEmpty,
                      ReceiveLoad, ManagerExecute, ManagerSleep
        <4> QED BY <4>1, <4>2, SameWaiting, Unseen
      <3> QED BY <2>4, <3>1, <3>2, <3>3, <3>4, <3>5 DEF Manager
    <2>5. CASE UNCHANGED vars
      BY <2>5, SameWaiting, Unseen DEF vars, Raced
    <2> QED BY <2>1, <2>2, <2>3, <2>4, <2>5 DEF Next, Done
  <1> QED BY <1>1, <1>2

\* For every length and every interleaving of the two threads: until an update
\* of the count is lost the queue behaves as if each operation happened at
\* once, in first-in first-out order, and afterwards it still never counts
\* more than it has slots.
THEOREM SharedQueueCorrect == Spec => ImplementsSharedFifo
  <1>1. Init => Shared!Init
    BY DEF Init, RingInit, Shared!Init, Waiting, Raced
  <1>2. SharedInv /\ SharedInv' /\ [Next]_vars => [Shared!Next]_(Shared!fifoVars)
    BY StepImplementsShared
  <1> QED BY <1>1, <1>2, SharedInvariant, PTL
          DEF Spec, ImplementsSharedFifo, Shared!Spec
-----------------------------------------------------------------------------
(* The end of the manager *)

LEMMA StepKeepsBudget ==
    TypeOK /\ StopsOnlyOnBudget /\ [Next]_vars => StopsOnlyOnBudget'
  <1> SUFFICES ASSUME TypeOK, StopsOnlyOnBudget, [Next]_vars
               PROVE  StopsOnlyOnBudget'
    OBVIOUS
  <1> USE DEF managerVars, managerThreadVars
  <1>1. CASE Main
    <2>1. CASE MainStartManager
      BY <2>1 DEF MainStartManager, TypeOK, StopsOnlyOnBudget
    <2>2. CASE ~MainStartManager
      BY <1>1, <2>2 DEF Main, MainCreateQueue, MainStartServer, MainJoinServer,
                  MainReturn, MainJoinNothing, StopsOnlyOnBudget
    <2> QED BY <2>1, <2>2
  <1>2. CASE Client
    BY <1>2 DEF Client, ClientConnect, ClientSend, ClientClose, ClientReset,
                StopsOnlyOnBudget
  <1>3. CASE Server
    BY <1>3 DEF Server, ServerListen, ServerAccept, ServerRead, ServerReadEnd,
                ServerReadError, SendCheck, SendFull, SendCopy, SendLoad,
                SendStore, StopsOnlyOnBudget
  <1>4. CASE Manager
    <2> USE DEF ManagerMoves
    <2>1. CASE ManagerInitialization
      BY <2>1 DEF ManagerInitialization, Initialization, StopsOnlyOnBudget
    <2>2. CASE ManagerDispatch
      <3>1. ~cancelled
        BY <2>2 DEF ManagerDispatch, StopsOnlyOnBudget
      <3>2. mission_counter' = mission_counter /\ (cancelled' <=> cancelled)
        <4>1. \A target : ~(ChangeStateCode(target) > FATAL_ERROR_DETECTOR)
          BY DEF ChangeStateCode, FATAL_ERROR_DETECTOR, NO_ERROR,
                 ALREADY_IN_THIS_STATE, STATE_CHANGE_NOT_ALLOWED,
                 STATE_NOT_FOUND_IN_MAP
        <4> QED BY <2>2, <4>1 DEF ManagerDispatch, Dispatch, ChangeState,
                                  CancelIfFatal
      <3> QED BY <2>2, <3>1, <3>2 DEF ManagerDispatch, StopsOnlyOnBudget
    <2>3. CASE ManagerExecute
      <3>1. ~cancelled /\ mission_counter \in Nat
            /\ mission_counter < MaxMissionCounter
        BY <2>3, CounterAssumption DEF ManagerExecute, StopsOnlyOnBudget, TypeOK
      <3>2. CASE ExecuteMission
        <4>1. mission_counter' = mission_counter + 1
          BY <3>1, <3>2, SmallModulus, CounterAssumption DEF ExecuteMission
        <4>2. cancelled' <=> mission_counter' >= MaxMissionCounter
          <5>1. PICK code : /\ code = IF mission_counter' >= MaxMissionCounter
                                      THEN UNATTENDED_TERMINATION_ERROR
                                      ELSE NO_ERROR
                            /\ CancelIfFatal(code)
            BY <3>2 DEF ExecuteMission
          <5>2. code > FATAL_ERROR_DETECTOR <=> mission_counter' >= MaxMissionCounter
            BY <5>1 DEF FATAL_ERROR_DETECTOR, NO_ERROR,
                        UNATTENDED_TERMINATION_ERROR
          <5>3. cancelled' <=> code > FATAL_ERROR_DETECTOR
            BY <3>1, <5>1, Zenon DEF CancelIfFatal
          <5> QED BY <5>2, <5>3, Zenon
        <4> QED BY <2>3, <3>1, <3>2, <4>1, <4>2, CounterAssumption
                DEF ManagerExecute, ExecuteMission, StopsOnlyOnBudget
      <3>3. CASE ExecuteSurvival
        BY <2>3, <3>1, <3>3 DEF ManagerExecute, ExecuteSurvival, StopsOnlyOnBudget
      <3> QED BY <2>3, <3>2, <3>3 DEF ManagerExecute
    <2>4. CASE ManagerSleep
      BY <2>4 DEF ManagerSleep, StopsOnlyOnBudget
    <2>5. CASE \/ ManagerCreateQueue \/ ReceiveCheck \/ ReceiveEmpty
               \/ ReceiveCopy \/ ReceiveLoad \/ ReceiveStore
      BY <2>5 DEF ManagerCreateQueue, ReceiveCheck, ReceiveEmpty, ReceiveCopy,
                  ReceiveLoad, ReceiveStore, StopsOnlyOnBudget
    <2> QED BY <1>4, <2>1, <2>2, <2>3, <2>4, <2>5 DEF Manager
  <1>5. CASE UNCHANGED vars
    BY <1>5 DEF vars, StopsOnlyOnBudget
  <1> QED BY <1>1, <1>2, <1>3, <1>4, <1>5 DEF Next, Done

\* Whatever the commands and however long they keep the manager in survival,
\* its thread ends after exactly the budgeted mission cycles, and only then.
THEOREM BudgetCorrect == Spec => []StopsOnlyOnBudget
  <1>1. TypeOK /\ StopsOnlyOnBudget /\ [Next]_vars
          => (TypeOK /\ StopsOnlyOnBudget)'
    BY StepKeepsTypes, StepKeepsBudget
  <1> QED BY Initially, <1>1, PTL DEF Spec
-----------------------------------------------------------------------------
(* The effect of the commands *)

\* A command that names a state.
Names(message) == message[1] = COMMAND_CHANGE_STATE /\ message[2] \in StateMap

\* The state that messages lead to: what the last one of them that names a
\* state asks for.
Leads(messages, from, to) ==
    \/ /\ \A i \in 1 .. Len(messages) : ~Names(messages[i])
       /\ to = from
    \/ \E i \in 1 .. Len(messages) :
          /\ Names(messages[i])
          /\ to = messages[i][2]
          /\ \A j \in i + 1 .. Len(messages) : ~Names(messages[j])

\* No command leads nowhere else; a command more leads on to its target; what
\* is left once the first command was taken leads on from its target.
LEMMA LeadsNowhere ==
    ASSUME NEW from, NEW to, Leads(<< >>, from, to)
    PROVE  to = from
  BY DEF Leads

LEMMA LeadsOn ==
    ASSUME NEW messages \in Seq(Item), NEW message \in Item, NEW from, NEW to,
           Leads(messages, from, to)
    PROVE  Leads(Append(messages, message), from, Target(message, to))
  <1> DEFINE more == Append(messages, message)
             n == Len(messages)
  <1>1. /\ n \in Nat /\ Len(more) = n + 1 /\ more[n + 1] = message
        /\ \A i \in 1 .. n : more[i] = messages[i]
    OBVIOUS
  <1> SUFFICES Leads(more, from, Target(message, to))
    OBVIOUS
  <1> HIDE DEF more
  <1>2. CASE Names(message)
    <2>1. Target(message, to) = more[n + 1][2] /\ Names(more[n + 1])
      BY <1>1, <1>2 DEF Target, Names
    <2>2. \A j \in (n + 1) + 1 .. Len(more) : ~Names(more[j])
      BY <1>1
    <2>3. n + 1 \in 1 .. Len(more)
      BY <1>1
    <2> QED BY <2>1, <2>2, <2>3 DEF Leads
  <1>3. CASE ~Names(message)
    <2>1. Target(message, to) = to
      BY <1>3 DEF Target, Names
    <2>2. CASE to = from /\ \A i \in 1 .. n : ~Names(messages[i])
      BY <1>1, <1>3, <2>1, <2>2 DEF Leads
    <2>3. ASSUME NEW i \in 1 .. n, Names(messages[i]), to = messages[i][2],
                 \A j \in i + 1 .. n : ~Names(messages[j])
          PROVE  Leads(more, from, to)
      <3>1. i \in 1 .. Len(more) /\ Names(more[i]) /\ to = more[i][2]
        BY <1>1, <2>3
      <3>2. \A j \in i + 1 .. Len(more) : ~Names(more[j])
        BY <1>1, <1>3, <2>3
      <3> QED BY <3>1, <3>2 DEF Leads
    <2> QED BY <2>1, <2>2, <2>3 DEF Leads
  <1> QED BY <1>2, <1>3

LEMMA LeadsAfterHead ==
    ASSUME NEW messages \in Seq(Item), messages # << >>, NEW from, NEW to,
           Leads(messages, from, to)
    PROVE  Leads(Tail(messages), Target(Head(messages), from), to)
  <1> DEFINE rest == Tail(messages)
             n == Len(messages)
  <1>1. /\ n \in Nat /\ n > 0 /\ Len(rest) = n - 1 /\ Head(messages) = messages[1]
        /\ \A i \in 1 .. n - 1 : rest[i] = messages[i + 1]
    OBVIOUS
  <1> HIDE DEF rest
  <1>2. CASE to = from /\ \A i \in 1 .. n : ~Names(messages[i])
    <2>1. Target(Head(messages), from) = from
      BY <1>1, <1>2 DEF Target, Names
    <2>2. \A i \in 1 .. Len(rest) : ~Names(rest[i])
      BY <1>1, <1>2
    <2> QED BY <1>2, <2>1, <2>2 DEF Leads, rest
  <1>3. ASSUME NEW i \in 1 .. n, Names(messages[i]), to = messages[i][2],
               \A j \in i + 1 .. n : ~Names(messages[j])
        PROVE  Leads(rest, Target(Head(messages), from), to)
    <2>1. CASE i = 1
      <3>1. Target(Head(messages), from) = to
        BY <1>1, <1>3, <2>1 DEF Target, Names
      <3>2. \A k \in 1 .. Len(rest) : ~Names(rest[k])
        BY <1>1, <1>3, <2>1
      <3> QED BY <3>1, <3>2 DEF Leads
    <2>2. CASE i # 1
      <3>1. /\ i - 1 \in 1 .. Len(rest) /\ rest[i - 1] = messages[i]
            /\ Names(rest[i - 1]) /\ to = rest[i - 1][2]
        BY <1>1, <1>3, <2>2
      <3>2. \A j \in (i - 1) + 1 .. Len(rest) : ~Names(rest[j])
        BY <1>1, <1>3, <2>2
      <3> QED BY <3>1, <3>2 DEF Leads
    <2> QED BY <2>1, <2>2
  <1> QED BY <1>2, <1>3 DEF Leads, rest

\* Bytes that are these messages, one after the other.
Sends(bytes, messages) ==
    /\ Len(bytes) = 3 * Len(messages)
    /\ \A i \in 1 .. Len(messages) : \A k \in 1 .. 3 :
          bytes[3 * (i - 1) + k] = messages[i][k]

ServerHolds == server \in {"check", "copy", "load", "store"}
ManagerHolds == manager \in {"load", "store", "dispatch"}

\* The state the manager will be in once it has dispatched what it received.
Dispatched == IF ManagerHolds THEN Target(comm_buffer, current_state)
              ELSE current_state

\* The last state asked for is where the commands that are still under way
\* lead to: the one the manager holds, the ones in the queue, the one the
\* server holds and the ones in the stream.
UnderWay(messages, state) ==
    /\ Sends(stream, messages)
    /\ Leads(accepted, Dispatched, state)
    /\ Leads(messages, IF ServerHolds THEN Target(buffer, state) ELSE state,
             commanded)

EffectInv ==
    /\ manager \in {"not_started", "not_created", "create_queue", "initialization"}
         => current_state = SURVIVAL
    /\ disturbed = {} /\ conn # "reset"
         => \E messages \in Seq(Item), state \in StateMap :
               UnderWay(messages, state)

LEMMA TargetInMap ==
    ASSUME NEW message, NEW state \in StateMap
    PROVE  Target(message, state) \in StateMap
  BY DEF Target

\* Steps that move no command and ask for nothing.
LEMMA SameUnderWay ==
    ASSUME EffectInv,
           UNCHANGED <<stream, accepted, buffer, comm_buffer, commanded,
                       current_state>>,
           disturbed \subseteq disturbed', conn = "reset" => conn' = "reset",
           ServerHolds' = ServerHolds, ManagerHolds' = ManagerHolds,
           manager' \in {"not_started", "not_created", "create_queue",
                         "initialization"}
             => manager \in {"not_started", "not_created", "create_queue",
                             "initialization"}
    PROVE  EffectInv'
  <1>1. \A messages, state : UnderWay(messages, state)' <=> UnderWay(messages, state)
    BY DEF UnderWay, Sends, Leads, Dispatched, Names, Target
  <1>2. disturbed' = {} => disturbed = {}
    OBVIOUS
  <1> QED BY <1>1, <1>2 DEF EffectInv

LEMMA InitUnderWay == Init => EffectInv
  <1> SUFFICES ASSUME Init PROVE EffectInv
    OBVIOUS
  <1>1. << >> \in Seq(Item) /\ SURVIVAL \in StateMap
    BY DEF StateMap
  <1>2. UnderWay(<< >>, SURVIVAL)
    BY DEF Init, UnderWay, Sends, Leads, Dispatched, ServerHolds, ManagerHolds
  <1> QED BY <1>1, <1>2 DEF Init, EffectInv

\* What the client sends adds one message to the stream, and a read of three
\* bytes takes the first message out of it.
LEMMA SendsMore ==
    ASSUME TypeOK, NEW message \in Messages, ClientSend(message),
           NEW messages \in Seq(Item), Sends(stream, messages)
    PROVE  /\ message \in Item
           /\ Sends(stream', Append(messages, message))
  <1>1. message \in Item /\ message \in Seq(Byte) /\ Len(message) = 3
    <2>1. message \in [1 .. 3 -> Byte]
      BY PathAssumption DEF Item
    <2>2. message \in UNION {[1 .. n -> Byte] : n \in Nat}
      BY <2>1
    <2>3. message \in Seq(Byte)
      BY <2>2, SeqDef, Zenon
    <2>4. DOMAIN message = 1 .. 3
      BY <2>1
    <2> QED BY <2>1, <2>3, <2>4 DEF Item
  <1> DEFINE more == Append(messages, message)
             n == Len(messages)
  <1>2. /\ n \in Nat /\ Len(more) = n + 1
        /\ more[n + 1] = message /\ \A i \in 1 .. n : more[i] = messages[i]
    BY <1>1
  <1>3. stream' = stream \o message /\ stream \in Seq(Byte)
    BY DEF ClientSend, TypeOK
  <1>4. /\ Len(stream') = 3 * n + 3
        /\ \A p \in 1 .. 3 * n : stream'[p] = stream[p]
        /\ \A k \in 1 .. 3 : stream'[3 * n + k] = message[k]
    <2>1. Len(stream) = 3 * n /\ 3 * n \in Nat
      BY <1>2 DEF Sends
    <2>2. /\ Len(stream') = Len(stream) + Len(message)
          /\ \A p \in 1 .. Len(stream) + Len(message) :
                stream'[p] = IF p =< Len(stream) THEN stream[p]
                             ELSE message[p - Len(stream)]
      BY <1>1, <1>3, ConcatProperties, Zenon
    <2>3. \A k \in 1 .. 3 : /\ 3 * n + k \in 1 .. Len(stream) + Len(message)
                            /\ ~(3 * n + k =< Len(stream))
                            /\ (3 * n + k) - Len(stream) = k
      BY <1>1, <2>1
    <2> HIDE DEF n
    <2>4. \A k \in 1 .. 3 : stream'[3 * n + k] = message[k]
      BY <2>2, <2>3
    <2> QED BY <1>1, <2>1, <2>2, <2>4
  <1> HIDE DEF more, n
  <1>5. ASSUME NEW i \in 1 .. n + 1, NEW k \in 1 .. 3
        PROVE  stream'[3 * (i - 1) + k] = more[i][k]
    <2>1. CASE i = n + 1
      <3>1. 3 * (i - 1) + k = 3 * n + k /\ more[i] = message
        BY <1>2, <2>1
      <3> QED BY <1>4, <3>1
    <2>2. CASE i # n + 1
      <3>1. i \in 1 .. n /\ 3 * (i - 1) + k \in 1 .. 3 * n
        BY <1>2, <2>2
      <3>2. stream[3 * (i - 1) + k] = messages[i][k]
        BY <3>1 DEF Sends, n
      <3> QED BY <1>2, <1>4, <3>1, <3>2
    <2> QED BY <2>1, <2>2
  <1>6. Sends(stream', more)
    BY <1>2, <1>4, <1>5 DEF Sends
  <1> QED BY <1>1, <1>6 DEF more

LEMMA SendsRest ==
    ASSUME TypeOK, 3 \in 1 .. Len(stream), ServerRead(3),
           NEW messages \in Seq(Item), Sends(stream, messages)
    PROVE  /\ messages # << >>
           /\ buffer' = Head(messages)
           /\ Sends(stream', Tail(messages))
  <1> DEFINE rest == Tail(messages)
             m == Len(messages)
  <1>1. Len(stream) = 3 * m /\ m \in Nat /\ m > 0 /\ stream \in Seq(Byte)
    BY DEF Sends, TypeOK
  <1>2. /\ messages # << >> /\ rest \in Seq(Item) /\ Len(rest) = m - 1
        /\ Head(messages) = messages[1] /\ messages[1] \in Item
        /\ \A i \in 1 .. m - 1 : rest[i] = messages[i + 1]
    BY <1>1
  <1>3. buffer' = Head(messages)
    <2>1. buffer' = [i \in 1 .. 3 |-> stream[i]]
      BY DEF ServerRead
    <2>2. \A k \in 1 .. 3 : stream[k] = messages[1][k]
      <3>1. \A k \in 1 .. 3 : stream[3 * (1 - 1) + k] = messages[1][k]
        BY <1>1 DEF Sends
      <3> QED BY <3>1
    <2>3. messages[1] = [k \in 1 .. 3 |-> messages[1][k]]
      BY <1>2 DEF Item
    <2> QED BY <1>2, <2>1, <2>2, <2>3
  <1>4. stream' = SubSeq(stream, 4, Len(stream))
    BY DEF ServerRead
  <1>5. /\ Len(stream') = 3 * m - 3
        /\ \A p \in 1 .. 3 * m - 3 : stream'[p] = stream[p + 3]
    BY <1>1, <1>4
  <1> HIDE DEF rest
  <1>6. ASSUME NEW i \in 1 .. m - 1, NEW k \in 1 .. 3
        PROVE  stream'[3 * (i - 1) + k] = rest[i][k]
    <2>1. /\ 3 * (i - 1) + k \in 1 .. 3 * m - 3 /\ i + 1 \in 1 .. m
          /\ 3 * (i - 1) + k + 3 = 3 * ((i + 1) - 1) + k
      BY <1>1
    <2>2. stream[3 * ((i + 1) - 1) + k] = messages[i + 1][k]
      BY <2>1 DEF Sends
    <2> QED BY <1>2, <1>5, <2>1, <2>2
  <1> HIDE DEF m
  <1>7. Sends(stream', rest)
    <2>1. Len(rest) = m - 1 /\ Len(stream') = 3 * Len(rest)
      BY <1>1, <1>2, <1>5
    <2> QED BY <1>6, <2>1 DEF Sends
  <1> QED BY <1>2, <1>3, <1>7 DEF rest

\* The command is sent; read; put into the queue; taken out of it.
LEMMA SendUnderWay ==
    ASSUME TypeOK, EffectInv, NEW message \in Messages, ClientSend(message)
    PROVE  EffectInv'
  <1> SUFFICES ASSUME disturbed = {}, conn # "reset"
               PROVE  \E messages \in Seq(Item), state \in StateMap :
                         UnderWay(messages, state)'
    BY DEF EffectInv, ClientSend, historyVars, managerThreadVars, managerVars
  <1>1. PICK messages \in Seq(Item), state \in StateMap : UnderWay(messages, state)
    BY DEF EffectInv
  <1>2. message \in Item /\ Sends(stream', Append(messages, message))
    BY <1>1, SendsMore DEF UnderWay
  <1> DEFINE more == Append(messages, message)
  <1>3. more \in Seq(Item)
    BY <1>2
  <1>4. Leads(more, IF ServerHolds THEN Target(buffer, state) ELSE state, commanded')
    BY <1>1, <1>2, LeadsOn DEF UnderWay, ClientSend
  <1>5. Sends(stream', more)
    BY <1>2
  <1> HIDE DEF more
  <1>6. UnderWay(more, state)'
    BY <1>1, <1>4, <1>5
       DEF UnderWay, ClientSend, Dispatched, ServerHolds, ManagerHolds,
           historyVars, serverVars, managerThreadVars, managerVars
  <1> QED BY <1>3, <1>6

LEMMA ReadUnderWay ==
    ASSUME TypeOK, EffectInv, NEW n \in 1 .. Len(stream), ServerRead(n)
    PROVE  EffectInv'
  <1> SUFFICES ASSUME disturbed' = {}, conn # "reset"
               PROVE  \E messages \in Seq(Item), state \in StateMap :
                         UnderWay(messages, state)'
    BY DEF EffectInv, ServerRead, managerThreadVars, managerVars
  <1>0. n = 3 /\ disturbed = {}
    BY DEF ServerRead
  <1>1. PICK messages \in Seq(Item), state \in StateMap : UnderWay(messages, state)
    BY <1>0 DEF EffectInv
  <1> DEFINE rest == Tail(messages)
  <1>2. messages # << >> /\ buffer' = Head(messages) /\ Sends(stream', rest)
    BY <1>0, <1>1, SendsRest DEF UnderWay
  <1>3. rest \in Seq(Item)
    BY <1>2
  <1>4. ~ServerHolds /\ ServerHolds'
    BY DEF ServerRead, ServerMoves, ServerHolds
  <1>5. Leads(rest, Target(buffer', state), commanded)
    BY <1>1, <1>2, <1>4, LeadsAfterHead DEF UnderWay
  <1> HIDE DEF rest
  <1>6. UnderWay(rest, state)'
    BY <1>1, <1>2, <1>4, <1>5
       DEF UnderWay, ServerRead, Dispatched, ManagerHolds, managerThreadVars,
           managerVars
  <1> QED BY <1>3, <1>6

LEMMA StoreUnderWay ==
    ASSUME TypeOK, EffectInv, SendStore
    PROVE  EffectInv'
  <1> SUFFICES ASSUME disturbed' = {}, conn # "reset"
               PROVE  \E messages \in Seq(Item), state \in StateMap :
                         UnderWay(messages, state)'
    BY DEF EffectInv, SendStore, managerThreadVars, managerVars, clientVars
  <1>0. disturbed = {}
    BY DEF SendStore, Races
  <1>1. PICK messages \in Seq(Item), state \in StateMap : UnderWay(messages, state)
    BY <1>0 DEF EffectInv
  <1>2. PICK asked \in StateMap : asked = Target(buffer, state)
    BY TargetInMap
  <1>3. ServerHolds /\ ~ServerHolds'
    BY DEF SendStore, ServerMoves, ServerHolds
  <1>4. Leads(accepted', Dispatched, asked)
    BY <1>1, <1>2, LeadsOn DEF UnderWay, SendStore, TypeOK
  <1>5. Leads(messages, asked, commanded)
    BY <1>1, <1>2, <1>3 DEF UnderWay
  <1>6. UnderWay(messages, asked)'
    BY <1>1, <1>3, <1>4, <1>5
       DEF UnderWay, SendStore, Dispatched, ManagerHolds, managerThreadVars,
           managerVars, clientVars
  <1> QED BY <1>2, <1>6

LEMMA ReceiveUnderWay ==
    ASSUME TypeOK, CountInRange, FifoUnlessRaced, EffectInv, ReceiveCopy
    PROVE  EffectInv'
  <1> SUFFICES ASSUME disturbed = {}, conn # "reset"
               PROVE  \E messages \in Seq(Item), state \in StateMap :
                         UnderWay(messages, state)'
    BY DEF EffectInv, ReceiveCopy, ManagerMoves, clientVars
  <1>1. PICK messages \in Seq(Item), state \in StateMap : UnderWay(messages, state)
    BY DEF EffectInv
  <1>2. /\ accepted # << >> /\ NextItem = Head(accepted)
        /\ server = "copy" => write_to # Advance(read_from)
    BY ReceiveCopyTakesHead DEF Raced
  <1>3. comm_buffer' = Head(accepted) /\ accepted' = Tail(accepted)
    BY <1>2 DEF ReceiveCopy, Copied
  <1>4. ~ManagerHolds /\ ManagerHolds' /\ current_state' = current_state
    BY DEF ReceiveCopy, ManagerMoves, ManagerHolds, managerVars
  <1>5. Leads(accepted', Target(comm_buffer', current_state), state)
    BY <1>1, <1>2, <1>3, <1>4, LeadsAfterHead DEF UnderWay, Dispatched, TypeOK
  <1>6. UnderWay(messages, state)'
    BY <1>1, <1>4, <1>5
       DEF UnderWay, ReceiveCopy, Dispatched, ServerHolds, serverVars, clientVars
  <1> QED BY <1>6

\* The manager goes to the state a command names, and stays where it is
\* otherwise.
LEMMA DispatchesTarget ==
    ASSUME TypeOK, ManagerDispatch
    PROVE  current_state' = Target(comm_buffer, current_state)
  <1>1. CASE comm_buffer[1] # COMMAND_CHANGE_STATE
    BY <1>1 DEF ManagerDispatch, Dispatch, Target, managerVars
  <1>2. CASE comm_buffer[1] = COMMAND_CHANGE_STATE
    <2> DEFINE target == comm_buffer[2]
    <2>1. current_state' = IF ChangeStateCode(target) = NO_ERROR THEN target
                           ELSE current_state
      BY <1>2 DEF ManagerDispatch, Dispatch, ChangeState
    <2>2. CASE target \in StateMap
      <3>1. target = current_state \/ IsTransitionAllowed(target)
        <4>1. CASE current_state = SURVIVAL
          <5>1. TransitionMap[current_state] = <<MISSION, 0, 0>>
            BY <4>1 DEF TransitionMap, StateMap
          <5>2. TransitionMap[current_state][1] = MISSION
                /\ 1 \in DOMAIN TransitionMap[current_state]
            BY <5>1
          <5> QED BY <2>2, <4>1, <5>2 DEF StateMap, IsTransitionAllowed
        <4>2. CASE current_state = MISSION
          <5>1. TransitionMap[current_state] = <<SURVIVAL, 0, 0>>
            BY <4>2 DEF TransitionMap, StateMap, SURVIVAL, MISSION
          <5>2. TransitionMap[current_state][1] = SURVIVAL
                /\ 1 \in DOMAIN TransitionMap[current_state]
            BY <5>1
          <5> QED BY <2>2, <4>2, <5>2 DEF StateMap, IsTransitionAllowed
        <4> QED BY <4>1, <4>2 DEF TypeOK, StateMap
      <3>2. target # current_state => ChangeStateCode(target) = NO_ERROR
        BY <2>2, <3>1 DEF ChangeStateCode
      <3> QED BY <1>2, <2>1, <2>2, <3>2 DEF Target
    <2>3. CASE target \notin StateMap
      <3>1. ChangeStateCode(target) # NO_ERROR
        BY <2>3, ChangesToKnownState
      <3> QED BY <1>2, <2>1, <2>3, <3>1 DEF Target
    <2> QED BY <2>2, <2>3
  <1> QED BY <1>1, <1>2

LEMMA DispatchUnderWay ==
    ASSUME TypeOK, EffectInv, ManagerDispatch
    PROVE  EffectInv'
  <1>1. ManagerHolds /\ ~ManagerHolds' /\ manager' = "execute"
    BY DEF ManagerDispatch, ManagerMoves, ManagerHolds
  <1>2. Dispatched' = Dispatched
    BY <1>1, DispatchesTarget DEF Dispatched
  <1>3. UNCHANGED <<stream, accepted, buffer, commanded, disturbed, conn, server>>
    BY DEF ManagerDispatch, historyVars, serverVars, clientVars
  <1>4. \A messages, state : UnderWay(messages, state)' <=> UnderWay(messages, state)
    BY <1>2, <1>3 DEF UnderWay, Sends, Leads, Names, Target, ServerHolds
  <1> QED BY <1>1, <1>3, <1>4 DEF EffectInv

LEMMA StepKeepsUnderWay ==
    TypeOK /\ CountInRange /\ FifoUnlessRaced /\ EffectInv /\ [Next]_vars
      => EffectInv'
  <1> SUFFICES ASSUME TypeOK, CountInRange, FifoUnlessRaced, EffectInv, [Next]_vars
               PROVE  EffectInv'
    OBVIOUS
  <1> USE DEF ringVars, managerVars, serverVars, managerThreadVars, clientVars,
              historyVars, ServerHolds, ManagerHolds
  <1>1. CASE Main
    <2>1. CASE MainCreateQueue BY <2>1, SameUnderWay DEF MainCreateQueue
    <2>2. CASE MainStartServer
      <3>1. server = "not_started"
        BY <2>2 DEF MainStartServer, TypeOK
      <3> QED BY <2>2, <3>1, SameUnderWay DEF MainStartServer
    <2>3. CASE MainStartManager
      <3>1. manager = "not_started"
        BY <2>3 DEF MainStartManager, TypeOK
      <3> QED BY <2>3, <3>1, SameUnderWay DEF MainStartManager
    <2>4. CASE MainJoinServer BY <2>4, SameUnderWay DEF MainJoinServer
    <2>5. CASE MainReturn BY <2>5, SameUnderWay DEF MainReturn
    <2>6. CASE MainJoinNothing BY <2>6, SameUnderWay DEF MainJoinNothing
    <2> QED BY <1>1, <2>1, <2>2, <2>3, <2>4, <2>5, <2>6 DEF Main
  <1>2. CASE Client
    <2>1. CASE ClientConnect BY <2>1, SameUnderWay DEF ClientConnect
    <2>2. ASSUME NEW message \in Messages, ClientSend(message) PROVE EffectInv'
      BY <2>2, SendUnderWay
    <2>3. CASE ClientClose BY <2>3, SameUnderWay DEF ClientClose
    <2>4. CASE ClientReset BY <2>4 DEF ClientReset, EffectInv
    <2> QED BY <1>2, <2>1, <2>2, <2>3, <2>4 DEF Client
  <1>3. CASE Server
    <2> USE DEF ServerMoves
    <2>1. CASE ServerListen BY <2>1, SameUnderWay DEF ServerListen
    <2>2. CASE ServerAccept BY <2>2, SameUnderWay DEF ServerAccept
    <2>3. ASSUME NEW n \in 1 .. Len(stream), ServerRead(n) PROVE EffectInv'
      BY <2>3, ReadUnderWay
    <2>4. CASE ServerReadEnd BY <2>4, SameUnderWay DEF ServerReadEnd
    <2>5. CASE ServerReadError BY <2>5 DEF ServerReadError, EffectInv
    <2>6. CASE SendCheck BY <2>6, SameUnderWay DEF SendCheck
    <2>7. CASE SendFull BY <2>7 DEF SendFull, EffectInv
    <2>8. CASE SendCopy BY <2>8, SameUnderWay DEF SendCopy
    <2>9. CASE SendLoad BY <2>9, SameUnderWay DEF SendLoad
    <2>10. CASE SendStore BY <2>10, StoreUnderWay
    <2> QED BY <1>3, <2>1, <2>2, <2>3, <2>4, <2>5, <2>6, <2>7, <2>8, <2>9, <2>10
            DEF Server
  <1>4. CASE Manager
    <2> USE DEF ManagerMoves
    <2>1. CASE ManagerCreateQueue BY <2>1, SameUnderWay DEF ManagerCreateQueue
    <2>2. CASE ManagerInitialization
      <3>1. current_state' = current_state
        BY <2>2 DEF ManagerInitialization, Initialization, EffectInv
      <3> QED BY <2>2, <3>1, SameUnderWay DEF ManagerInitialization
    <2>3. CASE ReceiveCheck BY <2>3, SameUnderWay DEF ReceiveCheck
    <2>4. CASE ReceiveEmpty BY <2>4, SameUnderWay DEF ReceiveEmpty
    <2>5. CASE ReceiveCopy BY <2>5, ReceiveUnderWay
    <2>6. CASE ReceiveLoad BY <2>6, SameUnderWay DEF ReceiveLoad
    <2>7. CASE ReceiveStore BY <2>7, SameUnderWay DEF ReceiveStore, Races
    <2>8. CASE ManagerDispatch BY <2>8, DispatchUnderWay
    <2>9. CASE ManagerExecute
      <3>1. current_state' = current_state
        BY <2>9 DEF ManagerExecute, ExecuteMission, ExecuteSurvival
      <3> QED BY <2>9, <3>1, SameUnderWay DEF ManagerExecute
    <2>10. CASE ManagerSleep BY <2>10, SameUnderWay DEF ManagerSleep
    <2> QED BY <1>4, <2>1, <2>2, <2>3, <2>4, <2>5, <2>6, <2>7, <2>8, <2>9, <2>10
            DEF Manager
  <1>5. CASE UNCHANGED vars
    BY <1>5, SameUnderWay DEF vars
  <1> QED BY <1>1, <1>2, <1>3, <1>4, <1>5 DEF Next, Done

\* For every number of commands and every queue length: commands that were
\* read as blocks, not refused and not lost in a race leave the manager in the
\* state that was asked for last.
THEOREM EffectCorrect == Spec => []CommandsTakeEffect
  <1>1. Init => QueueInv /\ EffectInv
    BY Initially, InitUnderWay DEF QueueInv
  <1>2. QueueInv /\ EffectInv /\ [Next]_vars => (QueueInv /\ EffectInv)'
    BY StepKeepsTypes, StepKeepsCount, StepKeepsContents, StepKeepsUnderWay
       DEF QueueInv
  <1>3. QueueInv /\ EffectInv => CommandsTakeEffect
    <2> SUFFICES ASSUME QueueInv, EffectInv, Quiet, disturbed = {}
                 PROVE  current_state = commanded
      BY DEF CommandsTakeEffect
    <2>1. PICK messages \in Seq(Item), state \in StateMap : UnderWay(messages, state)
      BY DEF EffectInv, Quiet
    <2>2. messages = << >> /\ accepted = << >> /\ ~ServerHolds /\ ~ManagerHolds
      BY <2>1 DEF UnderWay, Sends, Quiet, ServerHolds, ManagerHolds
    <2> QED BY <2>1, <2>2, LeadsNowhere DEF UnderWay, Dispatched
  <1> QED BY <1>1, <1>2, <1>3, PTL DEF Spec
-----------------------------------------------------------------------------
(* What the manager dispatches *)

\* Every command on its way from the client to the manager is a message.
ComposedInv ==
    disturbed \cap {"race", "split"} = {} =>
      /\ \A i \in 1 .. Len(accepted) : accepted[i] \in Messages
      /\ ServerHolds /\ ~crashed => buffer \in Messages
      /\ ManagerHolds => comm_buffer \in Messages
      /\ \E messages \in Seq(Messages) : Sends(stream, messages)

\* Steps that move no message, or lose whole ones.
LEMMA SameComposed ==
    ASSUME ComposedInv,
           UNCHANGED <<accepted, buffer, comm_buffer>>,
           stream' = stream \/ stream' = << >>,
           disturbed \subseteq disturbed',
           ServerHolds' /\ ~crashed' => ServerHolds /\ ~crashed,
           ManagerHolds' => ManagerHolds
    PROVE  ComposedInv'
  <1> SUFFICES ASSUME disturbed' \cap {"race", "split"} = {}
               PROVE  ComposedInv'
    BY DEF ComposedInv
  <1>1. disturbed \cap {"race", "split"} = {}
    OBVIOUS
  <1>2. PICK messages \in Seq(Messages) : Sends(stream, messages)
    BY <1>1 DEF ComposedInv
  <1>3. \E rest \in Seq(Messages) : Sends(stream', rest)
    <2>1. CASE stream' = stream
      BY <1>2, <2>1
    <2>2. CASE stream' = << >>
      <3>1. << >> \in Seq(Messages) /\ Sends(stream', << >>)
        BY <2>2 DEF Sends
      <3> QED BY <3>1
    <2> QED BY <2>1, <2>2
  <1> QED BY <1>1, <1>3 DEF ComposedInv

\* Each of the four steps that hand a message on keeps it whole.
LEMMA SendComposed ==
    ASSUME TypeOK, ComposedInv, NEW message \in Messages, ClientSend(message)
    PROVE  ComposedInv'
  <1> SUFFICES ASSUME disturbed \cap {"race", "split"} = {}
               PROVE  ComposedInv'
    BY DEF ComposedInv, ClientSend, historyVars
  <1>1. PICK messages \in Seq(Messages) : Sends(stream, messages)
    BY DEF ComposedInv
  <1>2. messages \in Seq(Item)
    BY PathAssumption
  <1>3. Sends(stream', Append(messages, message))
    BY <1>1, <1>2, SendsMore
  <1>4. Append(messages, message) \in Seq(Messages)
    OBVIOUS
  <1> QED BY <1>3, <1>4 DEF ComposedInv, ClientSend, historyVars, serverVars,
                            managerThreadVars, ServerHolds, ManagerHolds

LEMMA ReadComposed ==
    ASSUME TypeOK, ComposedInv, NEW n \in 1 .. Len(stream), ServerRead(n)
    PROVE  ComposedInv'
  <1> SUFFICES ASSUME disturbed' \cap {"race", "split"} = {}
               PROVE  ComposedInv'
    BY DEF ComposedInv
  <1>1. n = 3 /\ disturbed' = disturbed
    BY DEF ServerRead
  <1>2. PICK messages \in Seq(Messages) : Sends(stream, messages)
    BY <1>1 DEF ComposedInv
  <1>3. messages \in Seq(Item)
    BY PathAssumption
  <1>4. /\ messages # << >> /\ buffer' = Head(messages)
        /\ Sends(stream', Tail(messages))
    BY <1>1, <1>2, <1>3, SendsRest
  <1>5. Head(messages) \in Messages /\ Tail(messages) \in Seq(Messages)
    BY <1>4
  <1> QED BY <1>1, <1>4, <1>5
          DEF ComposedInv, ServerRead, managerThreadVars, ManagerHolds

LEMMA StoreComposed ==
    ASSUME TypeOK, ComposedInv, SendStore, ~crashed
    PROVE  ComposedInv'
  <1> SUFFICES ASSUME disturbed' \cap {"race", "split"} = {}
               PROVE  ComposedInv'
    BY DEF ComposedInv
  <1>1. disturbed \cap {"race", "split"} = {} /\ ServerHolds /\ ~ServerHolds'
    BY DEF SendStore, Races, ServerMoves, ServerHolds
  <1>2. buffer \in Messages /\ accepted' = Append(accepted, buffer)
    BY <1>1 DEF ComposedInv, SendStore
  <1>3. \A i \in 1 .. Len(accepted') : accepted'[i] \in Messages
    BY <1>1, <1>2 DEF ComposedInv, TypeOK
  <1> QED BY <1>1, <1>3 DEF ComposedInv, SendStore, managerThreadVars,
                            clientVars, ManagerHolds

LEMMA ReceiveComposed ==
    ASSUME TypeOK, CountInRange, FifoUnlessRaced, ComposedInv, ReceiveCopy
    PROVE  ComposedInv'
  <1> SUFFICES ASSUME disturbed \cap {"race", "split"} = {}
               PROVE  ComposedInv'
    BY DEF ComposedInv, ReceiveCopy
  <1>1. /\ accepted # << >> /\ NextItem = Head(accepted)
        /\ server = "copy" => write_to # Advance(read_from)
    BY ReceiveCopyTakesHead DEF Raced
  <1>2. comm_buffer' = Head(accepted) /\ accepted' = Tail(accepted)
    BY <1>1 DEF ReceiveCopy, Copied
  <1>3. /\ comm_buffer' \in Messages
        /\ \A i \in 1 .. Len(accepted') : accepted'[i] \in Messages
    BY <1>1, <1>2 DEF ComposedInv, TypeOK
  <1> QED BY <1>3 DEF ComposedInv, ReceiveCopy, serverVars, clientVars,
                      ServerHolds

LEMMA StepKeepsComposed ==
    TypeOK /\ CountInRange /\ FifoUnlessRaced /\ ComposedInv /\ [Next]_vars
      => ComposedInv'
  <1> SUFFICES ASSUME TypeOK, CountInRange, FifoUnlessRaced, ComposedInv,
                      [Next]_vars
               PROVE  ComposedInv'
    OBVIOUS
  <1> USE DEF ringVars, managerVars, serverVars, managerThreadVars, clientVars,
              historyVars, ServerHolds, ManagerHolds
  <1>1. CASE Main
    <2>1. CASE MainCreateQueue BY <2>1, SameComposed DEF MainCreateQueue
    <2>2. CASE MainStartServer BY <2>2, SameComposed DEF MainStartServer
    <2>3. CASE MainStartManager BY <2>3, SameComposed DEF MainStartManager
    <2>4. CASE MainJoinServer BY <2>4, SameComposed DEF MainJoinServer
    <2>5. CASE MainReturn BY <2>5, SameComposed DEF MainReturn
    <2>6. CASE MainJoinNothing BY <2>6, SameComposed DEF MainJoinNothing
    <2> QED BY <1>1, <2>1, <2>2, <2>3, <2>4, <2>5, <2>6 DEF Main
  <1>2. CASE Client
    <2>1. CASE ClientConnect BY <2>1, SameComposed DEF ClientConnect
    <2>2. ASSUME NEW message \in Messages, ClientSend(message) PROVE ComposedInv'
      BY <2>2, SendComposed
    <2>3. CASE ClientClose BY <2>3, SameComposed DEF ClientClose
    <2>4. CASE ClientReset BY <2>4, SameComposed DEF ClientReset
    <2> QED BY <1>2, <2>1, <2>2, <2>3, <2>4 DEF Client
  <1>3. ASSUME Server, ~crashed PROVE ComposedInv'
    <2> USE DEF ServerMoves
    <2>1. CASE ServerListen BY <2>1, SameComposed DEF ServerListen
    <2>2. CASE ServerAccept BY <2>2, SameComposed DEF ServerAccept
    <2>3. ASSUME NEW n \in 1 .. Len(stream), ServerRead(n) PROVE ComposedInv'
      BY <2>3, ReadComposed
    <2>4. CASE ServerReadEnd BY <2>4, SameComposed DEF ServerReadEnd
    <2>5. CASE ServerReadError BY <2>5, SameComposed DEF ServerReadError
    <2>6. CASE SendCheck BY <1>3, <2>6, SameComposed DEF SendCheck
    <2>7. CASE SendFull BY <2>7, SameComposed DEF SendFull
    <2>8. CASE SendCopy BY <1>3, <2>8, SameComposed DEF SendCopy
    <2>9. CASE SendLoad BY <1>3, <2>9, SameComposed DEF SendLoad
    <2>10. CASE SendStore BY <1>3, <2>10, StoreComposed
    <2> QED BY <1>3, <2>1, <2>2, <2>3, <2>4, <2>5, <2>6, <2>7, <2>8, <2>9, <2>10
            DEF Server
  <1>4. CASE Manager
    <2> USE DEF ManagerMoves
    <2>1. CASE ManagerCreateQueue BY <2>1, SameComposed DEF ManagerCreateQueue
    <2>2. CASE ManagerInitialization
      BY <2>2, SameComposed DEF ManagerInitialization
    <2>3. CASE ReceiveCheck BY <2>3, SameComposed DEF ReceiveCheck
    <2>4. CASE ReceiveEmpty BY <2>4, SameComposed DEF ReceiveEmpty
    <2>5. CASE ReceiveCopy BY <2>5, ReceiveComposed
    <2>6. CASE ReceiveLoad BY <2>6, SameComposed DEF ReceiveLoad
    <2>7. CASE ReceiveStore BY <2>7, SameComposed DEF ReceiveStore, Races
    <2>8. CASE ManagerDispatch
      BY <2>8 DEF ManagerDispatch, ComposedInv
    <2>9. CASE ManagerExecute BY <2>9, SameComposed DEF ManagerExecute
    <2>10. CASE ManagerSleep BY <2>10, SameComposed DEF ManagerSleep
    <2> QED BY <1>4, <2>1, <2>2, <2>3, <2>4, <2>5, <2>6, <2>7, <2>8, <2>9, <2>10
            DEF Manager
  <1>5. CASE UNCHANGED vars
    BY <1>5, SameComposed DEF vars
  <1> QED BY <1>1, <1>2, <1>3, <1>4, <1>5 DEF Next, Done, Ended

\* For every set of messages and every interleaving: what is dispatched was
\* composed by the client, unless a read split a command or an update of the
\* count was lost.
THEOREM ComposedCorrect == Spec => []DispatchesComposed
  <1>1. Init => QueueInv /\ ComposedInv
    <2> SUFFICES ASSUME Init PROVE ComposedInv
      BY Initially DEF QueueInv
    <2>1. << >> \in Seq(Messages) /\ Sends(stream, << >>)
      BY DEF Init, Sends
    <2>2. /\ Len(accepted) = 0 /\ server = "not_started"
          /\ manager = "not_started"
      BY DEF Init
    <2>3. \A i \in 1 .. Len(accepted) : accepted[i] \in Messages
      BY <2>2
    <2>4. ~ServerHolds /\ ~ManagerHolds
      BY <2>2 DEF ServerHolds, ManagerHolds
    <2>5. \E messages \in Seq(Messages) : Sends(stream, messages)
      BY <2>1
    <2> QED BY <2>3, <2>4, <2>5, Zenon DEF ComposedInv
  <1>2. QueueInv /\ ComposedInv /\ [Next]_vars => (QueueInv /\ ComposedInv)'
    BY StepKeepsTypes, StepKeepsCount, StepKeepsContents, StepKeepsComposed
       DEF QueueInv
  <1>3. ComposedInv => DispatchesComposed
    BY DEF ComposedInv, DispatchesComposed, ManagerHolds
  <1> QED BY <1>1, <1>2, <1>3, PTL DEF Spec
=============================================================================
