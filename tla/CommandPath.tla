----------------------------- MODULE CommandPath -----------------------------
(***************************************************************************)
(* The program of mains/main_thread.c: main creates the queue and starts   *)
(* two threads, the TCP server, which puts what it reads from its only     *)
(* client into the queue, and the state manager, which takes one item per  *)
(* second out of it.  No lock protects the queue: its count is loaded,     *)
(* changed and stored by both threads, so a step of this module is one     *)
(* access of a thread to what the other one sees.  A local variable or a   *)
(* register that is dead is shown as zero.                                 *)
(*                                                                         *)
(* The history variables accepted, disturbed and commanded are no part of  *)
(* the program.  They say what a correct queue would hold, which of the    *)
(* events that may lose a command have happened, and what the client asked *)
(* for last.                                                               *)
(***************************************************************************)
EXTENDS QueueRing, StateManager

CONSTANTS
    Byte,          \* values of the bytes a client sends
    Messages,      \* the commands clients send: README, three bytes each
    MaxCommands,   \* bound on the commands of the client
    QueueLength,   \* slots main asks for: 3
    ItemSize       \* bytes per slot main and the state manager ask for: 3

Item == [1 .. 3 -> Byte]

ASSUME PathAssumption ==
    /\ Byte \subseteq Nat
    /\ {0, SURVIVAL, MISSION, COMMAND_CHANGE_STATE} \subseteq Byte
    /\ Messages \subseteq Item
    /\ MaxCommands \in Nat
    /\ QueueLength \in Nat \ {0}
    /\ ItemSize \in Nat \ {0}
    /\ QueueLength * ItemSize \in 1 .. MaxQueueLength - 1
    /\ Blank = <<0, 0, 0>>

VARIABLES
    main,             \* where main is
    server,           \* where the TCP server thread is
    manager,          \* where the state manager thread is
    server_count,     \* waiting_messages as queue_send loaded it
    manager_count,    \* waiting_messages as queue_receive loaded it
    buffer,           \* first bytes of the server's stream buffer
    comm_buffer,      \* the item the manager received, local to its update
    conn,             \* the connection of the client
    stream,           \* bytes the client sent and the server has not read
    sent,             \* number of commands sent
    crashed,          \* the process was killed by an invalid access
    accepted,         \* history: items sent and not received, oldest first
    disturbed,        \* history: "race", "split", "full"
    commanded         \* history: the last state the client asked for

serverVars == <<server, server_count, buffer>>
managerThreadVars == <<manager, manager_count, comm_buffer>>
clientVars == <<conn, stream, sent, commanded>>
historyVars == <<accepted, disturbed>>

vars == <<ringVars, managerVars, main, serverVars, managerThreadVars,
          clientVars, crashed, historyVars>>

Init ==
    /\ RingInit
    /\ current_state = SURVIVAL
    /\ mission_counter = 0
    /\ cancelled = FALSE
    /\ main = "create_queue"
    /\ server = "not_started"
    /\ manager = "not_started"
    /\ server_count = 0
    /\ manager_count = 0
    /\ buffer = <<0, 0, 0>>
    /\ comm_buffer = <<0, 0, 0>>
    /\ conn = "none"
    /\ stream = << >>
    /\ sent = 0
    /\ crashed = FALSE
    /\ accepted = << >>
    /\ disturbed = {}
    /\ commanded = SURVIVAL
-----------------------------------------------------------------------------
(* main *)

MainCreateQueue ==
    /\ main = "create_queue"
    /\ CreateQueue(QueueLength, ItemSize)
    /\ main' = "start_server"
    /\ UNCHANGED <<managerVars, serverVars, managerThreadVars, clientVars,
                   crashed, historyVars>>

\* pthread_create may fail: main says so and goes on.
MainStartServer ==
    /\ main = "start_server"
    /\ main' = "start_manager"
    /\ server' \in {"socket", "not_created"}
    /\ UNCHANGED <<ringVars, managerVars, server_count, buffer,
                   managerThreadVars, clientVars, crashed, historyVars>>

MainStartManager ==
    /\ main = "start_manager"
    /\ main' = "join_server"
    /\ manager' \in {"create_queue", "not_created"}
    /\ UNCHANGED <<ringVars, managerVars, serverVars, manager_count,
                   comm_buffer, clientVars, crashed, historyVars>>

MainJoinServer ==
    /\ main = "join_server"
    /\ server = "terminated"
    /\ main' = "join_manager"
    /\ UNCHANGED <<ringVars, managerVars, serverVars, managerThreadVars,
                   clientVars, crashed, historyVars>>

MainReturn ==
    /\ main = "join_manager"
    /\ manager = "terminated"
    /\ main' = "returned"
    /\ UNCHANGED <<ringVars, managerVars, serverVars, managerThreadVars,
                   clientVars, crashed, historyVars>>

\* pthread_join follows the handle of a thread that was never created, 0.
MainJoinNothing ==
    /\ \/ main = "join_server" /\ server = "not_created"
       \/ main = "join_manager" /\ manager = "not_created"
    /\ crashed' = TRUE
    /\ UNCHANGED <<ringVars, managerVars, main, serverVars, managerThreadVars,
                   clientVars, historyVars>>

Main ==
    \/ MainCreateQueue
    \/ MainStartServer
    \/ MainStartManager
    \/ MainJoinServer
    \/ MainReturn
    \/ MainJoinNothing
-----------------------------------------------------------------------------
(* The client: an open connection carries commands, and ends by a close or *)
(* by a reset, which drops what the server has not read.                   *)

ClientConnect ==
    /\ conn = "none"
    /\ server = "accept"
    /\ conn' = "open"
    /\ UNCHANGED <<ringVars, managerVars, main, serverVars, managerThreadVars,
                   stream, sent, commanded, crashed, historyVars>>

\* The state a command asks for, when it names one.
Target(message, otherwise) ==
    IF message[1] = COMMAND_CHANGE_STATE /\ message[2] \in StateMap
    THEN message[2] ELSE otherwise

ClientSend(message) ==
    /\ conn = "open"
    /\ sent < MaxCommands
    /\ sent' = sent + 1
    /\ stream' = stream \o message
    /\ commanded' = Target(message, commanded)
    /\ UNCHANGED <<ringVars, managerVars, main, serverVars, managerThreadVars,
                   conn, crashed, historyVars>>

ClientClose ==
    /\ conn = "open"
    /\ conn' = "closed"
    /\ UNCHANGED <<ringVars, managerVars, main, serverVars, managerThreadVars,
                   stream, sent, commanded, crashed, historyVars>>

ClientReset ==
    /\ conn = "open"
    /\ conn' = "reset"
    /\ stream' = << >>
    /\ UNCHANGED <<ringVars, managerVars, main, serverVars, managerThreadVars,
                   sent, commanded, crashed, historyVars>>

Client ==
    \/ ClientConnect
    \/ \E message \in Messages : ClientSend(message)
    \/ ClientClose
    \/ ClientReset
-----------------------------------------------------------------------------
(* The TCP server thread *)

ServerMoves(from, to) ==
    /\ server = from
    /\ server' = to

\* socket, bind and listen.  A failure cancels the thread, which ends at the
\* next call that can be cancelled: accept.
ServerListen ==
    /\ \/ ServerMoves("socket", "accept")
       \/ ServerMoves("socket", "terminated")
    /\ UNCHANGED <<ringVars, managerVars, main, server_count, buffer,
                   managerThreadVars, clientVars, crashed, historyVars>>

\* A failed accept cancels the thread too: it ends in read.
ServerAccept ==
    /\ \/ conn # "none" /\ ServerMoves("accept", "read")
       \/ ServerMoves("accept", "terminated")
    /\ UNCHANGED <<ringVars, managerVars, main, server_count, buffer,
                   managerThreadVars, clientVars, crashed, historyVars>>

\* read returns some of the bytes that have arrived, not a whole command: it
\* overwrites the first n bytes of the buffer and leaves the others.
ServerRead(n) ==
    /\ ServerMoves("read", "check")
    /\ stream # << >>
    /\ buffer' = [i \in 1 .. 3 |-> IF i =< n THEN stream[i] ELSE buffer[i]]
    /\ stream' = SubSeq(stream, n + 1, Len(stream))
    /\ disturbed' = IF n = 3 THEN disturbed ELSE disturbed \cup {"split"}
    /\ UNCHANGED <<ringVars, managerVars, main, server_count,
                   managerThreadVars, conn, sent, commanded, crashed, accepted>>

\* read returns 0: the thread cancels itself and ends in the next read.
ServerReadEnd ==
    /\ ServerMoves("read", "terminated")
    /\ conn = "closed"
    /\ stream = << >>
    /\ UNCHANGED <<ringVars, managerVars, main, server_count, buffer,
                   managerThreadVars, clientVars, crashed, historyVars>>

\* read returns -1: the buffer is printed as if it had 2^32 - 1 bytes.
ServerReadError ==
    /\ ServerMoves("read", "check")
    /\ conn = "reset"
    /\ crashed' = TRUE
    /\ UNCHANGED <<ringVars, managerVars, main, server_count, buffer,
                   managerThreadVars, clientVars, historyVars>>

\* queue_send: the test, then the copy, then the load and store of
\* ++waiting_messages.
SendCheck ==
    /\ HasRoom
    /\ ServerMoves("check", "copy")
    /\ UNCHANGED <<ringVars, managerVars, main, server_count, buffer,
                   managerThreadVars, clientVars, crashed, historyVars>>

\* Mutant: a refused send ends the thread, like the errors before it.
SendFullEnds ==
    /\ ~HasRoom
    /\ ServerMoves("check", "terminated")
    /\ disturbed' = disturbed \cup {"full"}
    /\ UNCHANGED <<ringVars, managerVars, main, server_count, buffer,
                   managerThreadVars, clientVars, crashed, accepted>>

SendFull ==
    /\ ~HasRoom
    /\ ServerMoves("check", "read")
    /\ disturbed' = disturbed \cup {"full"}
    /\ UNCHANGED <<ringVars, managerVars, main, server_count, buffer,
                   managerThreadVars, clientVars, crashed, accepted>>

SendCopy ==
    /\ ServerMoves("copy", "load")
    /\ CopyIn(buffer)
    /\ UNCHANGED <<length, item_size, read_from, waiting_messages, managerVars,
                   main, server_count, buffer, managerThreadVars, clientVars,
                   crashed, historyVars>>

SendLoad ==
    /\ ServerMoves("load", "store")
    /\ server_count' = waiting_messages
    /\ UNCHANGED <<ringVars, managerVars, main, buffer, managerThreadVars,
                   clientVars, crashed, historyVars>>

\* One thread stores the count while the other is between its load and its
\* store: one of the two changes is lost.
Races(other) ==
    disturbed' = IF other = "store" THEN disturbed \cup {"race"} ELSE disturbed

SendStore ==
    /\ ServerMoves("store", "read")
    /\ waiting_messages' = server_count + 1
    /\ server_count' = 0
    /\ accepted' = Append(accepted, buffer)
    /\ Races(manager)
    /\ UNCHANGED <<length, item_size, write_to, read_from, area, managerVars,
                   main, buffer, managerThreadVars, clientVars,
                   crashed>>

Server ==
    \/ ServerListen
    \/ ServerAccept
    \/ \E n \in 1 .. Len(stream) : ServerRead(n)
    \/ ServerReadEnd
    \/ ServerReadError
    \/ SendCheck
    \/ SendFull
    \/ SendCopy
    \/ SendLoad
    \/ SendStore
-----------------------------------------------------------------------------
(* The state manager thread *)

ManagerMoves(from, to) ==
    /\ manager = from
    /\ manager' = to

\* The thread creates the queue again, which changes nothing once main did.
ManagerCreateQueue ==
    /\ ManagerMoves("create_queue", "initialization")
    /\ CreateQueue(QueueLength, ItemSize)
    /\ UNCHANGED <<managerVars, main, serverVars, manager_count, comm_buffer,
                   clientVars, crashed, historyVars>>

ManagerInitialization ==
    /\ ManagerMoves("initialization", "check")
    /\ Initialization
    /\ UNCHANGED <<ringVars, main, serverVars, manager_count, comm_buffer,
                   clientVars, crashed, historyVars>>

\* STATE_MANAGER__update calls queue_receive with a cleared buffer of its own:
\* the test, then the copy, then the load and store of waiting_messages--.
ReceiveCheck ==
    /\ HasItem
    /\ ManagerMoves("check", "copy")
    /\ UNCHANGED <<ringVars, managerVars, main, serverVars, manager_count,
                   comm_buffer, clientVars, crashed, historyVars>>

ReceiveEmpty ==
    /\ ~HasItem
    /\ ManagerMoves("check", "execute")
    /\ UNCHANGED <<ringVars, managerVars, main, serverVars, manager_count,
                   comm_buffer, clientVars, crashed, historyVars>>

\* A copy that overlaps the server's copy into the same slot may take each
\* byte from either item.
Copied ==
    IF server = "copy" /\ write_to = Advance(read_from)
    THEN {item \in Item : \A i \in 1 .. 3 : item[i] \in {NextItem[i], buffer[i]}}
    ELSE {NextItem}

ReceiveCopy ==
    /\ ManagerMoves("copy", "load")
    /\ MoveReader
    /\ comm_buffer' \in Copied
    /\ accepted' = IF accepted = << >> THEN << >> ELSE Tail(accepted)
    /\ UNCHANGED <<length, item_size, write_to, waiting_messages, area,
                   managerVars, main, serverVars, manager_count, clientVars,
                   crashed, disturbed>>

ReceiveLoad ==
    /\ ManagerMoves("load", "store")
    /\ manager_count' = waiting_messages
    /\ UNCHANGED <<ringVars, managerVars, main, serverVars, comm_buffer,
                   clientVars, crashed, historyVars>>

ReceiveStore ==
    /\ ManagerMoves("store", "dispatch")
    /\ waiting_messages' = manager_count - 1
    /\ manager_count' = 0
    /\ Races(server)
    /\ UNCHANGED <<length, item_size, write_to, read_from, area, managerVars,
                   main, serverVars, comm_buffer, clientVars,
                   crashed, accepted>>

ManagerDispatch ==
    /\ ManagerMoves("dispatch", "execute")
    /\ Dispatch(comm_buffer)
    /\ comm_buffer' = <<0, 0, 0>>
    /\ UNCHANGED <<ringVars, main, serverVars, manager_count, clientVars,
                   crashed, historyVars>>

ManagerExecute ==
    /\ ManagerMoves("execute", "sleep")
    /\ ExecuteMission \/ ExecuteSurvival
    /\ UNCHANGED <<ringVars, main, serverVars, manager_count, comm_buffer,
                   clientVars, crashed, historyVars>>

\* A pending cancellation takes effect in sleep.
ManagerSleep ==
    /\ ManagerMoves("sleep", IF cancelled THEN "terminated" ELSE "check")
    /\ UNCHANGED <<ringVars, managerVars, main, serverVars, manager_count,
                   comm_buffer, clientVars, crashed, historyVars>>

Manager ==
    \/ ManagerCreateQueue
    \/ ManagerInitialization
    \/ ReceiveCheck
    \/ ReceiveEmpty
    \/ ReceiveCopy
    \/ ReceiveLoad
    \/ ReceiveStore
    \/ ManagerDispatch
    \/ ManagerExecute
    \/ ManagerSleep
-----------------------------------------------------------------------------
\* Nothing runs after a crash or after main returned.
Ended == crashed \/ main = "returned"

Done == Ended /\ UNCHANGED vars

Next ==
    \/ ~Ended /\ Main
    \/ ~Ended /\ Client
    \/ ~Ended /\ Server
    \/ ~Ended /\ Manager
    \/ Done

Spec == Init /\ [][Next]_vars

\* accept waits for a client.  It may fail, but need not.
ServerWaits == server = "accept" /\ conn = "none"

\* The kernel schedules every thread that can run; the client owes nothing.
Fairness ==
    /\ WF_vars(~Ended /\ Main)
    /\ WF_vars(~Ended /\ ~ServerWaits /\ Server)
    /\ WF_vars(~Ended /\ Manager)

FairSpec == Spec /\ Fairness
-----------------------------------------------------------------------------
(* Type correctness *)

ServerPlaces == {"not_started", "not_created", "socket", "accept", "read",
                 "check", "copy", "load", "store", "terminated"}

ManagerPlaces == {"not_started", "not_created", "create_queue",
                  "initialization", "check", "copy", "load", "store",
                  "dispatch", "execute", "sleep", "terminated"}

MainPlaces == {"create_queue", "start_server", "start_manager", "join_server",
               "join_manager", "returned"}

\* Every variable keeps its range; in particular the pointers of the queue
\* never leave the area, whatever the threads do to its count.
TypeOK ==
    /\ main \in MainPlaces
    /\ server \in ServerPlaces
    /\ manager \in ManagerPlaces
    /\ main = "create_queue" <=> length = 0
    /\ main \in {"create_queue", "start_server"} => server = "not_started"
    /\ main \in {"create_queue", "start_server", "start_manager"}
         => manager = "not_started"
    /\ length \in {0, QueueLength}
    /\ item_size \in {0, ItemSize}
    /\ waiting_messages \in Int
    /\ server_count \in Int
    /\ manager_count \in Int
    /\ length = 0 => write_to = 0 /\ read_from = 0 /\ waiting_messages = 0
    /\ length > 0 => write_to \in 0 .. length - 1
                     /\ read_from \in 0 .. length - 1
    /\ area \in [0 .. length - 1 -> Item]
    /\ buffer \in Item
    /\ comm_buffer \in Item
    /\ stream \in Seq(Byte)
    /\ conn \in {"none", "open", "closed", "reset"}
    /\ sent \in 0 .. MaxCommands
    /\ crashed \in BOOLEAN
    /\ cancelled \in BOOLEAN
    /\ current_state \in StateMap
    /\ commanded \in StateMap
    /\ mission_counter \in 0 .. ByteRange - 1
    /\ accepted \in Seq(Item)
    /\ disturbed \subseteq {"race", "split", "full"}
-----------------------------------------------------------------------------
(* Safety *)

Raced == "race" \in disturbed

\* Even though both threads write the count and updates get lost, it never
\* wraps below zero and never exceeds the length: each thread tests the count
\* before it copies, and what the other can store meanwhile keeps the test
\* true (queue.c:185-194 and 206-215).
CountInRange ==
    /\ waiting_messages \in 0 .. length
    /\ server \in {"copy", "load"} => waiting_messages < length
    /\ server = "store" => server_count \in 0 .. length - 1
    /\ manager \in {"copy", "load"} => waiting_messages > 0
    /\ manager = "store" => manager_count \in 1 .. length

\* The server has filled a slot that the count does not show yet.
Unstored == IF server \in {"load", "store"} THEN 1 ELSE 0

\* The manager has emptied a slot that the count still shows.
Unremoved == IF manager \in {"load", "store"} THEN 1 ELSE 0

\* As long as no update of the count was lost, the queue holds exactly the
\* items whose send has returned and whose receive has not copied them, in
\* order, at every point of both operations (queue.c:180-222), followed by
\* the item the server is sending.  The count a thread has loaded is then
\* still the current one.
FifoUnlessRaced ==
    ~Raced => /\ waiting_messages = Len(accepted) + Unremoved
              /\ server = "store" => server_count = waiting_messages
              /\ manager = "store" => manager_count = waiting_messages
              /\ length > 0 => RingAligned(Len(accepted) + Unstored)
              /\ accepted = Items(Len(accepted))
              /\ Unstored = 1 => area[Nth(Len(accepted) + 1)] = buffer

\* As long as no update was lost, the two threads never copy into and out of
\* the same slot at the same time: the queue needs no lock for its items,
\* only for its count.
CopiesDisjoint ==
    ~Raced /\ server = "copy" /\ manager = "copy"
      => write_to # Advance(read_from)

\* As long as no update was lost, what the manager receives is the oldest
\* item the server sent.
DeliversOldest ==
    [][ManagerMoves("copy", "load") /\ ~Raced
         => accepted # << >> /\ comm_buffer' = Head(accepted)]_vars

\* The slots the count shows, oldest first: they begin with the one the
\* manager has emptied while it has not stored the count yet.
Waiting == [i \in 1 .. waiting_messages |-> area[Nth(i - Unremoved)]]

\* The queue implements SharedFifo: a send takes effect when the server stores
\* the count, a receive when the manager does, and no other step of either
\* thread is seen by the other one (queue.c:180-222).
Shared == INSTANCE SharedFifo
            WITH Capacity <- QueueLength, capacity <- length, fifo <- Waiting,
                 inbox <- IF manager = "dispatch" THEN <<comm_buffer>> ELSE << >>,
                 broken <- Raced

ImplementsSharedFifo == Shared!Spec

\* Everything the client sent was read, received and obeyed.
Quiet ==
    /\ stream = << >>
    /\ conn # "reset"
    /\ server \in {"read", "terminated"}
    /\ accepted = << >>
    /\ manager \in {"check", "execute", "sleep"}

\* When every command was read as one block, none was refused and no update
\* of the count was lost, the manager ends up in the state the client asked
\* for last (README.md, state_manager.c:105-190).
CommandsTakeEffect ==
    Quiet /\ disturbed = {} => current_state = commanded

\* As long as every command was read as one block and no update of the count
\* was lost, the manager dispatches only messages the client composed
\* (state_manager.h:9-10): refused sends and resets lose whole commands.
DispatchesComposed ==
    manager = "dispatch" /\ disturbed \cap {"race", "split"} = {}
      => comm_buffer \in Messages

\* The manager thread ends only in the mission state, after exactly the
\* budgeted number of mission cycles, however the visits to the mission were
\* spread (state_mission.c:33-44): no command and no survival cycle ends it.
StopsOnlyOnBudget ==
    /\ cancelled <=> mission_counter = MaxMissionCounter
    /\ mission_counter =< MaxMissionCounter
    /\ cancelled => current_state = MISSION /\ manager \in {"sleep", "terminated"}
    /\ manager = "terminated" => cancelled
-----------------------------------------------------------------------------
(* Liveness, under FairSpec *)

\* What was sent is received, unless the manager ended or an update of the
\* count was lost.
AcceptedIsReceived ==
    (accepted # << >>)
      ~> (accepted = << >> \/ Raced \/ Ended
            \/ manager \in {"terminated", "not_created"})

\* A mission that is not left ends the manager thread.
MissionEnds ==
    (manager = "sleep" /\ current_state = MISSION)
      ~> (manager = "terminated" \/ current_state = SURVIVAL \/ Ended)

\* A server that has accepted its client reads everything the client sent before
\* it closed, also when the queue refuses some of it, and ends (tcp_server.c:77-95).
CloseEndsServer ==
    (conn = "closed" /\ server \in {"read", "check", "copy", "load", "store"})
      ~> (server = "terminated" /\ stream = << >>)
-----------------------------------------------------------------------------
(* What the headers say, and does not hold *)

\* queue.h:26: waiting_messages is the number of items currently in the
\* queue, here asked only when no thread is inside an operation of the queue.
CountIsContents ==
    server \notin {"check", "copy", "load", "store"}
    /\ manager \notin {"check", "copy", "load", "store"}
      => waiting_messages = Len(accepted)

\* state_manager.h:9-10: a message to the manager is a command code and its
\* two arguments.  The manager only dispatches messages the client composed.
DispatchesMessages ==
    manager = "dispatch" /\ ~Raced => comm_buffer \in Messages
==============================================================================
