# Verification of aletowk-c-complete

TLA+ models of the C program of this repository, the TLC runs that check them
on small instances, and proofs, checked by TLAPS, of what holds for instances
of every size. Paths below are relative to the repository's `src/` unless they
name a module of this directory.

## 1. The system

The repository holds one threaded program (`mains/main_thread.c`) and several
self-contained libraries, each with a test function that `main.c` may call.

| Component | State | Operations | Interaction |
|---|---|---|---|
| Message queue, `queue/` | one static `QUEUE` over a static area: length, item size, write and read pointers, count of waiting messages | `create_queue`, `queue_send`, `queue_receive`, `print_queue` | called by main, the server thread and the manager thread, without a lock |
| TCP server, `tcp_server/` | the queue it sends to, the socket, a stream buffer | one thread: socket, bind, listen, accept, then read and `queue_send` for ever | reads what its only client sends; producer of the queue |
| State manager, `state_manager/` | current state (survival or mission), a counter of cycles for each | one thread: each second receives at most one item, dispatches it, runs the callback of the state | consumer of the queue; ends itself on a fatal code |
| Threaded main, `mains/` | the thread handles | creates the queue and the two threads, joins both | starts the others |
| RAM storage, `ram_storage/` | a ring of dated elements in a static array | init, write, read and delete by time, oldest and newest time | called by one thread |
| SD card packet store, `packet_store_sdcard/` | a ring of dated packets in a file, a handler in memory and a copy of it in a second file | init, store, read and delete by time | called by one thread; its files outlive the program |
| Binary search, `binary_search/` | none | search of a sorted array with a comparator | called by `main.c` |
| Telemetry cutting, `cut_tm/` | the parts of a file and their total size, both static, and a saved file | cut, save, reconstruct | called by one thread; its files outlive the program |
| Static allocation, `static-allocation/` | next free address and space left in a static pool | init, malloc | called by one thread |
| `common/` | none | prints bytes | |

What is hard here, and what a correct component owes:

- *The queue between two threads.* The producer and the consumer change the
  count with `++` and `--` and no lock (the Makefile builds with `-O0`: a load,
  then a store). A lost update must not send a pointer out of the area or wrap
  the count; while none is lost, what comes out must be what went in, in order.
- *The stream.* `read` returns any part of what arrived, and the server treats
  each return as one command.
- *Ends.* The end of a connection must end the server, a used-up mission must
  end the manager, and no command may.
- *Rings.* Three components keep a ring whose full and empty states have the same
  pointers. Two search it by time, and count what lies between two positions of
  it with case distinctions at the end of the ring.
- *Files.* The SD card store changes two files one after the other: the program
  may stop in between, or one may not open. A store that follows such a failure
  must not lose more than it has to, and where it does the models say what.
- *What stays from call to call.* The cutting adds to a size that is never reset
  and reads back a file that may be an older one; the allocator takes sizes as
  signed numbers.

`PROJECT.json` lists these hazards one by one with their lines and the
properties that watch them.

## 2. The modules

| Module | Models | |
|---|---|---|
| `QueueRing` | `queue/queue.c` | the pieces of the queue's operations: no specification of its own |
| `BoundedFifo` | | what a bounded FIFO promises: the abstract specification of the queue |
| `SharedFifo` | | what a queue without a lock promises two threads: the operations of a FIFO, each at one moment, until an update of the count is lost |
| `CommQueue` | `queue/queue.c` | whole operations by one caller; refines `BoundedFifo` |
| `StateManager` | `state_manager/` | states, transition maps, dispatch and callbacks: no specification of its own |
| `CommandPath` | `mains/main_thread.c`, `tcp_server/`, and the queue and the manager | composes `QueueRing` and `StateManager`: main, both threads and a client; refines `SharedFifo` |
| `TimeStore` | | what a store of dated elements promises, and by how many elements a read or a deletion may stop too early |
| `RamStorage` | `ram_storage/` | refines `TimeStore` |
| `DurableLog` | | what a log of packets that outlives its program promises, how much a deletion may leave, and the two faults the log does not survive |
| `SdCardStore` | `packet_store_sdcard/` | the store, its two files, stops and failed openings; refines `DurableLog` |
| `CutTm` | `cut_tm/` | cutting, saving and rebuilding, call after call and program after program |
| `StaticPool` | `static-allocation/` | the allocator, with negative sizes and repeated initializations |
| `BinarySearch` | `binary_search/` | the loop of the search, for every sorted array |
| `SequenceFacts` | | lemmas about remainders and sequences |
| `CommQueueProofs`, `CommandPathProofs`, `RamStorageProofs`, `SdCardStoreProofs`, `CutTmProofs`, `StaticPoolProofs`, `BinarySearchProofs` | | theorems and proofs |
| `MC...` | | the instances TLC checks |

Definitions named a *Mutant* in their comment are no part of a model. Each is a
plausible bug, put in the place of the definition that follows it to see that a
property notices it.

### From the code to the models

*Queue.* A pointer is the number of the slot it points to; `head` is 0 and
`tail` is `length`. Copies and advances are always by `item_size` bytes, so that
no pointer is ever inside a slot. `create_queue`'s product is taken modulo
`UintRange`, and each return code has its case in `CreateCode`.

*Command path.* A step is one access of a thread to something another one
sees. For `queue_send` these are the test of the count (`SendCheck`,
`SendFull`), the copy and the move of the write pointer (`SendCopy`; the
manager never reads that pointer), the load and the store of the count. The
same holds for `queue_receive`. The copies of the two threads may overlap: a
`ReceiveCopy` while the server is about to copy into the same slot may take
each byte from either item. The accesses are taken to be sequentially
consistent: on every path between a store of the count and the thread's next
load of it there is a system call (`read` or `sleep`). `pthread_cancel` of the
thread itself is deferred, as is the default: it takes effect in the next call
that can be cancelled (`ManagerSleep`, the next `read` or `accept`).
`ServerReadError` is a `read` that returns -1: the bytes are then printed with
the length 2^32 - 1, beyond any buffer; the process is taken to be killed, and
so it is when `pthread_join` follows the handle of a thread that was not
created. The history variables are `accepted` (items sent and not received),
`disturbed` (what has happened that may lose a command: a lost update of the
count, a read that returned something else than one command, a full queue) and
`commanded` (the last state the client asked for).

*RAM storage.* An address is the index of its slot; each operation is one
action, for the module has one caller at a time. The searches, which are loops
over the ring, are sets of ages counted back from the newest element; the
first element a loop meets is the minimum. `IsRecent` is an assumption on
callers: they date with a clock, as the self test does. `Capacities` has no 0.

*SD card store.* A file position is the number of its slot, a packet is its
date. `fseek` and `fclose` are where bytes reach a file, which decides the
steps: a store changes the packet file (`Store`) and then the info file
(`UpdateInfo`); erasing some packets seeks before each of them, so that the
program can stop after any of them (`StopWhileErasing`), whereas erasing all of
them is one buffered write. Any opening may fail, and `Stop` loses the handler
and keeps the files. `update_info_file` opens the info file to be changed, which
fails when there is none: `UpdateInfoFails`.
The initialization ends by writing to the constant `null_element`
(`packet_store_sdcard.c:171`), which has no defined effect: that the program goes
on, and that it stops right there (`Stop` before any operation), are both in the
model.

Four history variables say what the caller may rely on. `acknowledged` is what the
last store or deletion that ended well left stored. The code does nothing about
three states of its data, and each has a variable of its own, so that a property
excludes exactly the state it does not survive. `stale`: the handler in memory does
not continue the one in the info file, for a deletion was not saved there or the
file could not be read at a start. `handler_lost`: the packet file was emptied,
because it could only be opened by creating it, while the handler counted packets.
`info_lost`: the info file counts what the packet file no longer has, because a
store was made in one of the two other states. A later successful save, or a
restart, ends each of them where the code does.

*Telemetry cutting.* A byte is the telemetry it comes from and its place there.
The two fields of a header are one thing of `HeaderSize` bytes, of which the model
keeps the number of parts. The byte at a place of a part lies at the same
position of the array, of the saved file and of the packet that the
reconstruction reads. `output_cut_tm` and `output_size` are static and stay from
cut to cut; the saved file and the rebuilt one stay from program to program. The
program may stop between two steps or while it saves, and each file may fail to
open. Where the code would write or read beyond the array or its buffer
(`CutOverruns`, `SaveOverruns`, `ReconstructOverruns`) nothing is known of what
follows: the model ends that program.

*Static allocation.* An address is a distance from the first byte of the pool or,
before the first initialization, from the null pointer; `base` says which. A
size is any number of an int, as the parameter is signed; the difference it is
compared by wraps, as the Makefile's `-O0` makes it. The history variables are the
blocks handed out since the last initialization and `given_back`, set once a
negative size was asked for.

*Binary search.* Addresses are indices. One action is one turn of the loop.

## 3. The runs

| Run | Shows | Instance |
|---|---|---|
| `comm_queue` | the queue of one caller implements `BoundedFifo` | lengths 0 to 4, item sizes 0 to 3, an area of 9 bytes, two kinds of item: every code of `create_queue`, both wraps, both limits |
| `command_path` | ranges, contents, disjoint copies, order, effect of commands, end of the mission; the shared queue implements `SharedFifo`; what is dispatched was composed by a client; commands are received, missions end, and the server reads all that was sent before a close and ends | two slots, two commands out of four, a budget of two cycles |
| `command_path_count` | the count may differ from the contents for good | the same |
| `command_path_frames` | the manager may dispatch bytes nobody composed | the same |
| `ram_storage` | the storage implements `TimeStore`, and is exact while its elements do not cross the end of the ring | an array of six, storages of three and six and one that is too long, three dates, readers of two and six elements |
| `ram_storage_delete` | a deletion may leave an element it should delete | the same |
| `sdcard` | the store implements `DurableLog`; handler, info file and packet file agree across stops and failures; store, read and delete do what they should | a ring of three, three dates, two faults |
| `sdcard_read` | a read to the newest packet may miss packets | the same |
| `cut_tm` | when the telemetry cut last comes back, but for a full last part, and when the reconstruction overruns its buffer; the first cut of a program loses nothing but a full last part | headers of one byte, two parts of three bytes, telemetries of 0, 1, 3, 4, 5 and 7 bytes, two cuts, two faults |
| `cut_tm_full` | a full last part is lost | the same |
| `static_pool` | no byte is handed out twice, and a size is granted exactly when it is free | a pool of four bytes, sizes -8, -1, 0, 1, 2, 4 and 5, four blocks, integers of four bits |
| `binary_search` | the search is right, halves what is left and returns | arrays of up to five of four values |

Bounds. `MaxCommands` bounds what the client sends, `MaxFaults` what goes wrong with
the files, `MaxCuts` the cuts of one program and `MaxCalls` the blocks handed
out; the other constants are sizes. Two slots are enough for
a full queue with one item in the hands of each thread, and two commands for a
race of both operations; the proofs cover the other lengths. A ring of three
slots has periods that cross the end with neither end there, which is where the
code counts wrong; a RAM storage of six is the smallest in which both of its
counts go wrong in one read, so that the 3 of `ReadSlack` is reached, as the 1 of
`DeleteSlack` is (TLC finds each violated when it is lowered by one). Two faults allow a second one after the restart
that follows the first. The telemetries of `cut_tm` end inside a part, at its end,
and beyond the array; with two cuts and two faults one is rebuilt from an older
file, from an earlier program's, and with a size too large by little and by much.
The pool can be used up byte by byte or at once. TLC's integers have 32 bits, so `UintRange` is 2^16 in
the runs; no product of a run comes near it but in `comm_queue`, which lowers it
to 16.

Deadlock is checked in every run. `CommandPath` and `BinarySearch` stutter in
`Done` once the program has ended; nothing else can stop. A thread that waits
for ever (the server in `accept` with no client) does not stop the manager,
whose loop never blocks.

Fairness. `command_path` assumes weak fairness of main, of the server and of
the manager: the kernel runs each thread that can run. The client owes nothing:
it may never connect, send or close, and it sends at most `MaxCommands` commands.
While no client has connected the server owes nothing either, for `accept` may
wait for ever and need not fail (`ServerWaits`). `CloseEndsServer` is about a server
that has accepted its client; one whose `accept` failed ends without reading.
`binary_search` assumes that its loop goes on.

### What does not hold

Five runs end in a counterexample. Each compares the code with a line of the
repository.

- `CountIsContents` against `queue/queue.h:26`. Server and manager load the
  same count, and the second store hides the first. From then on the count is
  one too high or too low: the manager receives slots that hold no new item, or
  leaves the last item where it is.
- `DispatchesMessages` against `state_manager/state_manager.h:9-10`. A command
  split over two reads gives two items, each filled up with old bytes of the
  buffer. (Of two commands in one read the first arrives whole and the second is
  lost, which this property does not see and `CommandsTakeEffect` excludes.)
- `DeletesWholePeriod` against `ram_storage/ram_storage.c:615`. Elements at the
  last but one, last, first and second slot are counted as three.
- `ReadsUpToTheLast` against `packet_store_sdcard/packet_store_sdcard.c:414`. The
  number of packets between a position and an earlier one is one short, and the
  start position may lie beyond the last slot.
- `FirstCutRebuildsAll` against `cut_tm/cut_tm.c:72`. The last part of a telemetry gets
  the remainder as its size, 0 when it is full like the others: a telemetry whose
  size is a multiple of the size of a part loses its last part.

What does hold, and is proved, next to them:

- `ImplementsSharedFifo`: until the first lost update the count and the items are
  those of a FIFO, whatever the interleaving.
- `DispatchesComposed`: when reads fall between commands and no update of the count
  is lost, only composed messages are dispatched. A full queue and a reset
  connection lose commands, but whole ones.
- `ReadsWholePeriodWhenStraight` and `DeletesWholePeriodWhenStraight`: reads and
  deletions of the RAM storage are exact when the elements do not cross the end of
  the ring.
- `ImplementsStore`, `DeletesOldestOnly` and `ImplementsLog` bound the error when
  they do cross it: a read of the RAM storage misses at most the last three
  elements of its period, and a deletion, of either store, leaves at most the last
  one.
- `ReadsPeriodButLast`: a read of the SD card whose start position lies in the ring,
  for a period that has a packet, misses at most the last packet, and that only
  when the period turns at the end of the ring. A start position beyond the ring
  has no such statement: what the file has there, if anything, is then the first
  element of the answer.
- `FirstCutRebuildsExactly`: the first cut of a program loses no byte but those of a
  full last part, adds none and overruns nothing.
- `RebuildsTelemetry`: a later cut comes back in the same way, with some bytes behind
  it, exactly as long as the packets of the program's earlier cuts fit in what its
  last part leaves free, 232 bytes at most. That is the case of small telemetries
  only: a cut of two parts or more makes every later one of the program overrun,
  unless it is of no byte. The comment at `cut_tm/cut_tm.c:167`, by which less than a
  packet remains to be read, then does not hold, for nothing resets `output_size`.
  (`test_cut_tm` cuts once, and `main.c` calls it at most once; the functions of the
  header can be called again.)

The self tests of the queue (`queue/queue.c:19-115`) create it for `nb_items` items, send
`nb_items + 1` and assert that each send answers 0 (`queue.c:29-32`, 62-65, 95-98),
then receive `nb_items + 1` and assert the same (39-42, 71-74, 104-107). The code takes
`nb_items` items and answers the last send and the last receive with -1: the last
turn of each of these loops reports a failed assertion. `BoundedFifo` states what the
code does, a queue that takes as many items as it was created for, which is also
what the header says of its length ("in item", `queue/queue.h:22`), and
`ImplementsFifo` holds of that, not of what the tests expect. No run is spent on the
disagreement: every trace of `comm_queue` that fills the queue shows it.

The comment of `update_info_file` (`packet_store_sdcard.c:581`) says that a file
that is not there is created, where the mode of its `fopen` does not create one.
This is one opening like another, read off the code; no run is spent on it.

## 4. The proofs

TLAPS checks every theorem for all values of the constants that satisfy the
named assumptions (`SizeAssumption`, `CallerAssumption`, `CounterAssumption`,
`PathAssumption`, `StorageAssumption`, `StoreAssumption`, `CutAssumption`,
`PoolAssumption`, `SearchAssumption`): sizes are natural numbers, positive where
the code divides by them or needs a slot. TLC evaluates each of them.

*`CommQueueProofs`.* `TypeOK` alone is not inductive: a count in range does not
keep the pointers together. The invariant adds `RingInv`, by which the write
pointer is the count plus one slots after the read pointer, modulo the length.
The wraps are settled once, by `SmallModulus` in `SequenceFacts`: a number below
three times the length is a remainder or a remainder plus the length once or
twice. `Implements` then maps each operation to the operation of `BoundedFifo`
with the contents of `print_queue` as its sequence: a send appends to it, a
receive takes its head, a refusal leaves it.

*`CommandPathProofs`.* The count has an argument of its own, which needs no
contents: between its test and its store the server knows `waiting_messages <
length`, and the manager `waiting_messages > 0`. Either may be made stale, but
only by a store of the other thread's, whose loaded count lies in the range that
keeps both true; `CountInRange` says so for every place of both threads. On
top of it `FifoUnlessRaced` describes the ring at every point of both
operations: what the pointers delimit is `accepted`, plus the item being
sent. `CopiesDisjoint` and `DeliversOldest` follow from it, and
`StopsOnlyOnBudget` is inductive with the type invariant. `SharedQueueCorrect` is
the refinement of `SharedFifo`: the queue is linearizable until an update is lost.
A send takes effect where the server stores the count, a receive where the manager
does; the abstract contents are the slots the count shows, beginning with the one
the manager has just emptied while its store is to come. Two facts carry the
proof besides `FifoUnlessRaced`. The slot the manager emptied still holds what it
copied until its store (`SlotInv`): the server copies elsewhere, because its test
of the count still holds (`SendCopySparesSlot`). And every step but the two stores is
unseen: it moves a pointer of its own or fills a slot the count does not show
(`SendCopyUnseen`, `ReceiveCopyUnseen`). `ComposedCorrect` needs to know of every place
a message passes, hence `ComposedInv`: the stream, the buffer of the server while
it sends, what the queue holds, and the buffer of the manager when it
dispatches are made of whole messages. `CommandsTakeEffect`
speaks of a quiet system only, so its invariant (`EffectInv`) follows a command
from the client to the state: what the client asked for last is where the commands
under way lead when they are dispatched one after the other, first the one the
manager holds, then those in the queue, the one the server holds, and those of the
stream. A step of either thread moves a command from one of these to the next.

*`RamStorageProofs`.* The invariant is `TypeOK` and that times do not increase with
the age. The count the code makes between two positions is right, or one less when
the end of the ring lies between them (`BetweenAges`); the reach of the search for
the end of a read is right or up to two less (`DistanceAges`). A read or a deletion
therefore stops at the latest at the end of its period, everything it touches is in
the period, and what it misses is bounded, by two and one for a read and by one for
a deletion: this is `StorageImplements`. It is the whole period when the count is right,
as it is when the elements do not cross the end: these are `StraightReads` and
`StraightDeletes`.

*`SdCardStoreProofs`.* The invariant (`SdInv`) relates both handlers to the packet
file. Unless it is lost, each counts elements in the order of their dates behind
nulls at the oldest end; and the handler in memory is ahead of the one in the info
file by some number of elements of its oldest side, which are then null for the
info file. That the deletions of a program which does not save them keep the info
file's packets in this shape needs the third fact, that as long as `stale` is
not set the two handlers differ by at most the store under way. `StoreImplements` maps
both handlers to logs, the packets behind the last null each counts; a deletion
takes packets from the oldest side of both logs at once (`ErasedRemain`), leaves one
packet of those it should take at most (`DeletedElements`), and what
was lost in the packet file was lost for the info file too (`Flags`).
`PeriodReads` locates the first and the last packet of a period by the minima of
the two searches; the count between them is exact, or one short when the period
turns at the end of the ring, and the answer is then the period without its last
packet.

*`CutTmProofs`.* The bytes of part and place are the quotient and the remainder of
their position; a part that is saved holds, up to what was cut, the bytes of the
telemetry cut last, whatever the rest of the array kept of earlier ones. The last
packet seems longer than it is by `EarlierPackets`, which the invariant keeps from
being negative and, after a first cut, at 0: `OverrunsWhenTooMany` and
`LengthOfRebuilt` give both sides of `RebuildsTelemetry`.

*`StaticPoolProofs`.* While the pool is initialized and nothing was given back the
blocks follow one another without a gap up to the pointer: they are disjoint, and
together they are all that is not left. The count stays in the range of an int,
for a difference that is too large wraps below zero and is refused.

*`BinarySearchProofs`.* What lies under the low bound is smaller than the item and
what lies from the high bound on is greater; this is inductive because the array
is in order, and when the bounds meet no element is left.

Only model-checked: liveness (`AcceptedIsReceived`, `MissionEnds`, `CloseEndsServer`,
`Returns`), whose proofs need ENABLED, and the five counterexamples. No module
declares a RECURSIVE operator, and the properties of the stores speak of positions
(`SubSeq`, sets of indices) rather than of folds over sequences, so that the proofs
need no induction over data.

## 5. Not modelled

- The self tests (but for what they assert of the queue), the printing and `get_element_in_file`, which nothing calls.
- Failing or short `fread` and `fwrite` on a file that did open.
- Weak memory effects beyond lost updates and torn copies of the queue.
- Second and later clients: the server accepts once.

## 6. Plan

The order is that of importance: the queue and the two threads first, for all
the concurrency is there, then the stores, where the code's case distinctions
are, then the pure algorithms.

Everything planned is done: all components that keep state are modelled, and
every safety property of the passing runs, refinements included, is a theorem as
well. What is left out is listed in section 5, with the reason.
