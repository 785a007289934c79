----------------------------- MODULE SdCardStore -----------------------------
(***************************************************************************)
(* The packet store of packet_store_sdcard/packet_store_sdcard.c: a ring   *)
(* of packets in the file packet_store.bin, and in the file info.bin a     *)
(* copy of the handler that says which part of the ring is in use.  The    *)
(* handler is read back when the program starts again.                     *)
(*                                                                         *)
(* A file position is the number of its slot; head is 0 and tail the last  *)
(* slot, inclusive.  The program may stop at any moment, and the opening   *)
(* of a file may fail: an operation is cut where the files change.  The    *)
(* writes to a file reach it together, at fclose or at the next fseek.     *)
(***************************************************************************)
EXTENDS Integers, Sequences, FiniteSetsExt, SequencesExt

CONSTANTS
    MaxTm,       \* PACKET_STORE_SDCARD__C_MAX_TM_NUMBER: 5
    Time,        \* dates of the packets
    Sizes,       \* sizes of the arrays callers read into
    MaxFaults    \* bound on the stops and the failed openings

ASSUME StoreAssumption ==
    /\ MaxTm \in Nat \ {0}
    /\ Time \subseteq Nat \ {0}
    /\ Sizes \subseteq Nat
    /\ MaxFaults \in Nat

\* A packet is represented by its date.  A null element is dated 0, and so is
\* a hole of the file.
Null == 0

Handler == [write_to : 0 .. MaxTm - 1, tm_number : 0 .. MaxTm,
            oldest_tm_position : 0 .. MaxTm - 1,
            oldest_time : Time \cup {0}, newest_time : Time \cup {0}]

\* Of a program that never stored anything.
FreshHandler == [write_to |-> 0, tm_number |-> 0, oldest_tm_position |-> 0,
                 oldest_time |-> 0, newest_time |-> 0]

VARIABLES
    pc,            \* "stopped", "idle" or "update_info"
    handler,       \* PACKET_STORE_SDCARD_G_file_handler
    operation,     \* the operation in progress, "none" when idle
    answer,        \* the last operation that ended, and its code
    info,          \* info.bin: a handler
    info_exists,   \* info.bin exists
    data,          \* packet_store.bin, slot by slot
    data_exists,   \* packet_store.bin exists
    faults,        \* stops and failed openings so far
    acknowledged,  \* history: the packets the caller was told are stored
    stale,         \* history: the handler does not continue the info file
    handler_lost,  \* history: the handler counts what the file no longer has
    info_lost      \* history: the info file does

vars == <<pc, handler, operation, answer, info, info_exists, data, data_exists,
          faults, acknowledged, stale, handler_lost, info_lost>>

files == <<info, info_exists, data, data_exists>>
losses == <<handler_lost, info_lost>>
history == <<acknowledged, stale, losses>>

tail == MaxTm - 1

\* Mutant: a position goes one slot too far.
AscendingPastTail(slot) == IF slot > tail THEN 0 ELSE slot + 1

\* update_browser_ascending
Ascending(slot) == IF slot + 1 > tail THEN 0 ELSE slot + 1

\* update_browser_descending
Descending(slot) == IF slot - 1 < 0 THEN tail ELSE slot - 1

\* What a read of one element gets: null from a hole.  At the end of the file
\* it gets nothing, and what was to be read keeps its value.
Untouched == -1
At(slot) == IF slot < Len(data) THEN data[slot + 1] ELSE Untouched

\* The packets a handler counts, oldest first.
Contents(h) ==
    [i \in 1 .. h.tm_number |-> At((h.oldest_tm_position + i - 1) % MaxTm)]

Stored == Contents(handler)

\* Mutant: the file is emptied each time it is opened to be written.
WrittenEmptied(file, slot, elements) ==
    [i \in 1 .. slot + Len(elements) |->
        IF i - 1 \in slot .. slot + Len(elements) - 1 THEN elements[i - slot]
        ELSE Null]

\* The file once elements are written from a slot on: it grows as needed, by
\* nulls before the slot.
Written(file, slot, elements) ==
    IF elements = << >> THEN file
    ELSE [i \in 1 .. Max({Len(file), slot + Len(elements)}) |->
             IF i - 1 \in slot .. slot + Len(elements) - 1 THEN elements[i - slot]
             ELSE IF i =< Len(file) THEN file[i] ELSE Null]

Answer(name, code, elements) ==
    [name |-> name, code |-> code, elements |-> elements]
Reply(name, code) == answer' = Answer(name, code, << >>)

CanFail == faults < MaxFaults
Fails == CanFail /\ faults' = faults + 1
-----------------------------------------------------------------------------
Init ==
    /\ pc = "stopped"
    /\ handler = FreshHandler
    /\ operation = "none"
    /\ answer = Answer("none", 0, << >>)
    /\ info = FreshHandler
    /\ info_exists = FALSE
    /\ data = << >>
    /\ data_exists = FALSE
    /\ faults = 0
    /\ acknowledged = << >>
    /\ stale = FALSE
    /\ handler_lost = FALSE
    /\ info_lost = FALSE

(* PACKET_STORE_SDCARD_init, called once when the program starts *)

\* No info file: the handler is the one of a first use, and the file is
\* created with it.
StartFresh ==
    /\ pc = "stopped"
    /\ ~info_exists
    /\ handler' = FreshHandler
    /\ info' = FreshHandler
    /\ info_exists' = TRUE
    /\ pc' = "idle"
    /\ Reply("init", 0)
    /\ UNCHANGED <<operation, data, data_exists, faults, history>>

StartAgain ==
    /\ pc = "stopped"
    /\ info_exists
    /\ handler' = info
    /\ pc' = "idle"
    /\ Reply("init", 0)
    /\ acknowledged' = Contents(info)
    /\ handler_lost' = info_lost
    /\ UNCHANGED <<operation, files, faults, stale, info_lost>>

\* The info file cannot be opened: the caller prints the code and goes on
\* with the handler of a program that starts, statically zero but for tail.
StartFails ==
    /\ pc = "stopped"
    /\ Fails
    /\ handler' = FreshHandler
    /\ pc' = "idle"
    /\ Reply("init", -1)
    /\ stale' = info_exists
    /\ UNCHANGED <<operation, files, acknowledged, losses>>

\* The handler goes with the program.
Halt ==
    /\ pc' = "stopped"
    /\ handler' = FreshHandler
    /\ operation' = "none"
    /\ stale' = FALSE
    /\ handler_lost' = FALSE
    /\ UNCHANGED <<answer, info, info_exists, data_exists, acknowledged, info_lost>>

\* The program stops, and the files stay.
Stop ==
    /\ pc \in {"idle", "update_info"}
    /\ Fails
    /\ Halt
    /\ UNCHANGED data
-----------------------------------------------------------------------------
(* PACKET_STORE_SDCARD_store_callback *)

\* Mutant: the first packet is not noticed.
Undated(time) == handler

\* The first packet is the oldest one.  The handler says so before the file is
\* opened.
Dated(time) ==
    IF handler.tm_number = 0
    THEN [handler EXCEPT !.oldest_tm_position = handler.write_to,
                         !.oldest_time = time]
    ELSE handler

\* Mutant: a full store takes one more packet.
StoreAcceptsWhenFull(time) ==
    /\ pc = "idle"
    /\ handler.tm_number =< MaxTm
    /\ handler.tm_number = 0 \/ time >= handler.newest_time

\* Mutant: a packet older than the newest one is taken.
StoreAcceptsAnyDate(time) ==
    /\ pc = "idle"
    /\ handler.tm_number < MaxTm

StoreAccepts(time) ==
    /\ pc = "idle"
    /\ handler.tm_number < MaxTm
    /\ handler.tm_number = 0 \/ time >= handler.newest_time

StoreFull ==
    /\ pc = "idle"
    /\ handler.tm_number >= MaxTm
    /\ Reply("store", -1)
    /\ UNCHANGED <<pc, handler, operation, files, faults, history>>

StoreTooOld(time) ==
    /\ pc = "idle"
    /\ handler.tm_number \in 1 .. MaxTm - 1
    /\ time < handler.newest_time
    /\ Reply("store", -2)
    /\ UNCHANGED <<pc, handler, operation, files, faults, history>>

StoreNoFile(time) ==
    /\ StoreAccepts(time)
    /\ Fails
    /\ handler' = Dated(time)
    /\ Reply("store", 1)
    /\ UNCHANGED <<pc, operation, files, history>>

\* The element is in the file and the handler counts it; the info file does
\* not yet.  When the file cannot be opened to be changed, it is opened to be
\* created, which empties it if it exists.
Store(time) ==
    /\ StoreAccepts(time)
    /\ \/ /\ data' = Written(data, handler.write_to, <<time>>)
          /\ info_lost' = (info_lost \/ stale)
          /\ UNCHANGED <<faults, handler_lost>>
       \/ /\ data_exists /\ Fails
          /\ data' = Written(<< >>, handler.write_to, <<time>>)
          /\ handler_lost' = (handler_lost \/ handler.tm_number > 0)
          /\ info_lost' = (info_lost \/ stale \/ handler.tm_number > 0)
    /\ data_exists' = TRUE
    /\ handler' = [Dated(time) EXCEPT !.write_to = Ascending(handler.write_to),
                                      !.tm_number = handler.tm_number + 1,
                                      !.newest_time = time]
    /\ operation' = "store"
    /\ pc' = "update_info"
    /\ UNCHANGED <<answer, info, info_exists, acknowledged, stale>>
-----------------------------------------------------------------------------
(* update_info_file, at the end of a store or of a deletion *)

UpdateInfo ==
    /\ pc = "update_info"
    /\ info_exists
    /\ info' = handler
    /\ Reply(operation, 0)
    /\ acknowledged' = Stored
    /\ stale' = FALSE
    /\ info_lost' = handler_lost
    /\ operation' = "none"
    /\ pc' = "idle"
    /\ UNCHANGED <<handler, info_exists, data, data_exists, faults, handler_lost>>

\* The file does not exist or cannot be opened.  A store answers -2, a
\* deletion takes no notice.
UpdateInfoFails ==
    /\ pc = "update_info"
    /\ \/ ~info_exists /\ UNCHANGED faults
       \/ info_exists /\ Fails
    /\ Reply(operation, IF operation = "store" THEN -2 ELSE 0)
    /\ operation' = "none"
    /\ pc' = "idle"
    /\ UNCHANGED <<handler, files, history>>
-----------------------------------------------------------------------------
(* Searching the file *)

\* The k-th packet from the oldest on, and back from the newest, as the loops
\* of the two searches meet them.
FromOldest(k) == At((handler.oldest_tm_position + k) % MaxTm)
BackSlot(k) == (handler.write_to - 1 - k) % MaxTm

Indices == 0 .. handler.tm_number - 1

\* search_for_start_time_position_in_file: the position is counted from the
\* oldest one, and does not turn at the end of the ring.  A date that cannot be
\* read keeps the previous value, which was before the time.
StartHits(time) == {k \in Indices : FromOldest(k) >= time}
StartPosition(time) == handler.oldest_tm_position + Min(StartHits(time))

\* Mutant: a packet dated at the end of the period is left out.
EndHitsBefore(time) ==
    {k \in Indices : /\ At(BackSlot(k)) < time
                     /\ k = 0 \/ At(BackSlot(k)) # Untouched}

\* search_for_end_time_position_in_file.  A date that cannot be read keeps the
\* previous value, which is 0 before the first one, and then after the time.
EndHits(time) ==
    {k \in Indices : /\ At(BackSlot(k)) =< time
                     /\ k = 0 \/ At(BackSlot(k)) # Untouched}
EndPosition(time) == BackSlot(Min(EndHits(time)))

\* get_number_of_elements_between_two_position: the division is unsigned, so
\* that a negative distance becomes a huge number, of elements of 18 bytes.
Huge == 954437176   \* ((2 ^ 64) \div 18) % 2 ^ 32

NumberBetween(start, end) ==
    IF end >= start THEN end - start + 1
    ELSE LET distance == (tail - start) + end
         IN  (IF distance < 0 THEN Huge ELSE 0) + distance + 1

\* The slots met from a position on.  A position beyond the tail is followed by
\* the head.
From(start, i) ==
    IF i = 0 THEN start
    ELSE IF start > tail THEN (i - 1) % MaxTm
    ELSE (start + i) % MaxTm
-----------------------------------------------------------------------------
(* PACKET_STORE_SDCARD_read_elements_between_two_dates *)

SearchesStart(start) == start > handler.oldest_time
SearchesEnd(end) == end < handler.newest_time

NotFound(start, end) ==
    \/ SearchesStart(start) /\ (~data_exists \/ StartHits(start) = {})
    \/ SearchesEnd(end) /\ (~data_exists \/ EndHits(end) = {})

ReadStart(start) ==
    IF SearchesStart(start) THEN StartPosition(start)
    ELSE handler.oldest_tm_position

ReadEnd(end) ==
    IF SearchesEnd(end) THEN EndPosition(end) ELSE Descending(handler.write_to)

ReadNumber(start, end) ==
    IF SearchesStart(start) \/ SearchesEnd(end)
    THEN NumberBetween(ReadStart(start), ReadEnd(end))
    ELSE handler.tm_number

ReadCode(start, end, size) ==
    CASE NotFound(start, end) -> 2
      [] ~NotFound(start, end) /\ ReadNumber(start, end) > size -> -1
      [] OTHER -> IF data_exists THEN 0 ELSE 1

ReadElements(start, end) ==
    [i \in 1 .. ReadNumber(start, end) |-> At(From(ReadStart(start), i - 1))]

Read(start, end, size) ==
    /\ pc = "idle"
    /\ LET code == ReadCode(start, end, size)
       IN  answer' = Answer("read", code,
                       IF code = 0 THEN ReadElements(start, end) ELSE << >>)
    /\ UNCHANGED <<pc, handler, operation, files, faults, history>>

\* The data file cannot be opened: 2 for a search, 1 to read.
ReadNoFile(start, end, size) ==
    /\ pc = "idle"
    /\ Fails
    /\ \/ /\ SearchesStart(start) \/ SearchesEnd(end)
          /\ Reply("read", 2)
       \/ /\ ReadCode(start, end, size) = 0
          /\ Reply("read", 1)
    /\ UNCHANGED <<pc, handler, operation, files, history>>
-----------------------------------------------------------------------------
(* PACKET_STORE_SDCARD_delete_up_to_time *)

\* Everything goes: nulls are written from the oldest element on, without
\* turning at the end of the ring.
DeleteAll(time) ==
    /\ pc = "idle"
    /\ time >= handler.newest_time
    /\ data_exists
    /\ data' = Written(data, handler.oldest_tm_position,
                       [i \in 1 .. handler.tm_number |-> Null])
    /\ handler' = FreshHandler
    /\ operation' = "delete"
    /\ pc' = "update_info"
    /\ stale' = TRUE
    /\ handler_lost' = FALSE
    /\ UNCHANGED <<answer, info, info_exists, data_exists, faults, acknowledged, info_lost>>

\* Mutant: one packet too many is erased.
DeleteStopOneMore(time) ==
    NumberBetween(handler.oldest_tm_position, EndPosition(time)) + 1

DeleteStop(time) ==
    NumberBetween(handler.oldest_tm_position, EndPosition(time))

\* The file once the first count elements from the oldest one are erased.
Erased(count) ==
    LET slots == {From(handler.oldest_tm_position, i) : i \in 0 .. count - 1}
        written == Written(data, Max(slots), << Null >>)
    IN  IF count = 0 THEN data
        ELSE [i \in DOMAIN written |-> IF i - 1 \in slots THEN Null ELSE written[i]]

DeletesSome(time) ==
    /\ pc = "idle"
    /\ time < handler.newest_time
    /\ data_exists
    /\ EndHits(time) # {}

DeleteSome(time) ==
    /\ DeletesSome(time)
    /\ data' = Erased(DeleteStop(time))
    /\ LET oldest == From(handler.oldest_tm_position, DeleteStop(time))
           read == IF oldest < Len(data') THEN data'[oldest + 1]
                   ELSE handler.oldest_time
       IN  handler' = [handler EXCEPT
                          !.tm_number = handler.tm_number - DeleteStop(time),
                          !.oldest_tm_position = oldest,
                          !.oldest_time = read]
    /\ operation' = "delete"
    /\ pc' = "update_info"
    /\ stale' = TRUE
    /\ UNCHANGED <<answer, info, info_exists, data_exists, faults, acknowledged, losses>>

\* The program stops between two of the erasures: each is written to the file
\* by the seek that follows.
StopWhileErasing(time) ==
    /\ DeletesSome(time)
    /\ Fails
    /\ \E count \in 1 .. DeleteStop(time) : data' = Erased(count)
    /\ Halt

\* Nothing is that old, or the file cannot be opened: 2 from the search, 1 to
\* erase.
DeleteRefused(time) ==
    /\ pc = "idle"
    /\ LET all == time >= handler.newest_time
       IN  \/ /\ data_exists /\ ~all /\ EndHits(time) = {}
             /\ Reply("delete", 2)
             /\ UNCHANGED faults
          \/ /\ ~data_exists
             /\ Reply("delete", IF all THEN 1 ELSE 2)
             /\ UNCHANGED faults
          \/ /\ data_exists /\ Fails
             /\ \/ Reply("delete", 1) /\ (all \/ EndHits(time) # {})
                \/ Reply("delete", 2) /\ ~all
    /\ UNCHANGED <<pc, handler, operation, files, history>>
-----------------------------------------------------------------------------
Next ==
    \/ StartFresh \/ StartAgain \/ StartFails \/ Stop
    \/ StoreFull
    \/ \E time \in Time :
          StoreTooOld(time) \/ StoreNoFile(time) \/ Store(time)
    \/ UpdateInfo \/ UpdateInfoFails
    \/ \E start, end \in Time, size \in Sizes :
          Read(start, end, size) \/ ReadNoFile(start, end, size)
    \/ \E time \in Time :
          \/ DeleteAll(time) \/ DeleteSome(time)
          \/ StopWhileErasing(time) \/ DeleteRefused(time)

Spec == Init /\ [][Next]_vars
-----------------------------------------------------------------------------
\* The handler stays inside the ring, in memory and in the info file, whatever
\* the faults.
TypeOK ==
    /\ handler \in Handler
    /\ info \in Handler
    /\ pc \in {"stopped", "idle", "update_info"}
    /\ operation = "none" <=> pc # "update_info"
    /\ data \in Seq(Time \cup {Null}) /\ Len(data) < 2 * MaxTm
    /\ faults \in 0 .. MaxFaults

\* Null elements first, where packets were erased, then packets in the order of
\* their dates.
HolesThenPackets(elements) ==
    \A i \in 1 .. Len(elements) - 1 : elements[i] =< elements[i + 1]

\* The handler and the data file agree, across restarts and failed openings:
\* the counted packets fill the slots up to write_to, in the order of their
\* dates, and the dates of the handler are those of the two ends, by which a
\* read decides whether to search (packet_store_sdcard.c:329-333).  Erased
\* packets that are still counted, after a stop within a deletion, lie at the
\* oldest end.
HandlerMatchesData ==
    ~handler_lost /\ handler.tm_number > 0 =>
        /\ handler.write_to =
              (handler.oldest_tm_position + handler.tm_number) % MaxTm
        /\ \A i \in 1 .. handler.tm_number : Stored[i] \in Time \cup {Null}
        /\ HolesThenPackets(Stored)
        /\ Stored[1] # Null => Stored[1] = handler.oldest_time
        /\ Stored[handler.tm_number] \in {handler.newest_time, Null}

\* What a program that starts again finds is what the last successful store or
\* deletion left.  The slot a store writes is not one that the info file counts;
\* a deletion that is not in the info file has taken packets from the oldest
\* side only; and a start that could not read the file has changed nothing yet.
InfoKeepsAcknowledged ==
    ~info_lost /\ info_exists =>
        /\ Len(Contents(info)) = Len(acknowledged)
        /\ \E k \in 0 .. Len(acknowledged) :
              /\ \A i \in 1 .. k : Contents(info)[i] = Null
              /\ \A i \in k + 1 .. Len(acknowledged) :
                    Contents(info)[i] = acknowledged[i]
              /\ pc # "stopped" /\ ~stale => k = 0

\* The packets the handler counts are all in the file.
Whole == ~handler_lost /\ \A i \in 1 .. handler.tm_number : Stored[i] # Null

\* The packets of a period, by their numbers from the oldest one on.
InPeriod(start, end) == {i \in 1 .. handler.tm_number : Stored[i] \in start .. end}

\* When the start position found lies in the ring and the period has a packet, a
\* read answers with the packets of the period, in their order, or that there
\* are too many.  The last of them may be missing when the period turns at the
\* end of the ring.
ReadsPeriodButLast ==
    \A start, end \in Time, size \in Sizes :
        /\ pc = "idle" /\ Whole
        /\ InPeriod(start, end) # {} /\ ReadStart(start) =< tail
        => \E first, last \in 1 .. handler.tm_number :
              /\ first =< last
              /\ \/ InPeriod(start, end) = first .. last
                 \/ /\ InPeriod(start, end) = first .. last + 1
                    /\ handler.oldest_tm_position + last >= MaxTm
              /\ IF last - first + 1 =< size
                 THEN /\ ReadCode(start, end, size) = 0
                      /\ ReadElements(start, end) = SubSeq(Stored, first, last)
                 ELSE ReadCode(start, end, size) = -1

\* A deletion takes packets from the oldest side only, none dated after the time,
\* and leaves at most one that is not, even when the used slots turn at the end
\* of the ring (packet_store_sdcard.c:310).
DeletesOldestOnly ==
    [][\A time \in Time : ~handler_lost /\ (DeleteAll(time) \/ DeleteSome(time)) =>
          \E k \in 0 .. handler.tm_number :
             /\ Stored' = SubSeq(Stored, k + 1, handler.tm_number)
             /\ \A i \in 1 .. k : Stored[i] =< time
             /\ \A i \in k + 2 .. handler.tm_number : Stored[i] > time]_vars

\* A store adds its packet after the others and damages none of them.
StoreAppends ==
    [][\A time \in Time : ~handler_lost' /\ Store(time) =>
          Stored' = Append(Stored, time)]_vars

\* The packets among the elements a handler counts, behind the last that was
\* erased.
Packets(elements) ==
    LET holes == {i \in DOMAIN elements : elements[i] = Null}
    IN  SubSeq(elements, Max({0} \cup holes) + 1, Len(elements))

\* The store implements DurableLog: what the program counts is the working log,
\* and what a restart would find the durable one.
Log == INSTANCE DurableLog
          WITH running <- pc # "stopped",
               behind <- stale,
               working <- IF handler_lost THEN <<Null>> ELSE Packets(Stored),
               durable <- IF info_lost THEN <<Null>>
                          ELSE IF info_exists THEN Packets(Contents(info))
                          ELSE << >>,
               Packet <- Time, Lost <- <<Null>>

ImplementsLog == Log!Spec
-----------------------------------------------------------------------------
(* What a comment of the code says, and does not hold *)

\* packet_store_sdcard.c:414: a read up to the newest packet gets all the
\* elements from the start element previously found to the last one.
ReadsUpToTheLast ==
    \A start, end \in Time, size \in Sizes :
        LET getsAllFrom == /\ pc = "idle" /\ ~handler_lost
                           /\ SearchesStart(start) /\ ~SearchesEnd(end)
                           /\ ReadCode(start, end, size) = 0
        IN  getsAllFrom =>
                \E first \in 1 .. handler.tm_number :
                   /\ Stored[first] >= start
                   /\ first > 1 => Stored[first - 1] < start
                   /\ ReadElements(start, end) =
                         SubSeq(Stored, first, handler.tm_number)
=============================================================================
