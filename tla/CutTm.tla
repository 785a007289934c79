-------------------------------- MODULE CutTm --------------------------------
(***************************************************************************)
(* The cutting of a telemetry of cut_tm/cut_tm.c: test_cut_tm cuts a file  *)
(* into parts with a header each, saves the parts to out_file.bin, and     *)
(* rebuilds the telemetry from that file.  The parts and output_size are   *)
(* static: they stay from one call to the next, and the saved file from    *)
(* one program to the next.  A file may fail to open, and the program may  *)
(* stop anywhere.                                                          *)
(*                                                                         *)
(* A byte is the telemetry it comes from and its place there.  The byte of *)
(* place place in packet number part is at part * PacketSize + place, in   *)
(* the array as in the file.                                               *)
(***************************************************************************)
EXTENDS Integers, Sequences, FiniteSetsExt

CONSTANTS
    HeaderSize,   \* of the fields total and part: 8
    PartSize,     \* C__MAX_PART_SIZE: 232
    MaxParts,     \* C__MAX_PARTS_NUMBER: 255
    Telemetries,
    FileSizes,    \* sizes of the telemetries
    MaxCuts,      \* bound on the cuts of one program
    MaxFaults     \* bound on the stops and the failed openings

ASSUME CutAssumption ==
    /\ HeaderSize \in Nat \ {0}
    /\ PartSize \in Nat \ {0}
    /\ MaxParts \in Nat
    /\ Telemetries # {}
    /\ FileSizes \subseteq Nat
    /\ MaxCuts \in Nat
    /\ MaxFaults \in Nat

\* LPUS_TM_CONFIGURATION__C_MAX_TOTAL_LENGTH
PacketSize == HeaderSize + PartSize

Parts == 0 .. MaxParts - 1
Places == 0 .. PartSize - 1      \* of a part's bytes, after the header

Zero == << >>                    \* a byte nothing was written to
Byte == (Telemetries \X Nat) \cup {Zero}

VARIABLES
    pc,              \* "off", "idle", "cut", "saved", "unsaved" or "overrun"
    total,           \* the first field of the packets of output_cut_tm
    output_cut_tm,   \* the bytes of the parts
    output_size,
    original,        \* the telemetry that was cut last, and its size
    saved,           \* out_file.bin: a size, the total field and the parts
    reconstructed,   \* out_reconstructed.bin
    cuts,            \* cuts of the running program
    faults

vars == <<pc, total, output_cut_tm, output_size, original, saved,
          reconstructed, cuts, faults>>

array == <<total, output_cut_tm, output_size>>

Empty == [part \in Parts |-> [place \in Places |-> Zero]]

Fails == faults < MaxFaults /\ faults' = faults + 1

Init ==
    /\ pc = "off"
    /\ total = 0
    /\ output_cut_tm = Empty
    /\ output_size = 0
    /\ original = [telemetry |-> CHOOSE t \in Telemetries : TRUE, size |-> 0]
    /\ saved = [size |-> 0, total |-> 0, parts |-> Empty]
    /\ reconstructed = << >>
    /\ cuts = 0
    /\ faults = 0

\* A program starts: what is static is zero, what is in files stays.
Start ==
    /\ pc = "off"
    /\ pc' = "idle"
    /\ total' = 0
    /\ output_cut_tm' = Empty
    /\ output_size' = 0
    /\ cuts' = 0
    /\ UNCHANGED <<original, saved, reconstructed, faults>>

\* The program ends, or is ended after an overrun.
End ==
    /\ pc \in {"idle", "overrun"}
    /\ pc' = "off"
    /\ UNCHANGED <<array, original, saved, reconstructed, cuts, faults>>

\* The program stops between two of its steps.
Stop ==
    /\ pc \in {"cut", "saved", "unsaved"}
    /\ Fails
    /\ pc' = "off"
    /\ UNCHANGED <<array, original, saved, reconstructed, cuts>>
-----------------------------------------------------------------------------
(* cut_the_tm *)

\* Mutant: the bytes that do not fill a part get none.
NumberOfFullParts(size) == size \div PartSize

NumberOfParts(size) ==
    (size \div PartSize) + (IF size % PartSize # 0 THEN 1 ELSE 0)

\* The bytes of one part: the last one gets what remains.
LengthOfPart(part, size) ==
    IF part # NumberOfParts(size) - 1 THEN PartSize ELSE size % PartSize

\* Mutant: the headers are not counted.
PacketBytesWithoutHeaders(size) ==
    IF size = 0 THEN 0
    ELSE (NumberOfParts(size) - 1) * PartSize
           + LengthOfPart(NumberOfParts(size) - 1, size)

\* Mutant: a telemetry of no byte has a last part too.
PacketBytesUnguarded(size) ==
    (NumberOfParts(size) - 1) * PacketSize + HeaderSize
        + LengthOfPart(NumberOfParts(size) - 1, size)

\* What a cut adds to output_size.
PacketBytes(size) ==
    IF size = 0 THEN 0
    ELSE (NumberOfParts(size) - 1) * PacketSize + HeaderSize
           + LengthOfPart(NumberOfParts(size) - 1, size)

Cut(telemetry, size) ==
    /\ pc = "idle" /\ cuts < MaxCuts
    /\ NumberOfParts(size) =< MaxParts
    /\ output_cut_tm' =
          [part \in Parts |-> [place \in Places |->
              IF part < NumberOfParts(size) /\ place < LengthOfPart(part, size)
              THEN <<telemetry, part * PartSize + place>>
              ELSE output_cut_tm[part][place]]]
    /\ total' = IF size = 0 THEN total ELSE NumberOfParts(size)
    /\ output_size' = output_size + PacketBytes(size)
    /\ original' = [telemetry |-> telemetry, size |-> size]
    /\ cuts' = cuts + 1
    /\ pc' = "cut"
    /\ UNCHANGED <<saved, reconstructed, faults>>

\* The parts do not fit in the array: what lies behind it is overwritten, and
\* what the program does from there on is not known.
CutOverruns(telemetry, size) ==
    /\ pc = "idle" /\ cuts < MaxCuts
    /\ NumberOfParts(size) > MaxParts
    /\ pc' = "overrun"
    /\ UNCHANGED <<array, original, saved, reconstructed, cuts, faults>>

\* The telemetry cannot be opened, and nothing is done.
CutNoFile ==
    /\ pc = "idle"
    /\ Fails
    /\ UNCHANGED <<pc, array, original, saved, reconstructed, cuts>>
-----------------------------------------------------------------------------
(* save_to_new_file *)

OverrunsArray == output_size > MaxParts * PacketSize

File(size) == [size |-> size, total |-> total, parts |-> output_cut_tm]

Save ==
    /\ pc = "cut" /\ ~OverrunsArray
    /\ saved' = File(output_size)
    /\ pc' = "saved"
    /\ UNCHANGED <<array, original, reconstructed, cuts, faults>>

SaveOverruns ==
    /\ pc = "cut" /\ OverrunsArray
    /\ pc' = "overrun"
    /\ UNCHANGED <<array, original, saved, reconstructed, cuts, faults>>

\* The file cannot be opened: it keeps the parts of an earlier cut.
SaveFails ==
    /\ pc = "cut"
    /\ Fails
    /\ pc' = "unsaved"
    /\ UNCHANGED <<array, original, saved, reconstructed, cuts>>

\* The program stops while the file is written.
StopWhileSaving ==
    /\ pc = "cut" /\ ~OverrunsArray
    /\ Fails
    /\ \E size \in 0 .. output_size : saved' = File(size)
    /\ pc' = "off"
    /\ UNCHANGED <<array, original, reconstructed, cuts>>
-----------------------------------------------------------------------------
(* reconstruct *)

\* The total field of the file, 0 when it has none.  (A file that does not
\* exist cannot be opened, which leaves the rebuilt file just as empty.)
SavedTotal == IF saved.size = 0 THEN 0 ELSE saved.total

\* What the buffer of one packet holds at a place once a part is read: a byte
\* that the file does not have leaves the one of an earlier part.
Buffered(part, place) ==
    LET read == {k \in 0 .. part : k * PacketSize + HeaderSize + place < saved.size}
    IN  IF read = {} THEN Zero ELSE saved.parts[Max(read)][place]

\* The bytes of the last packet, header included, by the size of what this
\* program cut, whatever the file holds.
LastPacket == output_size - (SavedTotal - 1) * PacketSize

Overruns ==
    SavedTotal > 0 /\ LastPacket \notin HeaderSize .. PacketSize

Rebuilt ==
    IF SavedTotal = 0 THEN << >>
    ELSE [i \in 1 .. (SavedTotal - 1) * PartSize + LastPacket - HeaderSize |->
             Buffered((i - 1) \div PartSize, (i - 1) % PartSize)]

Reconstruct ==
    /\ pc \in {"saved", "unsaved"}
    /\ ~Overruns
    /\ reconstructed' = Rebuilt
    /\ pc' = "idle"
    /\ UNCHANGED <<array, original, saved, cuts, faults>>

\* The last packet does not fit in the buffer, or is shorter than its header:
\* the program reads or writes beyond the buffer.
ReconstructOverruns ==
    /\ pc \in {"saved", "unsaved"}
    /\ Overruns
    /\ reconstructed' = << >>
    /\ pc' = "overrun"
    /\ UNCHANGED <<array, original, saved, cuts, faults>>

\* One of the files cannot be opened.  The rebuilt file is empty if it is not
\* the one that fails.
ReconstructFails ==
    /\ pc \in {"saved", "unsaved"}
    /\ Fails
    /\ reconstructed' \in {reconstructed, << >>}
    /\ pc' = "idle"
    /\ UNCHANGED <<array, original, saved, cuts>>

Next ==
    \/ Start \/ End \/ Stop
    \/ \E telemetry \in Telemetries, size \in FileSizes :
          Cut(telemetry, size) \/ CutOverruns(telemetry, size)
    \/ CutNoFile
    \/ Save \/ SaveOverruns \/ SaveFails \/ StopWhileSaving
    \/ Reconstruct \/ ReconstructOverruns \/ ReconstructFails

Spec == Init /\ [][Next]_vars
-----------------------------------------------------------------------------
TypeOK ==
    /\ pc \in {"off", "idle", "cut", "saved", "unsaved", "overrun"}
    /\ total \in 0 .. MaxParts /\ saved.total \in 0 .. MaxParts
    /\ output_cut_tm \in [Parts -> [Places -> Byte]]
    /\ saved.parts \in [Parts -> [Places -> Byte]]
    /\ output_size \in Nat /\ saved.size \in Nat
    /\ original.telemetry \in Telemetries /\ original.size \in Nat
    /\ cuts \in 0 .. MaxCuts
    /\ faults \in 0 .. MaxFaults

\* The first bytes of the telemetry that was cut last.
FirstBytes(n) == [i \in 1 .. n |-> <<original.telemetry, i - 1>>]

\* Its last part is full: it is cut, and so saved, without its bytes (cut_tm.c:79).
LastPartIsFull == original.size > 0 /\ original.size % PartSize = 0

LostBytes == IF LastPartIsFull THEN PartSize ELSE 0

\* What output_size counts besides the cut telemetry: the packets of the earlier
\* cuts of the program, for nothing resets it (cut_tm.c:88).
EarlierPackets == output_size - PacketBytes(original.size)

\* What the last part leaves free in the buffer of one packet.
FreeBytes == PartSize - (original.size % PartSize)

\* The packets of the earlier cuts of a program do not harm the telemetry cut
\* last exactly as long as they fit in what its last part leaves free: it comes
\* back in its order, but for a full last part, with as many bytes behind it.
\* Beyond that more than a packet remains to be read, and the reconstruction
\* overruns its buffer (cut_tm.c:167-173).
RebuildsTelemetry ==
    pc = "saved" /\ original.size > 0 =>
        IF EarlierPackets =< FreeBytes
        THEN LET length == original.size - LostBytes
             IN  /\ ~Overruns
                 /\ Len(Rebuilt) = length + EarlierPackets
                 /\ \A i \in 1 .. length : Rebuilt[i] = <<original.telemetry, i - 1>>
        ELSE Overruns

\* Whatever earlier programs saved, the first cut of a program overruns no
\* buffer and comes back as it was, but for a full last part: no other byte is
\* lost, and none is added.
FirstCutRebuildsExactly ==
    pc = "saved" /\ cuts = 1 =>
        ~Overruns /\ Rebuilt = FirstBytes(original.size - LostBytes)
-----------------------------------------------------------------------------
(* What a comment says, and does not hold *)

\* cut_tm.c:72: the last part could be not full, so that it may also be full like
\* the others.  The first cut of a program comes back as it was.
FirstCutRebuildsAll ==
    pc = "saved" /\ cuts = 1 => Rebuilt = FirstBytes(original.size)
=============================================================================
