----------------------------- MODULE CutTmProofs -----------------------------
(***************************************************************************)
(* Proofs about the cutting of cut_tm/cut_tm.c, for every size of header,  *)
(* part, array and telemetry: when what is cut and saved comes back, and   *)
(* when the reconstruction overruns its buffer instead.                    *)
(***************************************************************************)
EXTENDS CutTm, TLAPS

-----------------------------------------------------------------------------
(* Arithmetic of parts *)

LEMMA Division ==
    ASSUME NEW n \in Nat, NEW p \in Nat, p > 0
    PROVE  /\ n \div p \in Nat /\ n % p \in Nat
           /\ n % p < p
           /\ n = (n \div p) * p + (n % p)
  BY SMT

LEMMA Product ==
    ASSUME NEW a \in Int, NEW b \in Int
    PROVE  a * b \in Int /\ (a + 1) * b = a * b + b /\ (a - 1) * b = a * b - b
  BY SMT

LEMMA ProductNat ==
    ASSUME NEW a \in Nat, NEW b \in Nat
    PROVE  a * b \in Nat
  BY SMT

LEMMA ProductMonotone ==
    ASSUME NEW a \in Int, NEW b \in Int, NEW c \in Nat, a =< b
    PROVE  a * c =< b * c
  BY SMT

\* A larger quotient needs a larger number.
LEMMA QuotientBound ==
    ASSUME NEW q \in Nat, NEW r \in Nat, NEW a \in Nat, NEW p \in Nat,
           q * p + r < a * p
    PROVE  q < a
  <1> SUFFICES ASSUME ~(q < a) PROVE FALSE
    OBVIOUS
  <1>1. a * p =< q * p
    BY ProductMonotone
  <1>2. a * p \in Int /\ q * p \in Int
    BY Product
  <1> QED BY <1>1, <1>2

\* The two cases of a size above 0, and what is kept in each.
LEMMA SizeCases ==
    ASSUME NEW size \in Nat, size > 0
    PROVE  LET n == NumberOfParts(size)
               last == LengthOfPart(n - 1, size)
           IN  /\ n \in Nat /\ n > 0
               /\ last \in 0 .. PartSize - 1
               /\ (n - 1) * PartSize + last =
                      (IF size % PartSize # 0 THEN size ELSE size - PartSize)
  <1> DEFINE q == size \div PartSize
             r == size % PartSize
  <1>1. /\ PartSize \in Nat /\ PartSize > 0
        /\ q \in Nat /\ r \in Nat /\ r < PartSize /\ size = q * PartSize + r
    BY Division, CutAssumption
  <1>2. (q + 1 - 1) * PartSize = q * PartSize /\ (q - 1) * PartSize = q * PartSize - PartSize
    BY <1>1, Product
  <1> HIDE DEF q, r
  <1>3. CASE r # 0
    <2>1. NumberOfParts(size) = q + 1
      BY <1>3, <1>1 DEF NumberOfParts, q, r
    <2>2. LengthOfPart(q + 1 - 1, size) = r
      BY <1>1, <2>1 DEF LengthOfPart, r
    <2> QED BY <1>1, <1>2, <1>3, <2>1, <2>2 DEF r
  <1>4. CASE r = 0
    <2>1. NumberOfParts(size) = q
      BY <1>4, <1>1 DEF NumberOfParts, q, r
    <2>2. LengthOfPart(q - 1, size) = r
      BY <1>1, <2>1 DEF LengthOfPart, r
    <2>3. q > 0
      <3>1. q = 0 => q * PartSize = 0
        BY <1>1
      <3> QED BY <1>1, <1>4, <3>1
    <2> QED BY <1>1, <1>2, <1>4, <2>1, <2>2, <2>3 DEF r
  <1> QED BY <1>3, <1>4

LEMMA NoParts == NumberOfParts(0) = 0
  BY CutAssumption, Division DEF NumberOfParts

LEMMA PacketBytesNat ==
    ASSUME NEW size \in Nat
    PROVE  NumberOfParts(size) \in Nat /\ PacketBytes(size) \in Nat
  <1>1. CASE size = 0
    BY <1>1, NoParts DEF PacketBytes
  <1>2. CASE size > 0
    <2> DEFINE n == NumberOfParts(size)
               last == LengthOfPart(n - 1, size)
    <2>1. n \in Nat /\ n > 0 /\ last \in Nat
      BY <1>2, SizeCases
    <2>2. PacketSize \in Nat /\ HeaderSize \in Nat
      BY CutAssumption DEF PacketSize
    <2>3. 0 * PacketSize =< (n - 1) * PacketSize /\ (n - 1) * PacketSize \in Int
          /\ 0 * PacketSize = 0
      BY <2>1, <2>2, ProductMonotone, Product
    <2> QED BY <1>2, <2>1, <2>2, <2>3 DEF PacketBytes
  <1> QED BY <1>1, <1>2

-----------------------------------------------------------------------------
(* What a cut leaves, until the next one *)

CutDone ==
    /\ cuts > 0
    /\ NumberOfParts(original.size) =< MaxParts
    /\ original.size > 0 => total = NumberOfParts(original.size)
    /\ output_size >= PacketBytes(original.size)
    /\ cuts = 1 => output_size = PacketBytes(original.size)
    /\ \A part \in 0 .. NumberOfParts(original.size) - 1 :
          \A place \in 0 .. LengthOfPart(part, original.size) - 1 :
             output_cut_tm[part][place] =
                <<original.telemetry, part * PartSize + place>>

CutInv ==
    /\ TypeOK
    /\ pc = "idle" /\ cuts = 0 => output_size = 0
    /\ pc \in {"cut", "saved", "unsaved"} => CutDone
    /\ pc = "saved" => saved = File(output_size)

LEMMA EmptyType == Empty \in [Parts -> [Places -> Byte]]
  BY DEF Empty, Byte

LEMMA InitialCut == Init => CutInv
  <1> SUFFICES ASSUME Init PROVE CutInv
    OBVIOUS
  <1>1. (CHOOSE t \in Telemetries : TRUE) \in Telemetries
    BY CutAssumption
  <1>2. TypeOK
    BY <1>1, EmptyType, CutAssumption DEF Init, TypeOK
  <1> QED BY <1>2 DEF Init, CutInv

LEMMA LengthOfPartBound ==
    ASSUME NEW size \in Nat, NEW part \in 0 .. NumberOfParts(size) - 1
    PROVE  LengthOfPart(part, size) \in 0 .. PartSize
  BY Division, CutAssumption DEF LengthOfPart

LEMMA CutType ==
    ASSUME CutInv, NEW telemetry \in Telemetries, NEW size \in FileSizes,
           Cut(telemetry, size)
    PROVE  TypeOK'
  <1>1. /\ size \in Nat /\ NumberOfParts(size) \in Nat /\ PacketBytes(size) \in Nat
        /\ PartSize \in Nat
    BY PacketBytesNat, CutAssumption
  <1>2. output_cut_tm' \in [Parts -> [Places -> Byte]]
    <2>1. \A part \in Parts, place \in Places :
             (IF part < NumberOfParts(size) /\ place < LengthOfPart(part, size)
              THEN <<telemetry, part * PartSize + place>>
              ELSE output_cut_tm[part][place]) \in Byte
      <3> TAKE part \in Parts, place \in Places
      <3>1. part * PartSize + place \in Nat
        <4>1. part \in Nat /\ place \in Nat
          BY DEF Parts, Places
        <4> QED BY <1>1, <4>1, ProductNat
      <3>2. <<telemetry, part * PartSize + place>> \in Byte
        BY <3>1 DEF Byte
      <3>3. output_cut_tm[part][place] \in Byte
        BY DEF CutInv, TypeOK
      <3> QED BY <3>2, <3>3
    <2> QED BY <2>1 DEF Cut
  <1>3. total' \in 0 .. MaxParts
    BY <1>1 DEF Cut, CutInv, TypeOK
  <1>4. output_size' \in Nat
    BY <1>1 DEF Cut, CutInv, TypeOK
  <1>5. original'.telemetry \in Telemetries /\ original'.size \in Nat
    BY <1>1 DEF Cut
  <1>6. cuts' \in 0 .. MaxCuts
    BY CutAssumption DEF Cut, CutInv, TypeOK
  <1> QED BY <1>2, <1>3, <1>4, <1>5, <1>6 DEF Cut, CutInv, TypeOK

LEMMA CutLeaves ==
    ASSUME CutInv, NEW telemetry \in Telemetries, NEW size \in FileSizes,
           Cut(telemetry, size)
    PROVE  CutDone'
  <1>1. /\ size \in Nat /\ NumberOfParts(size) \in Nat /\ PacketBytes(size) \in Nat
        /\ PartSize \in Nat /\ MaxParts \in Nat
    BY PacketBytesNat, CutAssumption
  <1>2. /\ original' = [telemetry |-> telemetry, size |-> size]
        /\ original'.size = size /\ original'.telemetry = telemetry
        /\ NumberOfParts(size) =< MaxParts
        /\ output_size' = output_size + PacketBytes(size)
        /\ cuts' = cuts + 1 /\ pc = "idle"
        /\ total' = IF size = 0 THEN total ELSE NumberOfParts(size)
    BY DEF Cut
  <1>3. output_size \in Nat /\ cuts \in Nat /\ (cuts = 0 => output_size = 0)
    BY <1>2, CutAssumption DEF CutInv, TypeOK
  <1>4. ASSUME NEW part \in 0 .. NumberOfParts(size) - 1,
               NEW place \in 0 .. LengthOfPart(part, size) - 1
        PROVE  output_cut_tm'[part][place] = <<telemetry, part * PartSize + place>>
    <2>1. LengthOfPart(part, size) \in 0 .. PartSize
      BY <1>1, LengthOfPartBound
    <2>2. part \in Parts /\ place \in Places
      BY <1>1, <1>2, <2>1 DEF Parts, Places
    <2>3. part < NumberOfParts(size) /\ place < LengthOfPart(part, size)
      BY <1>1, <2>1
    <2> QED BY <2>2, <2>3 DEF Cut
  <1>5. cuts' > 0
    BY <1>2, <1>3
  <1> QED BY <1>1, <1>2, <1>3, <1>4, <1>5 DEF CutDone

\* The steps that leave the array and the last cut as they are.
LEMMA OthersKeepCut ==
    ASSUME CutInv, UNCHANGED <<array, original, cuts>>
    PROVE  CutDone' = CutDone
  BY DEF array, CutDone

LEMMA CutStepKeeps == CutInv /\ [Next]_vars => CutInv'
  <1> SUFFICES ASSUME CutInv, [Next]_vars PROVE CutInv'
    OBVIOUS
  <1> USE DEF CutInv
  <1>1. CASE Start
    <2>1. TypeOK'
      BY <1>1, EmptyType, CutAssumption DEF Start, TypeOK
    <2> QED BY <1>1, <2>1 DEF Start
  <1>2. CASE End \/ Stop
    <2>1. faults' \in 0 .. MaxFaults
      BY <1>2, CutAssumption DEF End, Stop, Fails, TypeOK
    <2>2. TypeOK'
      BY <1>2, <2>1 DEF End, Stop, TypeOK, array
    <2> QED BY <1>2, <2>2 DEF End, Stop
  <1>3. ASSUME NEW telemetry \in Telemetries, NEW size \in FileSizes,
               Cut(telemetry, size)
        PROVE  CutInv'
    <2>1. pc' = "cut"
      BY <1>3 DEF Cut
    <2> QED BY <1>3, <2>1, CutType, CutLeaves
  <1>4. ASSUME NEW telemetry \in Telemetries, NEW size \in FileSizes,
               CutOverruns(telemetry, size)
        PROVE  CutInv'
    <2>1. TypeOK' /\ pc' = "overrun"
      BY <1>4 DEF CutOverruns, TypeOK, array
    <2> QED BY <2>1
  <1>5. CASE CutNoFile
    <2>1. faults' \in 0 .. MaxFaults
      BY <1>5, CutAssumption DEF CutNoFile, Fails, TypeOK
    <2>2. TypeOK'
      BY <1>5, <2>1 DEF CutNoFile, TypeOK, array
    <2> QED BY <1>5, <2>2 DEF CutNoFile, array
  <1>6. CASE Save
    <2>1. UNCHANGED <<array, original, cuts>> /\ pc = "cut" /\ pc' = "saved"
      BY <1>6 DEF Save
    <2>2. saved' = File(output_size) /\ File(output_size)' = File(output_size)
      BY <1>6 DEF Save, File, array
    <2>3. /\ File(output_size).total = total
          /\ File(output_size).parts = output_cut_tm
          /\ File(output_size).size = output_size
      BY DEF File
    <2>4. TypeOK'
      BY <1>6, <2>2, <2>3 DEF Save, TypeOK, array
    <2>5. saved' = File(output_size)'
      BY <2>2
    <2> QED BY <2>1, <2>4, <2>5, OthersKeepCut DEF array
  <1>7. CASE SaveOverruns \/ SaveFails
    <2>1. faults' \in 0 .. MaxFaults
      BY <1>7, CutAssumption DEF SaveOverruns, SaveFails, Fails, TypeOK
    <2>2. TypeOK'
      BY <1>7, <2>1 DEF SaveOverruns, SaveFails, TypeOK, array
    <2>3. UNCHANGED <<array, original, cuts>> /\ pc = "cut" /\ pc' \in {"overrun", "unsaved"}
      BY <1>7 DEF SaveOverruns, SaveFails
    <2> QED BY <2>2, <2>3, OthersKeepCut
  <1>8. CASE StopWhileSaving
    <2>1. PICK size \in 0 .. output_size : saved' = File(size)
      BY <1>8 DEF StopWhileSaving
    <2>2. /\ File(size).total = total /\ File(size).parts = output_cut_tm
          /\ File(size).size = size
      BY DEF File
    <2>3. faults' \in 0 .. MaxFaults /\ size \in Nat /\ saved'.size \in Nat
      BY <1>8, <2>1, <2>2, CutAssumption DEF StopWhileSaving, Fails, TypeOK
    <2>4. TypeOK'
      BY <1>8, <2>1, <2>2, <2>3 DEF StopWhileSaving, TypeOK, array
    <2> QED BY <1>8, <2>4 DEF StopWhileSaving
  <1>9. CASE Reconstruct \/ ReconstructOverruns \/ ReconstructFails
    <2>1. faults' \in 0 .. MaxFaults
      BY <1>9, CutAssumption
         DEF Reconstruct, ReconstructOverruns, ReconstructFails, Fails, TypeOK
    <2>2. /\ UNCHANGED <<array, original, saved, cuts>>
          /\ pc \in {"saved", "unsaved"} /\ pc' \in {"idle", "overrun"}
      BY <1>9 DEF Reconstruct, ReconstructOverruns, ReconstructFails
    <2>3. TypeOK'
      BY <2>1, <2>2 DEF TypeOK, array
    <2>4. cuts' > 0
      BY <2>2 DEF CutDone
    <2>5. cuts' # 0
      BY <2>3, <2>4, CutAssumption DEF TypeOK
    <2> QED BY <2>2, <2>3, <2>5
  <1>10. CASE UNCHANGED vars
    <2>1. TypeOK' = TypeOK /\ File(output_size)' = File(output_size)
      BY <1>10 DEF vars, TypeOK, array, File
    <2>2. CutDone' = CutDone
      BY <1>10, OthersKeepCut DEF vars, array
    <2> QED BY <1>10, <2>1, <2>2 DEF vars
  <1> QED BY <1>1, <1>2, <1>3, <1>4, <1>5, <1>6, <1>7, <1>8, <1>9, <1>10 DEF Next

-----------------------------------------------------------------------------
(* Reading the saved parts back *)

KeptLength == original.size - LostBytes

\* The sizes that reconstruct works with, for a telemetry of n parts.
LEMMA SizesOfSaved ==
    ASSUME CutInv, pc = "saved", original.size > 0
    PROVE  LET n == NumberOfParts(original.size)
               last == LengthOfPart(n - 1, original.size)
           IN  /\ n \in Nat /\ n > 0 /\ last \in 0 .. PartSize - 1
               /\ SavedTotal = n
               /\ saved.size = output_size /\ saved.parts = output_cut_tm
               /\ saved.size \in Nat
               /\ (n - 1) * PartSize \in Nat /\ (n - 1) * PacketSize \in Nat
               /\ KeptLength = (n - 1) * PartSize + last
               /\ FreeBytes = PartSize - last
               /\ EarlierPackets \in Nat
               /\ cuts = 1 => EarlierPackets = 0
               /\ LastPacket = HeaderSize + last + EarlierPackets
               /\ saved.size >= (n - 1) * PacketSize + HeaderSize + last
  <1> DEFINE n == NumberOfParts(original.size)
             last == LengthOfPart(n - 1, original.size)
  <1>1. /\ original.size \in Nat /\ output_size \in Nat
        /\ HeaderSize \in Nat /\ HeaderSize > 0 /\ PartSize \in Nat
        /\ PacketSize \in Nat
    BY CutAssumption DEF CutInv, TypeOK, PacketSize
  <1>2. /\ n \in Nat /\ n > 0 /\ last \in 0 .. PartSize - 1
        /\ (n - 1) * PartSize + last =
              (IF original.size % PartSize # 0 THEN original.size
               ELSE original.size - PartSize)
    BY <1>1, SizeCases
  <1>3. (n - 1) * PartSize \in Nat /\ (n - 1) * PacketSize \in Nat
    <2>1. n - 1 \in Nat
      BY <1>2
    <2> QED BY <1>1, <2>1, ProductNat
  <1>4. CutDone /\ saved = File(output_size)
    BY DEF CutInv
  <1>5. /\ saved.size = output_size /\ saved.parts = output_cut_tm
        /\ saved.total = total
    BY <1>4 DEF File
  <1>6. PacketBytes(original.size) = (n - 1) * PacketSize + HeaderSize + last
    BY <1>1 DEF PacketBytes
  <1>7. /\ output_size >= (n - 1) * PacketSize + HeaderSize + last
        /\ cuts = 1 => output_size = (n - 1) * PacketSize + HeaderSize + last
        /\ total = n
    BY <1>4, <1>6 DEF CutDone
  <1>8. SavedTotal = n
    BY <1>1, <1>2, <1>3, <1>5, <1>7 DEF SavedTotal
  <1>9. /\ LastPacket = output_size - (n - 1) * PacketSize
        /\ EarlierPackets = output_size - ((n - 1) * PacketSize + HeaderSize + last)
    BY <1>6, <1>8 DEF LastPacket, EarlierPackets
  <1>10. FreeBytes = PartSize - last
    BY DEF FreeBytes, LengthOfPart
  <1>11. KeptLength = (n - 1) * PartSize + last
    <2>1. KeptLength = IF original.size % PartSize = 0 THEN original.size - PartSize
                       ELSE original.size - 0
      BY <1>1 DEF KeptLength, LostBytes, LastPartIsFull
    <2> HIDE DEF n, last
    <2> QED BY <1>1, <1>2, <2>1
  <1> HIDE DEF n, last
  <1>12. /\ EarlierPackets \in Nat
         /\ cuts = 1 => EarlierPackets = 0
         /\ LastPacket = HeaderSize + last + EarlierPackets
    BY <1>1, <1>2, <1>3, <1>7, <1>9
  <1> QED BY <1>1, <1>2, <1>3, <1>5, <1>7, <1>8, <1>10, <1>11, <1>12 DEF n, last

\* The byte i of what is kept is read from its part, at its place.
LEMMA ReadsBack ==
    ASSUME CutInv, pc = "saved", original.size > 0, NEW i \in 1 .. KeptLength
    PROVE  Buffered((i - 1) \div PartSize, (i - 1) % PartSize)
              = <<original.telemetry, i - 1>>
  <1> DEFINE n == NumberOfParts(original.size)
             last == LengthOfPart(n - 1, original.size)
             part == (i - 1) \div PartSize
             place == (i - 1) % PartSize
  <1>1. /\ n \in Nat /\ n > 0 /\ last \in 0 .. PartSize - 1
        /\ saved.parts = output_cut_tm /\ saved.size \in Nat
        /\ (n - 1) * PartSize \in Nat /\ (n - 1) * PacketSize \in Nat
        /\ KeptLength = (n - 1) * PartSize + last
        /\ saved.size >= (n - 1) * PacketSize + HeaderSize + last
    BY SizesOfSaved
  <1>2. /\ HeaderSize \in Nat /\ HeaderSize > 0 /\ PartSize \in Nat /\ PartSize > 0
        /\ PacketSize \in Nat /\ PacketSize = HeaderSize + PartSize
    BY CutAssumption DEF PacketSize
  <1>3. /\ i - 1 \in Nat /\ i - 1 < KeptLength
        /\ part \in Nat /\ place \in Nat /\ place < PartSize
        /\ i - 1 = part * PartSize + place
    BY <1>1, <1>2, Division
  <1>4. LengthOfPart(part, original.size) = IF part # n - 1 THEN PartSize ELSE last
    BY DEF LengthOfPart
  <1> HIDE DEF n, last, part, place
  <1>5. part < n
    <2>1. n * PartSize = (n - 1) * PartSize + PartSize
      BY <1>1, <1>2, Product
    <2>2. part * PartSize + place < n * PartSize
      BY <1>1, <1>2, <1>3, <2>1
    <2> QED BY <1>1, <1>2, <1>3, <2>2, QuotientBound
  <1>6. place < LengthOfPart(part, original.size)
    <2>1. CASE part = n - 1
      BY <1>1, <1>3, <1>4, <2>1
    <2>2. CASE part # n - 1
      BY <1>3, <1>4, <2>2
    <2> QED BY <2>1, <2>2
  <1>7. part * PacketSize \in Nat
    BY <1>2, <1>3, ProductNat
  <1>8. part * PacketSize + HeaderSize + place < saved.size
    <2>1. CASE part = n - 1
      BY <1>1, <1>2, <1>3, <1>4, <1>6, <1>7, <2>1
    <2>2. CASE part # n - 1
      <3>1. (part + 1) * PacketSize =< (n - 1) * PacketSize
        BY <1>1, <1>2, <1>3, <1>5, <2>2, ProductMonotone
      <3>2. (part + 1) * PacketSize = part * PacketSize + PacketSize
        BY <1>2, <1>3, Product
      <3> QED BY <1>1, <1>2, <1>3, <1>7, <3>1, <3>2
    <2> QED BY <2>1, <2>2
  <1>9. Buffered(part, place) = saved.parts[part][place]
    <2> DEFINE read == {k \in 0 .. part : k * PacketSize + HeaderSize + place < saved.size}
    <2>1. part \in read /\ \A k \in read : k \in Nat /\ k =< part
      BY <1>3, <1>8
    <2>2. Max(read) = part
      BY <1>3, <2>1 DEF Max
    <2>3. read # {}
      BY <2>1
    <2> HIDE DEF read
    <2> QED BY <2>2, <2>3 DEF Buffered, read
  <1>10. output_cut_tm[part][place] = <<original.telemetry, part * PartSize + place>>
    <2>1. CutDone /\ original.size \in Nat
      BY DEF CutInv, TypeOK
    <2>2. part \in 0 .. NumberOfParts(original.size) - 1
      BY <1>1, <1>3, <1>5 DEF n
    <2>3. place \in 0 .. LengthOfPart(part, original.size) - 1
      BY <1>1, <1>2, <1>3, <1>4, <1>6
    <2> QED BY <2>1, <2>2, <2>3 DEF CutDone
  <1> QED BY <1>1, <1>3, <1>9, <1>10 DEF part, place

\* The buffer of one packet is overrun exactly when the packets of earlier cuts
\* do not fit in what the last part leaves free.
LEMMA OverrunsWhenTooMany ==
    ASSUME CutInv, pc = "saved", original.size > 0
    PROVE  Overruns <=> ~(EarlierPackets =< FreeBytes)
  <1> DEFINE n == NumberOfParts(original.size)
             last == LengthOfPart(n - 1, original.size)
  <1>1. /\ n \in Nat /\ n > 0 /\ last \in 0 .. PartSize - 1
        /\ SavedTotal = n /\ EarlierPackets \in Nat
        /\ FreeBytes = PartSize - last
        /\ LastPacket = HeaderSize + last + EarlierPackets
    BY SizesOfSaved
  <1>2. HeaderSize \in Nat /\ PartSize \in Nat
    BY CutAssumption
  <1> HIDE DEF n, last
  <1> QED BY <1>1, <1>2 DEF Overruns, PacketSize

\* What is rebuilt is what is kept, and as much more as earlier cuts left.
LEMMA LengthOfRebuilt ==
    ASSUME CutInv, pc = "saved", original.size > 0
    PROVE  /\ KeptLength \in Nat /\ EarlierPackets \in Nat
           /\ Len(Rebuilt) = KeptLength + EarlierPackets
           /\ Rebuilt = [i \in 1 .. KeptLength + EarlierPackets |->
                 Buffered((i - 1) \div PartSize, (i - 1) % PartSize)]
  <1> DEFINE n == NumberOfParts(original.size)
             last == LengthOfPart(n - 1, original.size)
             m == (SavedTotal - 1) * PartSize + LastPacket - HeaderSize
             byte(i) == Buffered((i - 1) \div PartSize, (i - 1) % PartSize)
  <1>1. /\ n \in Nat /\ n > 0 /\ last \in 0 .. PartSize - 1
        /\ SavedTotal = n
        /\ (n - 1) * PartSize \in Nat
        /\ KeptLength = (n - 1) * PartSize + last
        /\ EarlierPackets \in Nat
        /\ LastPacket = HeaderSize + last + EarlierPackets
    BY SizesOfSaved
  <1>2. HeaderSize \in Nat /\ PartSize \in Nat
    BY CutAssumption
  <1>3. KeptLength \in Nat /\ m \in Nat /\ m = KeptLength + EarlierPackets
    BY <1>1, <1>2
  <1>4. Rebuilt = [i \in 1 .. m |-> byte(i)]
    BY <1>1 DEF Rebuilt
  <1> HIDE DEF m, byte
  <1>5. Len(Rebuilt) = m
    BY <1>3, <1>4
  <1> QED BY <1>1, <1>3, <1>4, <1>5 DEF byte

\* A first cut of no byte leaves no byte.
LEMMA NothingCut ==
    ASSUME CutInv, pc = "saved", original.size = 0, cuts = 1
    PROVE  ~Overruns /\ Rebuilt = << >> /\ KeptLength = 0
  <1>1. CutDone /\ saved = File(output_size)
    BY DEF CutInv
  <1>2. output_size = 0
    BY <1>1 DEF CutDone, PacketBytes
  <1>3. saved.size = 0
    BY <1>1, <1>2 DEF File
  <1>4. SavedTotal = 0
    BY <1>3 DEF SavedTotal
  <1> QED BY <1>4 DEF Overruns, Rebuilt, KeptLength, LostBytes, LastPartIsFull

\* After any cut of a program, be it the first or a later one, the telemetry
\* comes back, without its last part when that is full, exactly as long as the
\* packets of the program's earlier cuts fit in what the last part leaves free;
\* otherwise the buffer of the reconstruction is overrun.
THEOREM RebuildsInOrder == Spec => []RebuildsTelemetry
  <1>1. ASSUME CutInv PROVE RebuildsTelemetry
    <2> SUFFICES ASSUME pc = "saved", original.size > 0
                 PROVE  IF EarlierPackets =< FreeBytes
                        THEN /\ ~Overruns
                             /\ Len(Rebuilt) = KeptLength + EarlierPackets
                             /\ \A i \in 1 .. KeptLength :
                                   Rebuilt[i] = <<original.telemetry, i - 1>>
                        ELSE Overruns
      BY DEF RebuildsTelemetry, KeptLength
    <2>1. Overruns <=> ~(EarlierPackets =< FreeBytes)
      BY <1>1, OverrunsWhenTooMany
    <2>2. Len(Rebuilt) = KeptLength + EarlierPackets
      BY <1>1, LengthOfRebuilt
    <2>3. ASSUME NEW i \in 1 .. KeptLength
          PROVE  Rebuilt[i] = <<original.telemetry, i - 1>>
      <3>1. Rebuilt[i] = Buffered((i - 1) \div PartSize, (i - 1) % PartSize)
        BY <1>1, LengthOfRebuilt
      <3> QED BY <1>1, <3>1, ReadsBack
    <2> QED BY <2>1, <2>2, <2>3
  <1> QED BY InitialCut, CutStepKeeps, <1>1, PTL DEF Spec

\* The first cut of a program comes back byte for byte, but for a last part
\* that is full, and overruns no buffer.
THEOREM FirstCutExact == Spec => []FirstCutRebuildsExactly
  <1>1. ASSUME CutInv PROVE FirstCutRebuildsExactly
    <2> SUFFICES ASSUME pc = "saved", cuts = 1
                 PROVE  ~Overruns /\ Rebuilt = FirstBytes(KeptLength)
      BY DEF FirstCutRebuildsExactly, KeptLength
    <2>1. CASE original.size > 0
      <3>1. EarlierPackets = 0 /\ FreeBytes \in Nat
        BY <1>1, <2>1, SizesOfSaved, CutAssumption
      <3>2. ~Overruns
        BY <1>1, <2>1, <3>1, OverrunsWhenTooMany
      <3>3. /\ KeptLength \in Nat
            /\ Rebuilt = [i \in 1 .. KeptLength |->
                  Buffered((i - 1) \div PartSize, (i - 1) % PartSize)]
        <4>1. KeptLength \in Nat /\ KeptLength + EarlierPackets = KeptLength
          BY <1>1, <2>1, <3>1, LengthOfRebuilt
        <4> QED BY <1>1, <2>1, <4>1, LengthOfRebuilt
      <3>4. \A i \in 1 .. KeptLength :
               Buffered((i - 1) \div PartSize, (i - 1) % PartSize)
                  = <<original.telemetry, i - 1>>
        BY <1>1, <2>1, ReadsBack
      <3> QED BY <3>2, <3>3, <3>4 DEF FirstBytes
    <2>2. CASE original.size = 0
      <3>1. ~Overruns /\ Rebuilt = << >> /\ KeptLength = 0
        BY <1>1, <2>2, NothingCut
      <3>2. FirstBytes(0) = << >>
        BY DEF FirstBytes
      <3> QED BY <3>1, <3>2
    <2>3. original.size \in Nat
      BY <1>1 DEF CutInv, TypeOK
    <2> QED BY <2>1, <2>2, <2>3
  <1> QED BY InitialCut, CutStepKeeps, <1>1, PTL DEF Spec

THEOREM CutTypes == Spec => []TypeOK
  <1>1. CutInv => TypeOK
    BY DEF CutInv
  <1> QED BY InitialCut, CutStepKeeps, <1>1, PTL DEF Spec
==============================================================================
