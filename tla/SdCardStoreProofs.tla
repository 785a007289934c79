-------------------------- MODULE SdCardStoreProofs --------------------------
(***************************************************************************)
(* Proofs about the packet store of packet_store_sdcard.c, for rings of    *)
(* every size, all dates and any number of stops and failed openings.      *)
(***************************************************************************)
EXTENDS SdCardStore, SequenceFacts, TLAPS

Packet == Time \cup {Null}

\* What is read from a slot of a file, and the slot of the i-th element from a
\* slot on.
Elem(file, slot) == IF slot < Len(file) THEN file[slot + 1] ELSE Untouched
Slot(oldest, i) == (oldest + i - 1) % MaxTm

LEMMA PacketFacts ==
    /\ MaxTm \in Nat /\ MaxTm > 0
    /\ Packet \subseteq Nat
    /\ Untouched \notin Packet /\ Null \in Packet /\ Null = 0
    /\ \A t \in Time : t \in Nat /\ t > 0
  BY StoreAssumption DEF Packet, Null, Untouched

LEMMA SlotRange ==
    ASSUME NEW o \in 0 .. MaxTm - 1, NEW i \in 1 .. MaxTm
    PROVE  /\ Slot(o, i) = IF o + i - 1 < MaxTm THEN o + i - 1 ELSE o + i - 1 - MaxTm
           /\ Slot(o, i) \in 0 .. MaxTm - 1
  <1>1. i - 1 \in 0 .. MaxTm - 1 /\ MaxTm \in Nat
    BY PacketFacts
  <1>2. (o + (i - 1)) = o + i - 1
    BY <1>1
  <1> QED BY <1>1, <1>2, AheadInRing DEF Slot

\* Different elements lie in different slots.
LEMMA SlotsDiffer ==
    ASSUME NEW o \in 0 .. MaxTm - 1, NEW i \in 1 .. MaxTm, NEW j \in 1 .. MaxTm,
           Slot(o, i) = Slot(o, j)
    PROVE  i = j
  <1> DEFINE s == Slot(o, i)
  <1>1. s = IF o + i - 1 < MaxTm THEN o + i - 1 ELSE o + i - 1 - MaxTm
    BY SlotRange
  <1>2. s = IF o + j - 1 < MaxTm THEN o + j - 1 ELSE o + j - 1 - MaxTm
    BY SlotRange
  <1>3. MaxTm \in Nat
    BY PacketFacts
  <1> HIDE DEF s
  <1> QED BY <1>1, <1>2, <1>3

\* The elements from the d-th on.
LEMMA SlotShift ==
    ASSUME NEW o \in 0 .. MaxTm - 1, NEW d \in 0 .. MaxTm, NEW i \in 1 .. MaxTm,
           d + i =< MaxTm
    PROVE  /\ (o + d) % MaxTm \in 0 .. MaxTm - 1
           /\ Slot((o + d) % MaxTm, i) = Slot(o, d + i)
  <1>1. d \in 0 .. MaxTm - 1 /\ d + i \in 1 .. MaxTm /\ MaxTm \in Nat
    BY PacketFacts
  <1>2. /\ (o + d) % MaxTm = IF o + d < MaxTm THEN o + d ELSE o + d - MaxTm
        /\ (o + d) % MaxTm \in 0 .. MaxTm - 1
    BY <1>1, AheadInRing
  <1> DEFINE p == (o + d) % MaxTm
  <1>3. Slot(p, i) = IF p + i - 1 < MaxTm THEN p + i - 1 ELSE p + i - 1 - MaxTm
    BY <1>2, SlotRange
  <1>4. Slot(o, d + i) = IF o + (d + i) - 1 < MaxTm THEN o + (d + i) - 1
                         ELSE o + (d + i) - 1 - MaxTm
    BY <1>1, SlotRange
  <1> QED BY <1>1, <1>2, <1>3, <1>4

-----------------------------------------------------------------------------
(* Files *)

LEMMA GreaterOfTwo ==
    ASSUME NEW a \in Int, NEW b \in Int
    PROVE  Max({a, b}) = IF a >= b THEN a ELSE b
  BY DEF Max

\* What is read from a file after a write.
LEMMA WrittenFile ==
    ASSUME NEW file \in Seq(Packet), NEW slot \in Nat, NEW elements \in Seq(Packet)
    PROVE  /\ Written(file, slot, elements) \in Seq(Packet)
           /\ Len(Written(file, slot, elements)) =
                 IF elements = << >> \/ Len(file) >= slot + Len(elements) THEN Len(file)
                 ELSE slot + Len(elements)
           /\ \A s \in Nat :
                 Elem(Written(file, slot, elements), s) =
                    IF s \in slot .. slot + Len(elements) - 1
                    THEN elements[s - slot + 1]
                    ELSE IF s < Len(file) THEN Elem(file, s)
                    ELSE IF elements # << >> /\ s < slot THEN Null
                    ELSE Untouched
  <1> DEFINE n == Len(file)
             e == Len(elements)
             w == Written(file, slot, elements)
             length == Max({n, slot + e})
  <1>1. n \in Nat /\ e \in Nat /\ (elements = << >> <=> e = 0)
    OBVIOUS
  <1>2. length = (IF n >= slot + e THEN n ELSE slot + e) /\ length \in Nat
    BY <1>1, GreaterOfTwo
  <1>3. CASE elements = << >>
    <2>1. w = file
      BY <1>3 DEF Written
    <2> QED BY <1>1, <1>3, <2>1 DEF Elem
  <1>4. CASE elements # << >>
    <2>1. w = [i \in 1 .. length |->
                 IF i - 1 \in slot .. slot + e - 1 THEN elements[i - slot]
                 ELSE IF i =< n THEN file[i] ELSE Null]
      BY <1>4 DEF Written
    <2> HIDE DEF w, length
    <2>2. ASSUME NEW i \in 1 .. length
          PROVE  (IF i - 1 \in slot .. slot + e - 1 THEN elements[i - slot]
                  ELSE IF i =< n THEN file[i] ELSE Null) \in Packet
      <3>1. CASE i - 1 \in slot .. slot + e - 1
        <4>1. i - slot \in 1 .. e
          BY <1>1, <1>2, <3>1
        <4> QED BY <3>1, <4>1
      <3>2. CASE i - 1 \notin slot .. slot + e - 1
        BY <1>1, <1>2, <3>2, PacketFacts
      <3> QED BY <3>1, <3>2
    <2>3. w \in [1 .. length -> Packet]
      BY <2>1, <2>2
    <2>4. w \in Seq(Packet) /\ Len(w) = length
      BY <1>2, <2>3
    <2>5. ASSUME NEW s \in Nat
          PROVE  Elem(w, s) = IF s \in slot .. slot + e - 1 THEN elements[s - slot + 1]
                              ELSE IF s < n THEN Elem(file, s)
                              ELSE IF s < slot THEN Null
                              ELSE Untouched
      <3>1. CASE s < length
        <4>1. s + 1 \in 1 .. length /\ (s + 1) - 1 = s /\ (s + 1) - slot = s - slot + 1
              /\ (s + 1 =< n <=> s < n)
          BY <1>1, <1>2, <3>1
        <4>2. Elem(w, s) = w[s + 1]
          BY <2>4, <3>1 DEF Elem
        <4>3. w[s + 1] = IF s \in slot .. slot + e - 1 THEN elements[s - slot + 1]
                         ELSE IF s < n THEN file[s + 1] ELSE Null
          BY <2>1, <4>1
        <4>4. ~(s < n) /\ s \notin slot .. slot + e - 1 => s < slot
          BY <1>1, <1>2, <3>1
        <4> QED BY <4>2, <4>3, <4>4 DEF Elem
      <3>2. CASE ~(s < length)
        <4>1. ~(s < n) /\ ~(s < slot) /\ s \notin slot .. slot + e - 1
          BY <1>1, <1>2, <3>2
        <4> QED BY <2>4, <3>2, <4>1 DEF Elem
      <3> QED BY <3>1, <3>2
    <2> QED BY <1>1, <1>2, <1>4, <2>4, <2>5 DEF w
  <1> QED BY <1>3, <1>4

LEMMA WrittenOne ==
    ASSUME NEW file \in Seq(Packet), NEW slot \in Nat, NEW packet \in Packet
    PROVE  /\ Written(file, slot, <<packet>>) \in Seq(Packet)
           /\ Len(Written(file, slot, <<packet>>)) =
                 IF Len(file) >= slot + 1 THEN Len(file) ELSE slot + 1
           /\ \A s \in Nat :
                 Elem(Written(file, slot, <<packet>>), s) =
                    IF s = slot THEN packet
                    ELSE IF s < Len(file) THEN Elem(file, s)
                    ELSE IF s < slot THEN Null
                    ELSE Untouched
  <1> DEFINE one == <<packet>>
             w == Written(file, slot, one)
  <1>1. one \in Seq(Packet) /\ Len(one) = 1 /\ one # << >> /\ one[1] = packet
    OBVIOUS
  <1> HIDE DEF one
  <1>2. w \in Seq(Packet)
    BY <1>1, WrittenFile
  <1>3. Len(w) = IF one = << >> \/ Len(file) >= slot + Len(one) THEN Len(file)
                 ELSE slot + Len(one)
    BY <1>1, WrittenFile
  <1>4. \A s \in Nat :
           Elem(w, s) = IF s \in slot .. slot + Len(one) - 1 THEN one[s - slot + 1]
                        ELSE IF s < Len(file) THEN Elem(file, s)
                        ELSE IF one # << >> /\ s < slot THEN Null
                        ELSE Untouched
    BY <1>1, WrittenFile
  <1> HIDE DEF w
  <1>5. Len(w) = IF Len(file) >= slot + 1 THEN Len(file) ELSE slot + 1
    BY <1>1, <1>3
  <1>6. ASSUME NEW s \in Nat
        PROVE  Elem(w, s) = IF s = slot THEN packet
                            ELSE IF s < Len(file) THEN Elem(file, s)
                            ELSE IF s < slot THEN Null
                            ELSE Untouched
    <2>1. /\ s \in slot .. slot + Len(one) - 1 <=> s = slot
          /\ s = slot => s - slot + 1 = 1
      BY <1>1
    <2> QED BY <1>1, <1>4, <2>1
  <1> QED BY <1>2, <1>5, <1>6 DEF w, one

\* A file in which the first count elements from a slot on were erased: no
\* other element that the file had is changed.
Wiped(file, erased, oldest, count) ==
    \A i \in 1 .. MaxTm :
        /\ i =< count => Elem(erased, Slot(oldest, i)) = Null
        /\ i > count /\ Elem(file, Slot(oldest, i)) # Untouched =>
              Elem(erased, Slot(oldest, i)) = Elem(file, Slot(oldest, i))
        /\ Elem(file, i - 1) # Untouched => Elem(erased, i - 1) \in {Null, Elem(file, i - 1)}

LEMMA FromIsSlot ==
    ASSUME NEW o \in 0 .. MaxTm - 1, NEW i \in 0 .. MaxTm
    PROVE  From(o, i) = (o + i) % MaxTm
  <1>1. i = 0 => o % MaxTm = o /\ o + i = o
    BY SmallModulus, PacketFacts
  <1> QED BY <1>1, PacketFacts DEF From, tail

\* The file after count erasures.
LEMMA ErasedFile ==
    ASSUME TypeOK, NEW count \in 1 .. MaxTm
    PROVE  /\ Erased(count) \in Seq(Packet)
           /\ Len(Erased(count)) < 2 * MaxTm
           /\ Wiped(data, Erased(count), handler.oldest_tm_position, count)
  <1> DEFINE o == handler.oldest_tm_position
             slots == {From(o, i) : i \in 0 .. count - 1}
             last == Max(slots)
             written == Written(data, last, <<Null>>)
             erased == [i \in DOMAIN written |->
                           IF i - 1 \in slots THEN Null ELSE written[i]]
  <1>1. /\ o \in 0 .. MaxTm - 1 /\ MaxTm \in Nat /\ MaxTm > 0
        /\ data \in Seq(Packet) /\ Len(data) \in Nat /\ Len(data) < 2 * MaxTm
        /\ <<Null>> \in Seq(Packet) /\ Len(<<Null>>) = 1 /\ <<Null>> # << >>
    BY PacketFacts DEF TypeOK, Handler, Packet
  <1>2. ASSUME NEW i \in 0 .. count - 1
        PROVE  From(o, i) = Slot(o, i + 1) /\ From(o, i) \in 0 .. MaxTm - 1
    <2>1. i \in 0 .. MaxTm /\ i + 1 \in 1 .. MaxTm /\ o + (i + 1) - 1 = o + i
      BY <1>1
    <2>2. From(o, i) = (o + i) % MaxTm
      BY <1>1, <2>1, FromIsSlot
    <2>3. Slot(o, i + 1) = (o + i) % MaxTm
      BY <2>1 DEF Slot
    <2> QED BY <1>1, <2>1, <2>2, <2>3, SlotRange
  <1> HIDE DEF o
  <1>3. last \in slots /\ \A s \in slots : last >= s
    <2>1. slots \in SUBSET (0 .. MaxTm - 1)
      BY <1>2
    <2>2. From(o, 0) \in slots
      BY <1>1
    <2> HIDE DEF slots
    <2>3. \E x \in slots : \A y \in slots : x >= y
      <3>1. MaxTm - 1 \in Nat /\ slots # {}
        BY <1>1, <2>2
      <3> QED BY <2>1, <3>1, GreatestNumber
    <2> QED BY <2>3 DEF Max
  <1>4. last \in 0 .. MaxTm - 1
    BY <1>2, <1>3
  <1> HIDE DEF last
  <1>5. /\ written \in Seq(Packet)
        /\ Len(written) = IF Len(data) >= last + 1 THEN Len(data) ELSE last + 1
        /\ \A s \in Nat : Elem(written, s) =
              IF s = last THEN Null
              ELSE IF s < Len(data) THEN Elem(data, s)
              ELSE IF s < last THEN Null
              ELSE Untouched
    <2>1. last \in Nat /\ data \in Seq(Packet) /\ Null \in Packet
      BY <1>1, <1>4, PacketFacts
    <2> QED BY <2>1, WrittenOne
  <1>6. /\ Len(written) \in Nat /\ last < Len(written) /\ Len(data) =< Len(written)
        /\ Len(written) < 2 * MaxTm
    BY <1>1, <1>4, <1>5
  <1> HIDE DEF written
  <1>7. erased \in Seq(Packet) /\ Len(erased) = Len(written)
        /\ DOMAIN erased = 1 .. Len(written)
    <2>1. DOMAIN written = 1 .. Len(written) /\ \A i \in DOMAIN written : written[i] \in Packet
      BY <1>5
    <2> HIDE DEF slots
    <2>2. erased \in [1 .. Len(written) -> Packet]
      BY <2>1, PacketFacts
    <2> HIDE DEF erased
    <2> QED BY <1>6, <2>2
  <1>8. ASSUME NEW s \in 0 .. MaxTm - 1
        PROVE  /\ s \in slots => Elem(erased, s) = Null
               /\ s \notin slots /\ Elem(data, s) # Untouched => Elem(erased, s) = Elem(data, s)
    <2>1. CASE s \in slots
      <3>1. last >= s
        BY <1>3, <2>1
      <3>2. s + 1 \in 1 .. Len(written) /\ (s + 1) - 1 = s /\ s < Len(written)
        BY <1>4, <1>6, <3>1
      <3>3. erased[s + 1] = Null
        BY <1>7, <2>1, <3>2
      <3> QED BY <1>7, <2>1, <3>2, <3>3 DEF Elem
    <2>2. CASE s \notin slots /\ Elem(data, s) # Untouched
      <3>1. s < Len(data) /\ s # last
        BY <1>3, <2>2 DEF Elem
      <3>2. s + 1 \in 1 .. Len(written) /\ (s + 1) - 1 = s /\ s < Len(written)
            /\ s \in Nat
        BY <1>1, <1>4, <1>6, <3>1
      <3>3. Elem(written, s) = Elem(data, s)
        BY <1>5, <3>1, <3>2
      <3>4. erased[s + 1] = written[s + 1]
        BY <1>7, <2>2, <3>2
      <3> QED BY <1>7, <2>2, <3>2, <3>3, <3>4 DEF Elem
    <2> QED BY <2>1, <2>2
  <1> HIDE DEF erased
  <1>9. Wiped(data, erased, o, count)
    <2> SUFFICES ASSUME NEW i \in 1 .. MaxTm
                 PROVE  /\ i =< count => Elem(erased, Slot(o, i)) = Null
                        /\ i > count /\ Elem(data, Slot(o, i)) # Untouched =>
                              Elem(erased, Slot(o, i)) = Elem(data, Slot(o, i))
                        /\ Elem(data, i - 1) # Untouched =>
                              Elem(erased, i - 1) \in {Null, Elem(data, i - 1)}
      BY DEF Wiped
    <2>1. Slot(o, i) \in 0 .. MaxTm - 1 /\ i - 1 \in 0 .. MaxTm - 1
      BY <1>1, SlotRange
    <2>2. i =< count => Slot(o, i) \in slots
      <3> SUFFICES ASSUME i =< count PROVE Slot(o, i) \in slots
        OBVIOUS
      <3>1. i - 1 \in 0 .. count - 1 /\ (i - 1) + 1 = i
        OBVIOUS
      <3> QED BY <1>2, <3>1
    <2>3. i > count => Slot(o, i) \notin slots
      <3> SUFFICES ASSUME i > count, NEW j \in 0 .. count - 1, From(o, j) = Slot(o, i)
                   PROVE  FALSE
        OBVIOUS
      <3>1. j + 1 \in 1 .. MaxTm /\ j + 1 # i
        BY <1>1
      <3>2. Slot(o, j + 1) = Slot(o, i)
        BY <1>2
      <3> QED BY <1>1, <3>1, <3>2, SlotsDiffer
    <2> HIDE DEF slots
    <2> QED BY <1>8, <2>1, <2>2, <2>3
  <1>10. Erased(count) = erased
    <2>1. count # 0
      OBVIOUS
    <2> QED BY <2>1 DEF Erased, erased, written, last, o
  <1> QED BY <1>6, <1>7, <1>9, <1>10 DEF o
\* What a deletion of everything writes: it does not turn at the end of the
\* ring.
LEMMA EmptiedFile ==
    ASSUME TypeOK
    PROVE  LET o == handler.oldest_tm_position
               n == handler.tm_number
               emptied == Written(data, o, [i \in 1 .. n |-> Null])
           IN  /\ emptied \in Seq(Packet)
               /\ Len(emptied) < 2 * MaxTm
               /\ \E count \in 0 .. n : Wiped(data, emptied, o, count)
               /\ n = 0 => emptied = data
  <1> DEFINE o == handler.oldest_tm_position
             n == handler.tm_number
             nulls == [i \in 1 .. n |-> Null]
             emptied == Written(data, o, nulls)
             count == IF o + n =< MaxTm THEN n ELSE MaxTm - o
  <1>1. /\ o \in 0 .. MaxTm - 1 /\ n \in 0 .. MaxTm /\ MaxTm \in Nat /\ MaxTm > 0
        /\ data \in Seq(Packet) /\ Len(data) \in Nat /\ Len(data) < 2 * MaxTm
    BY PacketFacts DEF TypeOK, Handler, Packet
  <1> HIDE DEF o, n
  <1>2. /\ nulls \in Seq(Packet) /\ Len(nulls) = n
        /\ \A i \in 1 .. n : nulls[i] = Null
        /\ nulls = << >> <=> n = 0
    <2>1. nulls \in [1 .. n -> Packet]
      BY PacketFacts
    <2>2. nulls \in Seq(Packet) /\ Len(nulls) = n
      BY <1>1, <2>1
    <2> QED BY <1>1, <2>2
  <1> HIDE DEF nulls
  <1>3. o \in Nat
    BY <1>1
  <1>4. /\ emptied \in Seq(Packet)
        /\ Len(emptied) = IF nulls = << >> \/ Len(data) >= o + Len(nulls) THEN Len(data)
                          ELSE o + Len(nulls)
        /\ \A s \in Nat :
              Elem(emptied, s) = IF s \in o .. o + Len(nulls) - 1 THEN nulls[s - o + 1]
                                 ELSE IF s < Len(data) THEN Elem(data, s)
                                 ELSE IF nulls # << >> /\ s < o THEN Null
                                 ELSE Untouched
    <2>1. data \in Seq(Packet) /\ nulls \in Seq(Packet)
      BY <1>1, <1>2
    <2> QED BY <1>3, <2>1, WrittenFile
  <1> HIDE DEF emptied
  <1>5. Len(emptied) < 2 * MaxTm
    BY <1>1, <1>2, <1>4
  <1>6. ASSUME NEW s \in 0 .. MaxTm - 1
        PROVE  /\ s >= o /\ s < o + n => Elem(emptied, s) = Null
               /\ ~(s >= o /\ s < o + n) /\ Elem(data, s) # Untouched =>
                     Elem(emptied, s) = Elem(data, s)
    <2>1. s \in Nat /\ (s \in o .. o + Len(nulls) - 1 <=> s >= o /\ s < o + n)
      BY <1>1, <1>2
    <2>2. CASE s >= o /\ s < o + n
      <3>1. s - o + 1 \in 1 .. n
        BY <1>1, <2>2
      <3> QED BY <1>2, <1>4, <2>1, <2>2, <3>1
    <2>3. CASE ~(s >= o /\ s < o + n) /\ Elem(data, s) # Untouched
      <3>1. s < Len(data)
        BY <2>3 DEF Elem
      <3> QED BY <1>4, <2>1, <2>3, <3>1
    <2> QED BY <2>2, <2>3
  <1>7. count \in 0 .. n
    BY <1>1
  <1>8. Wiped(data, emptied, o, count)
    <2> SUFFICES ASSUME NEW i \in 1 .. MaxTm
                 PROVE  /\ i =< count => Elem(emptied, Slot(o, i)) = Null
                        /\ i > count /\ Elem(data, Slot(o, i)) # Untouched =>
                              Elem(emptied, Slot(o, i)) = Elem(data, Slot(o, i))
                        /\ Elem(data, i - 1) # Untouched =>
                              Elem(emptied, i - 1) \in {Null, Elem(data, i - 1)}
      BY DEF Wiped
    <2> DEFINE s == Slot(o, i)
    <2>1. /\ s \in 0 .. MaxTm - 1 /\ i - 1 \in 0 .. MaxTm - 1
          /\ s = IF o + i - 1 < MaxTm THEN o + i - 1 ELSE o + i - 1 - MaxTm
      BY <1>1, SlotRange
    <2> HIDE DEF s
    <2>2. i =< count <=> s >= o /\ s < o + n
      BY <1>1, <2>1
    <2>3. i > count <=> ~(i =< count)
      BY <1>1
    <2> HIDE DEF count
    <2> QED BY <1>6, <2>1, <2>2, <2>3 DEF s
  <1>9. n = 0 => emptied = data
    BY <1>2 DEF emptied, Written
  <1> QED BY <1>4, <1>5, <1>7, <1>8, <1>9 DEF emptied, nulls, o, n

-----------------------------------------------------------------------------
(* Elements that a handler counts, when some of the ring is erased *)

Counted(file, h, i) == Elem(file, Slot(h.oldest_tm_position, i))

\* The counted elements are in the order of their dates, and the dates of the
\* handler are those of the two ends.
Consistent(file, h) ==
    /\ \A i \in 1 .. h.tm_number : Counted(file, h, i) \in Packet
    /\ \A i, j \in 1 .. h.tm_number : i =< j => Counted(file, h, i) =< Counted(file, h, j)
    /\ h.tm_number > 0 =>
          /\ Counted(file, h, 1) # Null => Counted(file, h, 1) = h.oldest_time
          /\ Counted(file, h, h.tm_number) \in {h.newest_time, Null}

\* The erasures of a handler that is d elements ahead of h.
LEMMA WipedElements ==
    ASSUME NEW file, NEW erased, NEW h \in Handler, Consistent(file, h),
           NEW d \in 0 .. MaxTm, NEW count \in 0 .. MaxTm, d + count =< MaxTm,
           \A i \in 1 .. d : i =< h.tm_number => Counted(file, h, i) = Null,
           Wiped(file, erased, (h.oldest_tm_position + d) % MaxTm, count)
    PROVE  /\ \A i \in 1 .. h.tm_number :
                 Counted(erased, h, i) = IF i =< d + count THEN Null
                                         ELSE Counted(file, h, i)
           /\ Consistent(erased, h)
  <1> DEFINE o == h.oldest_tm_position
             n == h.tm_number
             p == (o + d) % MaxTm
  <1>1. o \in 0 .. MaxTm - 1 /\ n \in 0 .. MaxTm /\ MaxTm \in Nat /\ MaxTm > 0
    BY PacketFacts DEF Handler
  <1>2. ASSUME NEW i \in 1 .. n
        PROVE  Counted(erased, h, i) = IF i =< d + count THEN Null
                                       ELSE Counted(file, h, i)
    <2>1. i \in 1 .. MaxTm
      BY <1>1
    <2>2. Counted(file, h, i) # Untouched
      BY <1>2, PacketFacts DEF Consistent
    <2>3. CASE i =< d
      <3> DEFINE s == Slot(o, i)
      <3>1. s + 1 \in 1 .. MaxTm /\ (s + 1) - 1 = s
        <4>1. s \in 0 .. MaxTm - 1
          BY <1>1, <2>1, SlotRange
        <4> HIDE DEF s
        <4> QED BY <1>1, <4>1
      <3>2. Counted(file, h, i) = Null
        BY <2>3
      <3>3. i =< d + count
        BY <2>3
      <3>4. Elem(file, s) = Null /\ Elem(file, s) # Untouched
        BY <2>2, <3>2 DEF Counted
      <3>5. Elem(erased, s) = Null
        BY <3>1, <3>4 DEF Wiped
      <3> QED BY <3>3, <3>5 DEF Counted
    <2>4. CASE ~(i =< d)
      <3>1. /\ i - d \in 1 .. MaxTm /\ d + (i - d) = i /\ d + (i - d) =< MaxTm
            /\ i =< d + count <=> i - d =< count
            /\ ~(i - d =< count) <=> i - d > count
        BY <1>1, <2>1, <2>4
      <3>2. Slot(p, i - d) = Slot(o, i)
        BY <1>1, <3>1, SlotShift
      <3> HIDE DEF p
      <3>3. /\ i - d =< count => Elem(erased, Slot(p, i - d)) = Null
            /\ i - d > count /\ Elem(file, Slot(p, i - d)) # Untouched =>
                  Elem(erased, Slot(p, i - d)) = Elem(file, Slot(p, i - d))
        BY <3>1 DEF Wiped, p
      <3> QED BY <2>2, <3>1, <3>2, <3>3 DEF Counted
    <2> QED BY <2>3, <2>4
  <1>3. Consistent(erased, h)
    <2>1. \A i \in 1 .. n : Counted(erased, h, i) \in Packet
      BY <1>2, PacketFacts DEF Consistent
    <2>2. ASSUME NEW i \in 1 .. n, NEW j \in 1 .. n, i =< j
          PROVE  Counted(erased, h, i) =< Counted(erased, h, j)
      <3>1. CASE i =< d + count
        <4>1. Counted(erased, h, i) = 0
          BY <1>2, <3>1, PacketFacts
        <4>2. Counted(erased, h, j) \in Nat
          BY <2>1, PacketFacts
        <4> QED BY <4>1, <4>2
      <3>2. CASE ~(i =< d + count)
        <4>1. ~(j =< d + count)
          BY <1>1, <2>2, <3>2
        <4> QED BY <1>2, <2>2, <3>2, <4>1 DEF Consistent
      <3> QED BY <3>1, <3>2
    <2>3. ASSUME n > 0
          PROVE  /\ Counted(erased, h, 1) # Null => Counted(erased, h, 1) = h.oldest_time
                 /\ Counted(erased, h, n) \in {h.newest_time, Null}
      <3>1. 1 \in 1 .. n /\ n \in 1 .. n
        BY <1>1, <2>3
      <3> QED BY <1>2, <2>3, <3>1 DEF Consistent
    <2> QED BY <2>1, <2>2, <2>3 DEF Consistent
  <1> QED BY <1>2, <1>3
-----------------------------------------------------------------------------
(* What is deleted *)

\* The write position lies behind the counted elements.
Ring(h) == h.write_to = (h.oldest_tm_position + h.tm_number) % MaxTm

\* The slots met from the newest element back.
LEMMA BackSlots ==
    ASSUME TypeOK, Ring(handler), NEW k \in Indices
    PROVE  /\ handler.tm_number - k \in 1 .. handler.tm_number
           /\ BackSlot(k) = Slot(handler.oldest_tm_position, handler.tm_number - k)
           /\ At(BackSlot(k)) = Counted(data, handler, handler.tm_number - k)
  <1> DEFINE o == handler.oldest_tm_position
             n == handler.tm_number
             w == handler.write_to
  <1>1. /\ o \in 0 .. MaxTm - 1 /\ n \in 0 .. MaxTm /\ MaxTm \in Nat /\ MaxTm > 0
        /\ w \in 0 .. MaxTm - 1 /\ w = (o + n) % MaxTm
        /\ k \in 0 .. n - 1 /\ k \in 0 .. MaxTm - 1
    BY PacketFacts DEF TypeOK, Handler, Ring, Indices
  <1>2. BackSlot(k) = (w - 1 - k) % MaxTm
    BY DEF BackSlot
  <1> HIDE DEF o, n, w
  <1>3. w = IF o + n < MaxTm THEN o + n ELSE o + n - MaxTm
    <2> DEFINE x == o + n
    <2>1. x \in Int /\ 0 =< x /\ x < 2 * MaxTm /\ -MaxTm =< x
      BY <1>1
    <2>2. w = x % MaxTm
      BY <1>1
    <2> HIDE DEF x
    <2>3. /\ x \in 0 .. MaxTm - 1 => x % MaxTm = x
          /\ x >= MaxTm => x % MaxTm = x - MaxTm
      BY <1>1, <2>1, RingPosition
    <2>4. w = IF x < MaxTm THEN x ELSE x - MaxTm
      BY <1>1, <2>1, <2>2, <2>3
    <2> QED BY <1>1, <2>4 DEF x
  <1>4. (w - 1 - k) % MaxTm = IF w - 1 - k >= 0 THEN w - 1 - k ELSE w - 1 - k + MaxTm
    BY <1>1, BackInRing
  <1>5. n - k \in 1 .. n /\ n - k \in 1 .. MaxTm
    BY <1>1
  <1>6. Slot(o, n - k) = IF o + (n - k) - 1 < MaxTm THEN o + (n - k) - 1
                         ELSE o + (n - k) - 1 - MaxTm
    BY <1>1, <1>5, SlotRange
  <1>7. BackSlot(k) = Slot(o, n - k)
    <2> DEFINE b == BackSlot(k)
               s == Slot(o, n - k)
    <2>1. b = IF w - 1 - k >= 0 THEN w - 1 - k ELSE w - 1 - k + MaxTm
      BY <1>2, <1>4
    <2>2. s = IF o + (n - k) - 1 < MaxTm THEN o + (n - k) - 1
              ELSE o + (n - k) - 1 - MaxTm
      BY <1>6
    <2> HIDE DEF b, s
    <2>3. b = s
      BY <1>1, <1>3, <2>1, <2>2
    <2> QED BY <2>3 DEF b, s
  <1> QED BY <1>5, <1>7 DEF o, n, At, Counted, Elem

\* A deletion erases at least one element, none after the newest one that is old
\* enough, and all before that one.
LEMMA DeletedElements ==
    ASSUME TypeOK, Ring(handler), NEW time \in Time, EndHits(time) # {}
    PROVE  \E i \in 1 .. handler.tm_number :
              /\ Counted(data, handler, i) =< time
              /\ DeleteStop(time) \in 1 .. i
              /\ DeleteStop(time) >= i - 1
              /\ \A j \in i + 1 .. handler.tm_number :
                    \/ ~(Counted(data, handler, j) =< time)
                    \/ Counted(data, handler, j) = Untouched
  <1> DEFINE o == handler.oldest_tm_position
             n == handler.tm_number
  <1>1. /\ o \in 0 .. MaxTm - 1 /\ n \in 0 .. MaxTm /\ MaxTm \in Nat /\ MaxTm > 0
    BY PacketFacts DEF TypeOK, Handler
  <1>2. PICK k \in EndHits(time) :
           Min(EndHits(time)) = k /\ \A y \in EndHits(time) : k =< y
    <2>1. EndHits(time) \in SUBSET Nat
      BY <1>1 DEF EndHits, Indices
    <2>2. \E x \in EndHits(time) : \A y \in EndHits(time) : x =< y
      BY <2>1, LeastNumber
    <2> QED BY <2>1, <2>2 DEF Min
  <1>3. k \in Indices /\ At(BackSlot(k)) =< time
    BY DEF EndHits
  <1> DEFINE i == n - k
             end == BackSlot(k)
             stop == DeleteStop(time)
  <1>4. /\ i \in 1 .. n /\ i \in 1 .. MaxTm /\ end = Slot(o, i)
        /\ At(end) = Counted(data, handler, i)
    <2>1. i \in 1 .. n /\ end = Slot(o, i) /\ At(end) = Counted(data, handler, i)
      BY <1>3, BackSlots
    <2> QED BY <1>1, <2>1
  <1>5. Counted(data, handler, i) =< time
    BY <1>3, <1>4
  <1>10. ASSUME NEW j \in i + 1 .. n
         PROVE  \/ ~(Counted(data, handler, j) =< time)
                \/ Counted(data, handler, j) = Untouched
    <2>1. n - j \in Indices /\ n - j < k /\ n - (n - j) = j
      BY <1>1, <1>3 DEF Indices
    <2>2. n - j \notin EndHits(time)
      BY <1>1, <1>2, <1>3, <2>1 DEF Indices
    <2>3. At(BackSlot(n - j)) = Counted(data, handler, j)
      BY <2>1, BackSlots
    <2> QED BY <2>1, <2>2, <2>3 DEF EndHits
  <1>6. stop = NumberBetween(o, end)
    BY <1>2 DEF DeleteStop, EndPosition
  <1>7. stop = IF end >= o THEN end - o + 1
               ELSE LET distance == (MaxTm - 1 - o) + end
                    IN  (IF distance < 0 THEN Huge ELSE 0) + distance + 1
    BY <1>6 DEF NumberBetween, tail
  <1>8. end = IF o + i - 1 < MaxTm THEN o + i - 1 ELSE o + i - 1 - MaxTm
    BY <1>1, <1>4, SlotRange
  <1> HIDE DEF o, n, i, end, stop
  <1>9. stop \in 1 .. i /\ stop >= i - 1
    <2>1. CASE o + i - 1 < MaxTm
      <3>1. end >= o /\ end = o + i - 1
        BY <1>1, <1>4, <1>8, <2>1
      <3> QED BY <1>1, <1>4, <1>7, <3>1
    <2>2. CASE ~(o + i - 1 < MaxTm)
      <3>1. ~(end >= o) /\ end = o + i - 1 - MaxTm /\ ~((MaxTm - 1 - o) + end < 0)
        BY <1>1, <1>4, <1>8, <2>2
      <3>2. stop = (MaxTm - 1 - o) + end + 1
        BY <1>1, <1>4, <1>7, <3>1
      <3>3. stop = i - 1 /\ i > 1
        BY <1>1, <1>4, <2>2, <3>1, <3>2
      <3> QED BY <1>1, <1>4, <3>3
    <2> QED BY <2>1, <2>2
  <1> QED BY <1>4, <1>5, <1>9, <1>10 DEF n, stop
-----------------------------------------------------------------------------
(* Ranges *)

Ranges == TypeOK /\ Ring(handler) /\ Ring(info)

LEMMA FreshFits == FreshHandler \in Handler /\ Ring(FreshHandler)
  <1>1. 0 \in 0 .. MaxTm - 1 /\ 0 \in 0 .. MaxTm /\ 0 % MaxTm = 0
    BY SmallModulus, PacketFacts
  <1> QED BY <1>1 DEF FreshHandler, Handler, Ring

LEMMA FaultCounted ==
    ASSUME faults \in 0 .. MaxFaults, Fails
    PROVE  faults' \in 0 .. MaxFaults
  BY StoreAssumption DEF Fails, CanFail

\* The positions after a store.
LEMMA StoredHandler ==
    ASSUME NEW h \in Handler, Ring(h), NEW time \in Time, h.tm_number < MaxTm
    PROVE  LET o == IF h.tm_number = 0 THEN h.write_to ELSE h.oldest_tm_position
               w == Ascending(h.write_to)
           IN  /\ o = h.oldest_tm_position
               /\ w \in 0 .. MaxTm - 1
               /\ w = (o + (h.tm_number + 1)) % MaxTm
               /\ h.write_to = Slot(h.oldest_tm_position, h.tm_number + 1)
  <1> DEFINE o == h.oldest_tm_position
             n == h.tm_number
             w == h.write_to
  <1>1. /\ o \in 0 .. MaxTm - 1 /\ n \in 0 .. MaxTm - 1 /\ MaxTm \in Nat /\ MaxTm > 0
        /\ w \in 0 .. MaxTm - 1 /\ w = (o + n) % MaxTm
    BY PacketFacts DEF Handler, Ring
  <1>2. Ascending(w) = IF w + 1 > MaxTm - 1 THEN 0 ELSE w + 1
    BY DEF Ascending, tail
  <1> HIDE DEF o, n, w
  <1>3. (o + n) % MaxTm = IF o + n < MaxTm THEN o + n ELSE o + n - MaxTm
    BY <1>1, AheadInRing
  <1>4. n = 0 => w = o
    BY <1>1, <1>3
  <1> DEFINE x == o + (n + 1)
  <1>5. x \in Int /\ 0 =< x /\ x < 2 * MaxTm /\ -MaxTm =< x
    BY <1>1
  <1> HIDE DEF x
  <1>6. /\ x \in 0 .. MaxTm - 1 => x % MaxTm = x
        /\ x >= MaxTm => x % MaxTm = x - MaxTm
    BY <1>1, <1>5, RingPosition
  <1>7. Ascending(w) = x % MaxTm
    <2>1. CASE x < MaxTm
      <3>1. x \in 0 .. MaxTm - 1 /\ w = x - 1
        BY <1>1, <1>3, <1>5, <2>1 DEF x
      <3> QED BY <1>1, <1>2, <1>6, <3>1
    <2>2. CASE ~(x < MaxTm)
      <3>1. x >= MaxTm
        BY <1>1, <1>5, <2>2
      <3>2. w = (x - MaxTm) - 1 \/ (x = MaxTm /\ w = MaxTm - 1)
        BY <1>1, <1>3, <1>5, <3>1 DEF x
      <3>3. \/ w + 1 = x - MaxTm /\ x - MaxTm =< MaxTm - 1
            \/ x = MaxTm /\ w = MaxTm - 1
        BY <1>1, <1>5, <3>1, <3>2 DEF x
      <3> QED BY <1>1, <1>2, <1>5, <1>6, <3>1, <3>3
    <2> QED BY <2>1, <2>2
  <1>8. w = Slot(o, n + 1)
    <2>1. o + (n + 1) - 1 = o + n
      BY <1>1
    <2> QED BY <1>1, <2>1 DEF Slot
  <1>9. Ascending(w) \in 0 .. MaxTm - 1
    BY <1>1, <1>2
  <1> QED BY <1>4, <1>7, <1>8, <1>9 DEF o, n, w, x

\* The positions after a deletion.
LEMMA DeletedHandler ==
    ASSUME NEW h \in Handler, Ring(h), NEW stop \in 1 .. h.tm_number
    PROVE  /\ From(h.oldest_tm_position, stop) = (h.oldest_tm_position + stop) % MaxTm
           /\ From(h.oldest_tm_position, stop) \in 0 .. MaxTm - 1
           /\ h.write_to =
                 (From(h.oldest_tm_position, stop) + (h.tm_number - stop)) % MaxTm
  <1> DEFINE o == h.oldest_tm_position
             n == h.tm_number
             w == h.write_to
             p == (o + stop) % MaxTm
  <1>1. /\ o \in 0 .. MaxTm - 1 /\ n \in 0 .. MaxTm /\ MaxTm \in Nat /\ MaxTm > 0
        /\ w \in 0 .. MaxTm - 1 /\ w = (o + n) % MaxTm /\ stop \in 1 .. n
        /\ stop \in 0 .. MaxTm
    BY PacketFacts DEF Handler, Ring
  <1>2. From(o, stop) = p
    BY <1>1, FromIsSlot
  <1> HIDE DEF o, n, w
  <1> DEFINE x == o + n
             y == o + stop
             z == p + (n - stop)
  <1>3. /\ x \in Int /\ 0 =< x /\ x < 2 * MaxTm /\ -MaxTm =< x
        /\ y \in Int /\ 0 =< y /\ y < 2 * MaxTm /\ -MaxTm =< y
        /\ x = y + (n - stop) /\ 0 =< n - stop /\ n - stop < MaxTm /\ n - stop \in Int
    BY <1>1
  <1>4. p = y % MaxTm /\ w = x % MaxTm
    BY <1>1
  <1>5. z = p + (n - stop)
    OBVIOUS
  <1> HIDE DEF x, y, z, p
  <1>6. /\ y \in 0 .. MaxTm - 1 => y % MaxTm = y
        /\ y >= MaxTm => y % MaxTm = y - MaxTm
        /\ y % MaxTm \in 0 .. MaxTm - 1
    BY <1>1, <1>3, RingPosition
  <1>7. /\ x \in 0 .. MaxTm - 1 => x % MaxTm = x
        /\ x >= MaxTm => x % MaxTm = x - MaxTm
    BY <1>1, <1>3, RingPosition
  <1>8. z \in Int /\ 0 =< z /\ z < 2 * MaxTm /\ -MaxTm =< z
    BY <1>1, <1>3, <1>4, <1>5, <1>6
  <1>9. /\ z \in 0 .. MaxTm - 1 => z % MaxTm = z
        /\ z >= MaxTm => z % MaxTm = z - MaxTm
    BY <1>1, <1>8, RingPosition
  <1>10. w = z % MaxTm
    <2>1. CASE y < MaxTm
      <3>1. p = y /\ z = x
        BY <1>1, <1>3, <1>4, <1>5, <1>6, <2>1
      <3> QED BY <1>4, <3>1
    <2>2. CASE ~(y < MaxTm)
      <3>1. p = y - MaxTm /\ x >= MaxTm /\ z = x - MaxTm
        BY <1>1, <1>3, <1>4, <1>5, <1>6, <2>2
      <3>2. w = z /\ z \in 0 .. MaxTm - 1
        BY <1>1, <1>3, <1>4, <1>7, <3>1
      <3> QED BY <1>9, <3>2
    <2> QED BY <2>1, <2>2
  <1>11. p \in 0 .. MaxTm - 1
    BY <1>4, <1>6
  <1> QED BY <1>2, <1>10, <1>11 DEF o, n, w, p, z
\* The control and the faults, in every step.
Control ==
    /\ pc \in {"stopped", "idle", "update_info"}
    /\ operation = "none" <=> pc # "update_info"
    /\ faults \in 0 .. MaxFaults

FileFits == data \in Seq(Packet) /\ Len(data) < 2 * MaxTm
HandlerFits == handler \in Handler /\ Ring(handler)
InfoFits == info \in Handler /\ Ring(info)

LEMMA RangesInParts == Ranges <=> Control /\ FileFits /\ HandlerFits /\ InfoFits
  BY DEF Ranges, TypeOK, Control, FileFits, HandlerFits, InfoFits, Packet

LEMMA ControlStep == Control /\ [Next]_vars => Control'
  <1> SUFFICES ASSUME Control, [Next]_vars PROVE Control'
    OBVIOUS
  <1>1. faults' = faults \/ Fails => faults' \in 0 .. MaxFaults
    BY FaultCounted DEF Control
  <1> USE <1>1
  <1>2. CASE StartFresh \/ StartAgain
    BY <1>2 DEF StartFresh, StartAgain, files, Control
  <1>3. CASE StartFails
    BY <1>3 DEF StartFails, files, Control
  <1>4. CASE Stop
    BY <1>4 DEF Stop, Halt, Control
  <1>5. CASE StoreFull
    BY <1>5 DEF StoreFull, Control
  <1>6. ASSUME NEW time \in Time, StoreTooOld(time) PROVE Control'
    BY <1>6 DEF StoreTooOld, Control
  <1>7. ASSUME NEW time \in Time, StoreNoFile(time) PROVE Control'
    BY <1>7 DEF StoreNoFile, Control
  <1>8. ASSUME NEW time \in Time, Store(time) PROVE Control'
    <2>1. faults' = faults \/ Fails
      BY <1>8 DEF Store
    <2>2. operation' = "store" /\ pc' = "update_info"
      BY <1>8 DEF Store
    <2> QED BY <2>1, <2>2 DEF Control
  <1>9. CASE UpdateInfo
    BY <1>9 DEF UpdateInfo, Control
  <1>10. CASE UpdateInfoFails
    <2>1. faults' = faults \/ Fails
      BY <1>10 DEF UpdateInfoFails
    <2>2. operation' = "none" /\ pc' = "idle"
      BY <1>10 DEF UpdateInfoFails
    <2> QED BY <2>1, <2>2 DEF Control
  <1>11. ASSUME NEW start \in Time, NEW end \in Time, NEW size \in Sizes,
                Read(start, end, size)
         PROVE  Control'
    BY <1>11 DEF Read, Control
  <1>12. ASSUME NEW start \in Time, NEW end \in Time, NEW size \in Sizes,
                ReadNoFile(start, end, size)
         PROVE  Control'
    <2>1. Fails /\ pc' = pc /\ operation' = operation
      BY <1>12 DEF ReadNoFile
    <2> QED BY <2>1 DEF Control
  <1>13. ASSUME NEW time \in Time, DeleteAll(time) PROVE Control'
    <2>1. operation' = "delete" /\ pc' = "update_info" /\ faults' = faults
      BY <1>13 DEF DeleteAll
    <2> QED BY <2>1 DEF Control
  <1>14. ASSUME NEW time \in Time, DeleteSome(time) PROVE Control'
    <2>1. operation' = "delete" /\ pc' = "update_info" /\ faults' = faults
      BY <1>14 DEF DeleteSome
    <2> QED BY <2>1 DEF Control
  <1>15. ASSUME NEW time \in Time, StopWhileErasing(time) PROVE Control'
    <2>1. operation' = "none" /\ pc' = "stopped" /\ Fails
      BY <1>15 DEF StopWhileErasing, Halt
    <2> QED BY <2>1 DEF Control
  <1>16. ASSUME NEW time \in Time, DeleteRefused(time) PROVE Control'
    <2>1. faults' = faults \/ Fails
      BY <1>16 DEF DeleteRefused
    <2>2. pc' = pc /\ operation' = operation
      BY <1>16 DEF DeleteRefused
    <2> QED BY <2>1, <2>2 DEF Control
  <1>17. CASE UNCHANGED vars
    BY <1>17 DEF vars, Control
  <1> QED BY <1>2, <1>3, <1>4, <1>5, <1>6, <1>7, <1>8, <1>9, <1>10, <1>11, <1>12,
             <1>13, <1>14, <1>15, <1>16, <1>17 DEF Next

-----------------------------------------------------------------------------
(* What each step does to the handlers and to the file *)

\* Neither the handlers nor the file change.
Idles == UNCHANGED <<handler, info, data>>

LEMMA StoreFits ==
    ASSUME Ranges, NEW time \in Time, Store(time)
    PROVE  FileFits' /\ HandlerFits' /\ InfoFits'
  <1> DEFINE w == handler.write_to
  <1>1. /\ handler \in Handler /\ Ring(handler) /\ handler.tm_number < MaxTm
        /\ handler.tm_number \in Nat /\ MaxTm \in Nat /\ MaxTm > 0
        /\ w \in 0 .. MaxTm - 1 /\ w \in Nat /\ time \in Packet
        /\ data \in Seq(Packet) /\ Len(data) < 2 * MaxTm /\ Len(data) \in Nat
    BY PacketFacts DEF Ranges, TypeOK, Handler, Store, StoreAccepts, Packet
  <1>2. /\ InfoFits /\ info' = info
    BY DEF Store, Ranges, TypeOK, InfoFits
  <1>3. /\ handler' = [Dated(time) EXCEPT !.write_to = Ascending(w),
                                          !.tm_number = handler.tm_number + 1,
                                          !.newest_time = time]
        /\ \/ data' = Written(data, w, <<time>>)
           \/ data' = Written(<< >>, w, <<time>>)
    BY DEF Store
  <1>4. ASSUME NEW file \in Seq(Packet), Len(file) < 2 * MaxTm
        PROVE  /\ Written(file, w, <<time>>) \in Seq(Packet)
               /\ Len(Written(file, w, <<time>>)) < 2 * MaxTm
    <2>1. w \in Nat /\ time \in Packet
      BY <1>1
    <2>2. w + 1 < 2 * MaxTm
      BY <1>1
    <2> HIDE DEF w
    <2>3. /\ Written(file, w, <<time>>) \in Seq(Packet)
          /\ Len(Written(file, w, <<time>>)) =
                IF Len(file) >= w + 1 THEN Len(file) ELSE w + 1
      BY <2>1, WrittenOne
    <2> QED BY <1>4, <2>2, <2>3
  <1>5. FileFits'
    <2>1. << >> \in Seq(Packet) /\ Len(<< >>) < 2 * MaxTm
      BY <1>1
    <2> QED BY <1>1, <1>3, <1>4, <2>1 DEF FileFits
  <1>6. HandlerFits'
    <2>1. /\ Ascending(w) \in 0 .. MaxTm - 1
          /\ Ascending(w) = (handler.oldest_tm_position + (handler.tm_number + 1)) % MaxTm
          /\ handler.tm_number = 0 => w = handler.oldest_tm_position
      BY <1>1, StoredHandler
    <2>2. /\ handler'.write_to = Ascending(w)
          /\ handler'.tm_number = handler.tm_number + 1
          /\ handler'.oldest_tm_position = handler.oldest_tm_position
          /\ handler' \in Handler
      <3>1. handler.tm_number + 1 \in 0 .. MaxTm
        BY <1>1
      <3> HIDE DEF w
      <3>2. /\ Dated(time) \in Handler
            /\ Dated(time).oldest_tm_position = handler.oldest_tm_position
        BY <1>1, <2>1 DEF Dated, Handler, w
      <3> QED BY <1>3, <2>1, <3>1, <3>2 DEF Handler
    <2> QED BY <2>1, <2>2 DEF HandlerFits, Ring
  <1> QED BY <1>2, <1>5, <1>6 DEF InfoFits

LEMMA DeleteSomeFits ==
    ASSUME Ranges, NEW time \in Time, DeleteSome(time)
    PROVE  FileFits' /\ HandlerFits' /\ InfoFits'
  <1> DEFINE stop == DeleteStop(time)
             oldest == From(handler.oldest_tm_position, stop)
  <1>1. /\ handler \in Handler /\ Ring(handler) /\ TypeOK /\ InfoFits
        /\ handler.tm_number \in 0 .. MaxTm /\ MaxTm \in Nat /\ MaxTm > 0
    BY PacketFacts DEF Ranges, TypeOK, Handler, InfoFits
  <1>2. stop \in 1 .. handler.tm_number /\ stop \in 1 .. MaxTm
    <2>1. EndHits(time) # {}
      BY DEF DeleteSome, DeletesSome
    <2>2. PICK i \in 1 .. handler.tm_number : stop \in 1 .. i
      BY <1>1, <2>1, DeletedElements
    <2> HIDE DEF stop
    <2> QED BY <1>1, <2>2
  <1>3. /\ data' = Erased(stop) /\ info' = info
        /\ \E read \in Packet \cup {handler.oldest_time} :
              handler' = [handler EXCEPT !.tm_number = handler.tm_number - stop,
                                         !.oldest_tm_position = oldest,
                                         !.oldest_time = read]
    <2>1. data' = Erased(stop) /\ info' = info
      BY DEF DeleteSome
    <2>2. handler' = [handler EXCEPT !.tm_number = handler.tm_number - stop,
                                     !.oldest_tm_position = oldest,
                                     !.oldest_time = IF oldest < Len(data')
                                                     THEN data'[oldest + 1]
                                                     ELSE handler.oldest_time]
      BY DEF DeleteSome
    <2>3. data' \in Seq(Packet)
      BY <1>1, <1>2, <2>1, ErasedFile
    <2>4. oldest \in 0 .. MaxTm - 1
      BY <1>1, <1>2, DeletedHandler
    <2> HIDE DEF oldest, stop
    <2>5. oldest < Len(data') => data'[oldest + 1] \in Packet
      BY <1>1, <2>3, <2>4
    <2> QED BY <2>1, <2>2, <2>5
  <1>4. /\ oldest \in 0 .. MaxTm - 1
        /\ handler.write_to = (oldest + (handler.tm_number - stop)) % MaxTm
    BY <1>1, <1>2, DeletedHandler
  <1>5. FileFits'
    BY <1>1, <1>2, <1>3, ErasedFile DEF FileFits
  <1> HIDE DEF stop, oldest
  <1>6. HandlerFits'
    <2>1. /\ handler'.write_to = handler.write_to
          /\ handler'.tm_number = handler.tm_number - stop
          /\ handler'.oldest_tm_position = oldest
          /\ handler' \in Handler
      <3>1. PICK read \in Packet \cup {handler.oldest_time} :
               handler' = [handler EXCEPT !.tm_number = handler.tm_number - stop,
                                          !.oldest_tm_position = oldest,
                                          !.oldest_time = read]
        BY <1>3
      <3>2. read \in Time \cup {0}
        BY <1>1 DEF Handler, Packet, Null
      <3>3. handler.tm_number - stop \in 0 .. MaxTm
        BY <1>1, <1>2
      <3> QED BY <1>1, <1>4, <3>1, <3>2, <3>3 DEF Handler
    <2> QED BY <1>4, <2>1 DEF HandlerFits, Ring
  <1> QED BY <1>1, <1>3, <1>5, <1>6 DEF InfoFits
LEMMA DeleteAllFits ==
    ASSUME Ranges, NEW time \in Time, DeleteAll(time)
    PROVE  FileFits' /\ HandlerFits' /\ InfoFits'
  <1>1. /\ data' = Written(data, handler.oldest_tm_position,
                           [i \in 1 .. handler.tm_number |-> Null])
        /\ handler' = FreshHandler /\ info' = info
    BY DEF DeleteAll
  <1>2. data' \in Seq(Packet) /\ Len(data') < 2 * MaxTm
    BY <1>1, EmptiedFile DEF Ranges
  <1> QED BY <1>1, <1>2, FreshFits
          DEF FileFits, HandlerFits, InfoFits, Ranges, TypeOK, Ring

LEMMA StopWhileErasingFits ==
    ASSUME Ranges, NEW time \in Time, StopWhileErasing(time)
    PROVE  FileFits' /\ HandlerFits' /\ InfoFits'
  <1>1. PICK count \in 1 .. DeleteStop(time) : data' = Erased(count)
    BY DEF StopWhileErasing
  <1>2. count \in 1 .. MaxTm
    <2>1. handler.tm_number \in 0 .. MaxTm /\ MaxTm \in Nat
      BY PacketFacts DEF Ranges, TypeOK, Handler
    <2>2. PICK i \in 1 .. handler.tm_number : DeleteStop(time) \in 1 .. i
      BY DeletedElements DEF StopWhileErasing, DeletesSome, Ranges
    <2> QED BY <2>1, <2>2
  <1>3. data' \in Seq(Packet) /\ Len(data') < 2 * MaxTm
    BY <1>1, <1>2, ErasedFile DEF Ranges
  <1>4. handler' = FreshHandler /\ info' = info
    BY DEF StopWhileErasing, Halt
  <1> QED BY <1>3, <1>4, FreshFits
          DEF FileFits, HandlerFits, InfoFits, Ranges, TypeOK, Ring

LEMMA InitialRanges == Init => Ranges
  <1> SUFFICES ASSUME Init PROVE Ranges
    OBVIOUS
  <1>1. Control
    BY StoreAssumption DEF Init, Control
  <1>2. FileFits
    <2>1. << >> \in Seq(Packet) /\ Len(<< >>) < 2 * MaxTm
      BY PacketFacts
    <2> QED BY <2>1 DEF Init, FileFits
  <1>3. HandlerFits /\ InfoFits
    BY FreshFits DEF Init, HandlerFits, InfoFits
  <1> QED BY <1>1, <1>2, <1>3, RangesInParts

LEMMA RangesStep == Ranges /\ [Next]_vars => Ranges'
  <1> SUFFICES ASSUME Ranges, [Next]_vars PROVE Ranges'
    OBVIOUS
  <1> DEFINE Fits == FileFits' /\ HandlerFits' /\ InfoFits'
  <1>1. Control /\ FileFits /\ HandlerFits /\ InfoFits
    BY RangesInParts
  <1>2. Control'
    BY <1>1, ControlStep
  <1>3. Idles => Fits
    BY <1>1 DEF Idles, FileFits, HandlerFits, InfoFits, Ring
  <1>4. handler' \in {handler, info, FreshHandler} /\ info' \in {handler, info, FreshHandler}
        /\ data' = data => Fits
    BY <1>1, FreshFits DEF FileFits, HandlerFits, InfoFits, Ring
  <1>5. ASSUME StartFresh \/ StartAgain \/ StartFails PROVE Fits
    BY <1>4, <1>5 DEF StartFresh, StartAgain, StartFails, files
  <1>6. ASSUME Stop \/ UpdateInfo \/ UpdateInfoFails PROVE Fits
    BY <1>4, <1>6 DEF Stop, Halt, UpdateInfo, UpdateInfoFails, files
  <1>7. ASSUME StoreFull PROVE Fits
    BY <1>3, <1>7 DEF StoreFull, Idles, files
  <1>8. ASSUME NEW time \in Time, StoreTooOld(time) PROVE Fits
    BY <1>3, <1>8 DEF StoreTooOld, Idles, files
  <1>9. ASSUME NEW time \in Time, StoreNoFile(time) PROVE Fits
    <2>1. /\ handler \in Handler /\ Ring(handler) /\ handler.tm_number < MaxTm
          /\ handler' = Dated(time) /\ info' = info /\ data' = data
      BY <1>9 DEF StoreNoFile, StoreAccepts, files, Ranges, TypeOK
    <2>2. handler.tm_number = 0 => handler.write_to = handler.oldest_tm_position
      BY <1>9, <2>1, StoredHandler
    <2>3. handler' \in Handler /\ Ring(handler')
      BY <2>1, <2>2, <1>9 DEF Dated, Handler, Ring
    <2> QED BY <1>1, <2>1, <2>3 DEF FileFits, HandlerFits, InfoFits, Ring
  <1>10. ASSUME NEW time \in Time, Store(time) PROVE Fits
    BY <1>10, StoreFits
  <1>11. ASSUME NEW start \in Time, NEW end \in Time, NEW size \in Sizes,
                Read(start, end, size) \/ ReadNoFile(start, end, size)
         PROVE  Fits
    BY <1>3, <1>11 DEF Read, ReadNoFile, Idles, files
  <1>12. ASSUME NEW time \in Time, DeleteAll(time) PROVE Fits
    BY <1>12, DeleteAllFits
  <1>13. ASSUME NEW time \in Time, DeleteSome(time) PROVE Fits
    BY <1>13, DeleteSomeFits
  <1>14. ASSUME NEW time \in Time, StopWhileErasing(time) PROVE Fits
    BY <1>14, StopWhileErasingFits
  <1>15. ASSUME NEW time \in Time, DeleteRefused(time) PROVE Fits
    BY <1>3, <1>15 DEF DeleteRefused, Idles, files
  <1>16. ASSUME UNCHANGED vars PROVE Fits
    BY <1>3, <1>16 DEF vars, Idles
  <1> HIDE DEF Fits
  <1>17. Fits
    BY <1>5, <1>6, <1>7, <1>8, <1>9, <1>10, <1>11, <1>12, <1>13, <1>14, <1>15, <1>16
       DEF Next
  <1>18. (Control /\ FileFits /\ HandlerFits /\ InfoFits)'
    BY <1>1, <1>2, <1>17 DEF Fits
  <1> QED BY <1>18 DEF Ranges, TypeOK, Control, FileFits, HandlerFits, InfoFits, Packet

\* The handler stays inside the ring, in memory and in the info file, whatever
\* stops and failed openings there are, for rings of every size.
THEOREM HandlerType == Spec => []TypeOK
  <1>1. Ranges => TypeOK
    BY DEF Ranges
  <1> QED BY InitialRanges, RangesStep, <1>1, PTL DEF Spec
-----------------------------------------------------------------------------
(* What the handlers count, across stops, restarts and failed openings *)

Running == pc # "stopped"

\* The handler is d elements ahead of the info file, and they were erased.
Ahead(file, d) ==
    /\ handler.oldest_tm_position = (info.oldest_tm_position + d) % MaxTm
    /\ d + handler.tm_number =< MaxTm
    /\ \A i \in 1 .. d : i =< info.tm_number => Counted(file, info, i) = Null

HandlerConsists == ~handler_lost => Consistent(data, handler)
InfoConsists == ~info_lost => Consistent(data, info)

\* What the info file counts is what was acknowledged, less erased elements.
Keeps(file) ==
    /\ Len(acknowledged) = info.tm_number
    /\ \E k \in 0 .. info.tm_number :
          /\ \A i \in 1 .. k : Counted(file, info, i) = Null
          /\ \A i \in k + 1 .. info.tm_number : Counted(file, info, i) = acknowledged[i]
          /\ Running /\ ~stale => k = 0
InfoKeeps == ~info_lost => Keeps(data)

\* The handler of a program that runs starts from the one of the info file, and
\* goes on from it until elements are erased.
Continues ==
    /\ ~info_exists => info = FreshHandler
    /\ ~Running => handler = FreshHandler /\ ~stale /\ ~handler_lost
    /\ Running /\ ~stale =>
          /\ info.tm_number =< handler.tm_number
          /\ info.tm_number > 0 => info.oldest_tm_position = handler.oldest_tm_position
    /\ Running /\ stale /\ ~info_lost /\ info.tm_number > 0 /\ handler.tm_number > 0 =>
          \E d \in 0 .. MaxTm : Ahead(data, d)

SdInv == Ranges /\ HandlerConsists /\ InfoConsists /\ InfoKeeps /\ Continues

\* What the elements are, in the words of the properties.
LEMMA ContentsElements ==
    ASSUME NEW h \in Handler
    PROVE  /\ Contents(h) = [i \in 1 .. h.tm_number |-> Counted(data, h, i)]
           /\ Len(Contents(h)) = h.tm_number
           /\ \A i \in 1 .. h.tm_number : Contents(h)[i] = Counted(data, h, i)
  <1>1. h.tm_number \in Nat
    BY PacketFacts DEF Handler
  <1>2. Contents(h) = [i \in 1 .. h.tm_number |-> Counted(data, h, i)]
    BY DEF Contents, Counted, Elem, At, Slot
  <1> QED BY <1>1, <1>2

LEMMA InvariantShowsMatch == SdInv => HandlerMatchesData
  <1> SUFFICES ASSUME SdInv, ~handler_lost, handler.tm_number > 0
               PROVE  /\ handler.write_to =
                            (handler.oldest_tm_position + handler.tm_number) % MaxTm
                      /\ \A i \in 1 .. handler.tm_number : Stored[i] \in Time \cup {Null}
                      /\ HolesThenPackets(Stored)
                      /\ Stored[1] # Null => Stored[1] = handler.oldest_time
                      /\ Stored[handler.tm_number] \in {handler.newest_time, Null}
    BY DEF HandlerMatchesData
  <1> DEFINE n == handler.tm_number
  <1>1. handler \in Handler /\ Ring(handler) /\ Consistent(data, handler) /\ n \in Nat
    BY PacketFacts DEF SdInv, Ranges, TypeOK, HandlerConsists, Handler
  <1>2. Len(Stored) = n /\ \A i \in 1 .. n : Stored[i] = Counted(data, handler, i)
    BY <1>1, ContentsElements DEF Stored
  <1>3. 1 \in 1 .. n /\ n \in 1 .. n
    BY <1>1
  <1>4. ASSUME NEW i \in 1 .. n - 1 PROVE Stored[i] =< Stored[i + 1]
    <2>1. i \in 1 .. n /\ i + 1 \in 1 .. n /\ i =< i + 1
      BY <1>1
    <2> QED BY <1>1, <1>2, <2>1 DEF Consistent
  <1>5. HolesThenPackets(Stored)
    BY <1>2, <1>4 DEF HolesThenPackets
  <1> HIDE DEF n
  <1>6. /\ \A i \in 1 .. n : Stored[i] \in Time \cup {Null}
        /\ Stored[1] # Null => Stored[1] = handler.oldest_time
        /\ Stored[n] \in {handler.newest_time, Null}
    BY <1>1, <1>2, <1>3 DEF Consistent, Packet, n
  <1> QED BY <1>1, <1>5, <1>6 DEF n, Ring

LEMMA InvariantShowsKept == SdInv => InfoKeepsAcknowledged
  <1> SUFFICES ASSUME SdInv, ~info_lost, info_exists
               PROVE  /\ Len(Contents(info)) = Len(acknowledged)
                      /\ \E k \in 0 .. Len(acknowledged) :
                            /\ \A i \in 1 .. k : Contents(info)[i] = Null
                            /\ \A i \in k + 1 .. Len(acknowledged) :
                                  Contents(info)[i] = acknowledged[i]
                            /\ pc # "stopped" /\ ~stale => k = 0
    BY DEF InfoKeepsAcknowledged
  <1> DEFINE n == info.tm_number
  <1>1. info \in Handler /\ Keeps(data) /\ n \in Nat
    BY PacketFacts DEF SdInv, Ranges, TypeOK, InfoKeeps, Handler
  <1>2. Len(Contents(info)) = n /\ \A i \in 1 .. n : Contents(info)[i] = Counted(data, info, i)
    BY <1>1, ContentsElements
  <1> HIDE DEF n
  <1>3. Len(acknowledged) = n
    BY <1>1 DEF Keeps, n
  <1>4. PICK k \in 0 .. n : /\ \A i \in 1 .. k : Counted(data, info, i) = Null
                            /\ \A i \in k + 1 .. n : Counted(data, info, i) = acknowledged[i]
                            /\ Running /\ ~stale => k = 0
    BY <1>1 DEF Keeps, n
  <1>5. \A i \in 1 .. k : Contents(info)[i] = Null
    BY <1>1, <1>2, <1>4
  <1>6. \A i \in k + 1 .. n : Contents(info)[i] = acknowledged[i]
    BY <1>1, <1>2, <1>4
  <1> QED BY <1>2, <1>3, <1>4, <1>5, <1>6 DEF Running
\* The info file still counts what was acknowledged when the oldest elements of
\* the handler are erased, and the handler is that much further ahead.
LEMMA InfoWiped ==
    ASSUME SdInv, Running, ~info_lost, NEW erased, NEW count \in 0 .. handler.tm_number,
           Wiped(data, erased, handler.oldest_tm_position, count),
           handler.tm_number = 0 => erased = data
    PROVE  /\ Consistent(erased, info)
           /\ Len(acknowledged) = info.tm_number
           /\ \E k \in 0 .. info.tm_number :
                 /\ \A i \in 1 .. k : Counted(erased, info, i) = Null
                 /\ \A i \in k + 1 .. info.tm_number :
                       Counted(erased, info, i) = acknowledged[i]
           /\ info.tm_number > 0 /\ handler.tm_number > 0 =>
                 \E d \in 0 .. MaxTm :
                    /\ Ahead(data, d)
                    /\ \A i \in 1 .. d + count :
                          i =< info.tm_number => Counted(erased, info, i) = Null
  <1> DEFINE n == info.tm_number
  <1>1. /\ info \in Handler /\ handler \in Handler /\ Consistent(data, info) /\ Keeps(data)
        /\ n \in 0 .. MaxTm /\ handler.tm_number \in 0 .. MaxTm
        /\ handler.oldest_tm_position \in 0 .. MaxTm - 1
        /\ info.oldest_tm_position \in 0 .. MaxTm - 1
        /\ MaxTm \in Nat /\ MaxTm > 0
    BY PacketFacts DEF SdInv, Ranges, TypeOK, InfoConsists, InfoKeeps, Handler
  <1>2. PICK k \in 0 .. n : /\ \A i \in 1 .. k : Counted(data, info, i) = Null
                            /\ \A i \in k + 1 .. n : Counted(data, info, i) = acknowledged[i]
    BY <1>1 DEF Keeps
  <1>3. Len(acknowledged) = n
    BY <1>1 DEF Keeps
  <1>4. CASE handler.tm_number = 0
    <2>1. erased = data /\ ~(handler.tm_number > 0)
      BY <1>4
    <2> QED BY <1>1, <1>2, <1>3, <2>1
  <1>5. CASE n = 0
    <2>1. Consistent(erased, info)
      BY <1>5 DEF Consistent
    <2>2. \E j \in 0 .. n : /\ \A i \in 1 .. j : Counted(erased, info, i) = Null
                            /\ \A i \in j + 1 .. n :
                                  Counted(erased, info, i) = acknowledged[i]
      BY <1>5
    <2> QED BY <1>3, <1>5, <2>1, <2>2
  <1>6. CASE handler.tm_number # 0 /\ n # 0
    <2>1. n > 0 /\ handler.tm_number > 0
      BY <1>1, <1>6
    <2>2. PICK d \in 0 .. MaxTm : Ahead(data, d)
      <3>1. CASE stale
        BY <2>1, <3>1 DEF SdInv, Continues
      <3>2. CASE ~stale
        <4>1. info.oldest_tm_position = handler.oldest_tm_position
          BY <2>1, <3>2 DEF SdInv, Continues
        <4>2. (info.oldest_tm_position + 0) % MaxTm = info.oldest_tm_position
          BY <1>1, SmallModulus
        <4>3. Ahead(data, 0)
          BY <1>1, <4>1, <4>2 DEF Ahead
        <4>4. 0 \in 0 .. MaxTm
          BY <1>1
        <4> QED BY <4>3, <4>4
      <3> QED BY <3>1, <3>2
    <2>3. /\ handler.oldest_tm_position = (info.oldest_tm_position + d) % MaxTm
          /\ d + handler.tm_number =< MaxTm
          /\ \A i \in 1 .. d : i =< n => Counted(data, info, i) = Null
      BY <2>2 DEF Ahead
    <2>4. count \in 0 .. MaxTm /\ d + count =< MaxTm /\ d + count \in Nat
      BY <1>1, <2>3
    <2>5. /\ \A i \in 1 .. n : Counted(erased, info, i) = IF i =< d + count THEN Null
                                                        ELSE Counted(data, info, i)
          /\ Consistent(erased, info)
      BY <1>1, <2>3, <2>4, WipedElements
    <2> DEFINE least == IF d + count =< n THEN d + count ELSE n
               j == IF least >= k THEN least ELSE k
    <2>6. j \in 0 .. n /\ k =< j /\ (d + count =< j \/ n =< j)
          /\ (j = k \/ j =< d + count)
      BY <1>1, <2>4
    <2> HIDE DEF j
    <2>7. ASSUME NEW i \in 1 .. j PROVE Counted(erased, info, i) = Null
      <3>1. i \in 1 .. n /\ (i =< k \/ i =< d + count)
        BY <1>1, <2>4, <2>6
      <3>2. i =< k => Counted(data, info, i) = Null
        BY <1>2
      <3> QED BY <2>5, <3>1, <3>2
    <2>8. ASSUME NEW i \in j + 1 .. n PROVE Counted(erased, info, i) = acknowledged[i]
      <3>1. i \in 1 .. n /\ i \in k + 1 .. n /\ ~(i =< d + count)
        BY <1>1, <2>4, <2>6
      <3> QED BY <1>2, <2>5, <3>1
    <2>9. \A i \in 1 .. d + count : i =< n => Counted(erased, info, i) = Null
      BY <1>1, <2>4, <2>5
    <2> QED BY <1>3, <2>2, <2>5, <2>6, <2>7, <2>8, <2>9
  <1> QED BY <1>4, <1>5, <1>6

\* The elements a handler counts after its oldest ones are erased.
LEMMA HandlerWiped ==
    ASSUME NEW h \in Handler, Consistent(data, h), NEW erased, NEW stop \in 1 .. h.tm_number,
           NEW g, g.oldest_tm_position = (h.oldest_tm_position + stop) % MaxTm,
           g.tm_number = h.tm_number - stop, g.newest_time = h.newest_time,
           Wiped(data, erased, h.oldest_tm_position, stop)
    PROVE  /\ \A i \in 1 .. g.tm_number :
                 Counted(erased, g, i) = Counted(data, h, stop + i)
           /\ g.tm_number > 0 /\ Counted(erased, g, 1) = g.oldest_time
                 => Consistent(erased, g)
           /\ g.tm_number = 0 => Consistent(erased, g)
  <1> DEFINE o == h.oldest_tm_position
             n == h.tm_number
  <1>1. /\ o \in 0 .. MaxTm - 1 /\ n \in 0 .. MaxTm /\ MaxTm \in Nat /\ MaxTm > 0
        /\ stop \in 1 .. n
    BY PacketFacts DEF Handler
  <1>2. ASSUME NEW i \in 1 .. g.tm_number
        PROVE  /\ Counted(erased, g, i) = Counted(data, h, stop + i)
               /\ stop + i \in 1 .. n
    <2>1. /\ i \in 1 .. MaxTm /\ stop \in 0 .. MaxTm /\ stop + i =< MaxTm
          /\ stop + i \in 1 .. n /\ stop + i \in 1 .. MaxTm /\ stop + i > stop
      BY <1>1, <1>2
    <2>2. Slot(g.oldest_tm_position, i) = Slot(o, stop + i)
      BY <1>1, <2>1, SlotShift
    <2>3. Elem(data, Slot(o, stop + i)) # Untouched
      BY <2>1, PacketFacts DEF Consistent, Counted
    <2>4. Elem(erased, Slot(o, stop + i)) = Elem(data, Slot(o, stop + i))
      BY <2>1, <2>3 DEF Wiped
    <2> QED BY <2>1, <2>2, <2>4 DEF Counted
  <1>3. g.tm_number = 0 => Consistent(erased, g)
    BY DEF Consistent
  <1>4. ASSUME g.tm_number > 0, Counted(erased, g, 1) = g.oldest_time
        PROVE  Consistent(erased, g)
    <2>1. \A i \in 1 .. g.tm_number : Counted(erased, g, i) \in Packet
      BY <1>2 DEF Consistent
    <2>2. ASSUME NEW i \in 1 .. g.tm_number, NEW j \in 1 .. g.tm_number, i =< j
          PROVE  Counted(erased, g, i) =< Counted(erased, g, j)
      <3>1. stop + i =< stop + j
        BY <1>1, <2>2
      <3> QED BY <1>2, <3>1 DEF Consistent
    <2>3. Counted(erased, g, g.tm_number) \in {g.newest_time, Null}
      <3>1. g.tm_number \in 1 .. g.tm_number /\ stop + g.tm_number = n /\ n > 0
        BY <1>1, <1>4
      <3> QED BY <1>2, <3>1 DEF Consistent
    <2> QED BY <1>4, <2>1, <2>2, <2>3 DEF Consistent
  <1> QED BY <1>2, <1>3, <1>4
\* The parts of the invariant that are not about ranges.
Matched == HandlerConsists /\ InfoConsists /\ InfoKeeps /\ Continues

\* A store writes where neither the handler nor the info file counts a packet.
LEMMA StoredElements ==
    ASSUME SdInv, NEW time \in Time, Store(time)
    PROVE  /\ ~handler_lost' =>
                 /\ Consistent(data, handler)
                 /\ \A i \in 1 .. handler.tm_number :
                       Counted(data', handler', i) = Counted(data, handler, i)
                 /\ Counted(data', handler', handler.tm_number + 1) = time
           /\ ~info_lost' =>
                 /\ ~info_lost /\ ~stale
                 /\ \A i \in 1 .. info.tm_number :
                       Counted(data', info, i) = Counted(data, info, i)
  <1> DEFINE o == handler.oldest_tm_position
             n == handler.tm_number
             w == handler.write_to
  <1>1. /\ handler \in Handler /\ Ring(handler) /\ info \in Handler
        /\ o \in 0 .. MaxTm - 1 /\ n \in 0 .. MaxTm - 1 /\ MaxTm \in Nat /\ MaxTm > 0
        /\ n + 1 \in 1 .. MaxTm /\ n < MaxTm
        /\ w \in Nat /\ time \in Packet /\ data \in Seq(Packet) /\ Running
    <2>1. Ranges /\ pc = "idle" /\ n < MaxTm
      BY DEF SdInv, Store, StoreAccepts
    <2>2. handler \in Handler /\ info \in Handler /\ data \in Seq(Packet)
      BY <2>1 DEF Ranges, TypeOK, Packet
    <2>3. Ring(handler) /\ time \in Packet /\ Running
      BY <2>1 DEF Ranges, Packet, Running
    <2>4. o \in 0 .. MaxTm - 1 /\ n \in 0 .. MaxTm /\ w \in 0 .. MaxTm - 1
      BY <2>2 DEF Handler
    <2> HIDE DEF o, n, w
    <2> QED BY <2>1, <2>2, <2>3, <2>4, PacketFacts
  <1>2. w = Slot(o, n + 1) /\ (n = 0 => w = o)
    BY <1>1, StoredHandler
  <1>3. handler'.oldest_tm_position = o
    <2>1. handler'.oldest_tm_position = Dated(time).oldest_tm_position
      BY <1>1 DEF Store, Handler, Dated
    <2> QED BY <1>1, <1>2, <2>1 DEF Dated, Handler
  <1>4. \/ /\ data' = Written(data, w, <<time>>)
           /\ ~handler_lost' => ~handler_lost
           /\ ~info_lost' => ~info_lost /\ ~stale
        \/ /\ data' = Written(<< >>, w, <<time>>)
           /\ ~handler_lost' => ~handler_lost /\ ~(n > 0)
           /\ ~info_lost' => ~info_lost /\ ~stale /\ ~(n > 0)
    BY DEF Store
  <1>5. ASSUME NEW file \in Seq(Packet), data' = Written(file, w, <<time>>)
        PROVE  /\ Elem(data', w) = time
               /\ \A s \in Nat : s # w /\ Elem(file, s) # Untouched =>
                     Elem(data', s) = Elem(file, s)
    <2>1. \A s \in Nat :
             Elem(data', s) = IF s = w THEN time
                              ELSE IF s < Len(file) THEN Elem(file, s)
                              ELSE IF s < w THEN Null ELSE Untouched
      <3>1. w \in Nat /\ time \in Packet
        BY <1>1
      <3> HIDE DEF w
      <3>2. \A s \in Nat :
               Elem(Written(file, w, <<time>>), s) =
                  IF s = w THEN time
                  ELSE IF s < Len(file) THEN Elem(file, s)
                  ELSE IF s < w THEN Null ELSE Untouched
        BY <3>1, WrittenOne
      <3> QED BY <1>5, <3>2
    <2>2. \A s : ~(s < Len(file)) => Elem(file, s) = Untouched
      BY DEF Elem
    <2> HIDE DEF w
    <2> QED BY <1>1, <2>1, <2>2 DEF w
  <1>6. Elem(data', w) = time
    <2>1. << >> \in Seq(Packet)
      OBVIOUS
    <2> QED BY <1>1, <1>4, <1>5, <2>1
  <1>7. ASSUME NEW h \in Handler, Consistent(data, h), h.oldest_tm_position = o,
               h.tm_number =< n, data' = Written(data, w, <<time>>),
               NEW i \in 1 .. h.tm_number
        PROVE  Elem(data', Slot(o, i)) = Counted(data, h, i)
    <2>1. h.tm_number \in Nat
      BY PacketFacts DEF Handler
    <2>2. i \in 1 .. MaxTm /\ i # n + 1
      BY <1>1, <1>7, <2>1
    <2>3. Slot(o, i) \in Nat /\ Slot(o, i) # w
      <3>1. Slot(o, i) \in 0 .. MaxTm - 1
        BY <1>1, <2>2, SlotRange
      <3>2. Slot(o, i) # Slot(o, n + 1)
        BY <1>1, <2>2, SlotsDiffer
      <3> HIDE DEF o, n, w
      <3> QED BY <1>2, <3>1, <3>2
    <2>4. Elem(data, Slot(o, i)) # Untouched
      BY <1>7, PacketFacts DEF Consistent, Counted
    <2> QED BY <1>1, <1>5, <1>7, <2>3, <2>4 DEF Counted
  <1>8. ASSUME ~handler_lost'
        PROVE  /\ Consistent(data, handler)
               /\ \A i \in 1 .. n : Counted(data', handler', i) = Counted(data, handler, i)
               /\ Counted(data', handler', n + 1) = time
    <2>1. ~handler_lost
      BY <1>4, <1>8
    <2>2. Consistent(data, handler)
      BY <2>1 DEF SdInv, HandlerConsists
    <2>3. Counted(data', handler', n + 1) = time
      BY <1>2, <1>3, <1>6 DEF Counted
    <2>4. ASSUME NEW i \in 1 .. n
          PROVE  Counted(data', handler', i) = Counted(data, handler, i)
      <3>1. n > 0 /\ n =< n
        BY <1>1, <2>4
      <3>2. data' = Written(data, w, <<time>>)
        BY <1>4, <1>8, <3>1
      <3> QED BY <1>1, <1>3, <1>7, <2>2, <3>1, <3>2 DEF Counted
    <2> QED BY <2>2, <2>3, <2>4
  <1>9. ASSUME ~info_lost'
        PROVE  /\ ~info_lost /\ ~stale
               /\ \A i \in 1 .. info.tm_number :
                     Counted(data', info, i) = Counted(data, info, i)
    <2>1. ~info_lost /\ ~stale
      BY <1>4, <1>9
    <2>2. Consistent(data, info)
      BY <2>1 DEF SdInv, InfoConsists
    <2>3. /\ info.tm_number =< n
          /\ info.tm_number > 0 => info.oldest_tm_position = o
      BY <1>1, <2>1 DEF SdInv, Continues
    <2>4. ASSUME NEW i \in 1 .. info.tm_number
          PROVE  Counted(data', info, i) = Counted(data, info, i)
      <3>1. info.tm_number \in Nat
        BY <1>1, PacketFacts DEF Handler
      <3>2. info.tm_number > 0 /\ n > 0
        BY <1>1, <2>3, <3>1
      <3>3. data' = Written(data, w, <<time>>)
        BY <1>4, <1>9, <3>2
      <3> QED BY <1>1, <1>7, <2>2, <2>3, <3>2, <3>3 DEF Counted
    <2> QED BY <2>1, <2>4
  <1> QED BY <1>8, <1>9

LEMMA StoreMatches ==
    ASSUME SdInv, NEW time \in Time, Store(time)
    PROVE  Matched'
  <1> DEFINE n == handler.tm_number
  <1>1. /\ handler \in Handler /\ info \in Handler /\ handler' \in Handler
        /\ n \in 0 .. MaxTm - 1 /\ MaxTm \in Nat /\ MaxTm > 0
        /\ info.tm_number \in Nat
    <2>1. handler' \in Handler
      BY StoreFits DEF SdInv, HandlerFits
    <2>2. handler \in Handler /\ info \in Handler /\ n < MaxTm
      BY DEF SdInv, Ranges, TypeOK, Store, StoreAccepts
    <2> QED BY <2>1, <2>2, PacketFacts DEF Handler
  <1>2. /\ handler'.tm_number = n + 1 /\ handler'.newest_time = time
        /\ handler'.oldest_time = IF n = 0 THEN time ELSE handler.oldest_time
        /\ n = 0 \/ time >= handler.newest_time
        /\ handler'.oldest_tm_position = handler.oldest_tm_position
    <2>1. n = 0 => handler.write_to = handler.oldest_tm_position
      BY <1>1, StoredHandler DEF SdInv, Ranges
    <2> QED BY <1>1, <2>1 DEF Store, StoreAccepts, Dated, Handler
  <1>3. /\ info' = info /\ info_exists' = info_exists /\ acknowledged' = acknowledged
        /\ stale' = stale /\ Running /\ Running'
    BY DEF Store, StoreAccepts, Running
  <1>4. ASSUME ~handler_lost' PROVE Consistent(data', handler')
    <2>1. /\ Consistent(data, handler)
          /\ \A i \in 1 .. n : Counted(data', handler', i) = Counted(data, handler, i)
          /\ Counted(data', handler', n + 1) = time
      BY <1>4, StoredElements
    <2>2. \A i \in 1 .. n + 1 : i \in 1 .. n \/ i = n + 1
      BY <1>1
    <2>3. \A i \in 1 .. n + 1 : Counted(data', handler', i) \in Packet
      BY <2>1, <2>2 DEF Consistent, Packet
    <2>4. ASSUME NEW i \in 1 .. n PROVE Counted(data', handler', i) =< time
      <3>1. n \in 1 .. n /\ i =< n /\ n # 0
        BY <1>1, <2>4
      <3>2. Counted(data, handler, i) =< Counted(data, handler, n)
        BY <2>1, <3>1 DEF Consistent
      <3>3. Counted(data, handler, n) \in {handler.newest_time, Null}
        BY <1>1, <2>1, <3>1 DEF Consistent
      <3>4. time >= handler.newest_time /\ time >= 0
        BY <1>2, <3>1, PacketFacts
      <3>5. /\ Counted(data, handler, i) \in Nat /\ Counted(data, handler, n) \in Nat
            /\ time \in Nat /\ Null = 0
        BY <2>1, <3>1, PacketFacts DEF Consistent
      <3>6. Counted(data', handler', i) = Counted(data, handler, i)
        BY <2>1
      <3>7. Counted(data, handler, n) =< time
        BY <3>3, <3>4, <3>5
      <3> QED BY <3>2, <3>5, <3>6, <3>7
    <2>5. ASSUME NEW i \in 1 .. n + 1, NEW j \in 1 .. n + 1, i =< j
          PROVE  Counted(data', handler', i) =< Counted(data', handler', j)
      <3>1. CASE j = n + 1
        <4>1. time \in Nat /\ time =< time
          BY PacketFacts
        <4> QED BY <2>1, <2>2, <2>4, <3>1, <4>1
      <3>2. CASE j # n + 1
        <4>1. i \in 1 .. n /\ j \in 1 .. n
          BY <1>1, <2>5, <3>2
        <4> QED BY <2>1, <2>5, <4>1 DEF Consistent
      <3> QED BY <3>1, <3>2
    <2>6. Counted(data', handler', 1) # Null =>
             Counted(data', handler', 1) = handler'.oldest_time
      <3>1. CASE n = 0
        BY <1>1, <1>2, <2>1, <3>1
      <3>2. CASE n # 0
        <4>1. n > 0 /\ 1 \in 1 .. n
          BY <1>1, <3>2
        <4> QED BY <1>2, <2>1, <3>2, <4>1 DEF Consistent
      <3> QED BY <3>1, <3>2
    <2> QED BY <1>2, <2>1, <2>3, <2>5, <2>6 DEF Consistent
  <1>5. ASSUME ~info_lost' PROVE Consistent(data', info) /\ Keeps(data)
                                 /\ ~stale /\ Keeps(data)'
    <2>1. /\ ~info_lost /\ ~stale
          /\ \A i \in 1 .. info.tm_number :
                Counted(data', info, i) = Counted(data, info, i)
      BY <1>5, StoredElements
    <2>2. Consistent(data, info) /\ Keeps(data)
      BY <2>1 DEF SdInv, InfoConsists, InfoKeeps
    <2>3. ASSUME info.tm_number > 0
          PROVE  1 \in 1 .. info.tm_number /\ info.tm_number \in 1 .. info.tm_number
      BY <1>1, <2>3
    <2>4. Consistent(data', info)
      BY <2>1, <2>2, <2>3 DEF Consistent
    <2>5. PICK k \in 0 .. info.tm_number :
             /\ \A i \in 1 .. k : Counted(data, info, i) = Null
             /\ \A i \in k + 1 .. info.tm_number : Counted(data, info, i) = acknowledged[i]
             /\ Running /\ ~stale => k = 0
      BY <2>2 DEF Keeps
    <2>6. /\ k = 0
          /\ \A i \in 1 .. info.tm_number : Counted(data', info, i) = acknowledged[i]
      BY <1>1, <1>3, <2>1, <2>5
    <2>7. Keeps(data)'
      <3>1. Len(acknowledged') = info'.tm_number
        BY <1>3, <2>2 DEF Keeps
      <3>2. 0 \in 0 .. info'.tm_number
        BY <1>1, <1>3
      <3>3. /\ \A i \in 1 .. 0 : Counted(data', info', i) = Null
            /\ \A i \in 0 + 1 .. info'.tm_number : Counted(data', info', i) = acknowledged'[i]
        BY <1>3, <2>6
      <3> QED BY <3>1, <3>2, <3>3 DEF Keeps
    <2> QED BY <2>1, <2>2, <2>4, <2>7
  <1>6. Continues'
    <2>1. ~info_exists => info = FreshHandler
      BY DEF SdInv, Continues
    <2>2. ~stale => /\ info.tm_number =< n
                    /\ info.tm_number > 0 =>
                          info.oldest_tm_position = handler.oldest_tm_position
      BY <1>3 DEF SdInv, Continues
    <2>3. ~stale => info.tm_number =< n + 1
      BY <1>1, <2>2
    <2>4. ~(stale' /\ ~info_lost')
      BY <1>3, <1>5
    <2> QED BY <1>2, <1>3, <2>1, <2>2, <2>3, <2>4 DEF Continues
  <1>7. HandlerConsists'
    BY <1>4 DEF HandlerConsists
  <1>8. InfoConsists' /\ InfoKeeps'
    BY <1>3, <1>5 DEF InfoConsists, InfoKeeps, Keeps
  <1> QED BY <1>6, <1>7, <1>8 DEF Matched
\* What a wiped file means for the info file after the step.
LEMMA WipedInfo ==
    ASSUME SdInv, Running, NEW count \in 0 .. handler.tm_number,
           Wiped(data, data', handler.oldest_tm_position, count),
           handler.tm_number = 0 => data' = data,
           info' = info, info_lost' = info_lost, acknowledged' = acknowledged,
           stale' \/ ~Running'
    PROVE  InfoConsists' /\ InfoKeeps'
  <1> SUFFICES ASSUME ~info_lost PROVE Consistent(data', info) /\ Keeps(data)'
    BY DEF InfoConsists, InfoKeeps
  <1>1. /\ Consistent(data', info)
        /\ Len(acknowledged) = info.tm_number
        /\ \E k \in 0 .. info.tm_number :
              /\ \A i \in 1 .. k : Counted(data', info, i) = Null
              /\ \A i \in k + 1 .. info.tm_number :
                    Counted(data', info, i) = acknowledged[i]
    BY InfoWiped
  <1>2. ~(Running' /\ ~stale')
    OBVIOUS
  <1>3. Keeps(data)'
    BY <1>1, <1>2 DEF Keeps
  <1> QED BY <1>1, <1>3

LEMMA DeleteAllMatches ==
    ASSUME SdInv, NEW time \in Time, DeleteAll(time)
    PROVE  Matched'
  <1>1. /\ handler' = FreshHandler /\ info' = info /\ info_lost' = info_lost
        /\ acknowledged' = acknowledged /\ stale' /\ info_exists' = info_exists
        /\ Running /\ Running'
    BY DEF DeleteAll, Running
  <1>2. /\ \E count \in 0 .. handler.tm_number :
              Wiped(data, data', handler.oldest_tm_position, count)
        /\ handler.tm_number = 0 => data' = data
    BY EmptiedFile DEF DeleteAll, SdInv, Ranges
  <1>3. InfoConsists' /\ InfoKeeps'
    BY <1>1, <1>2, WipedInfo
  <1>4. handler'.tm_number = 0
    BY <1>1 DEF FreshHandler
  <1>5. HandlerConsists'
    BY <1>4 DEF HandlerConsists, Consistent
  <1>6. Continues'
    <2>1. ~info_exists => info = FreshHandler
      BY DEF SdInv, Continues
    <2>2. ~(handler'.tm_number > 0)
      BY <1>4
    <2> QED BY <1>1, <2>1, <2>2 DEF Continues
  <1> QED BY <1>3, <1>5, <1>6 DEF Matched

LEMMA StopWhileErasingMatches ==
    ASSUME SdInv, NEW time \in Time, StopWhileErasing(time)
    PROVE  Matched'
  <1>1. /\ handler' = FreshHandler /\ info' = info /\ info_lost' = info_lost
        /\ acknowledged' = acknowledged /\ ~stale' /\ ~handler_lost'
        /\ info_exists' = info_exists /\ Running /\ ~Running'
    BY DEF StopWhileErasing, Halt, DeletesSome, Running
  <1>2. PICK count \in 1 .. DeleteStop(time) : data' = Erased(count)
    BY DEF StopWhileErasing
  <1>3. /\ count \in 1 .. MaxTm /\ count \in 0 .. handler.tm_number
        /\ handler.tm_number # 0
    <2>1. handler.tm_number \in 0 .. MaxTm /\ MaxTm \in Nat
      BY PacketFacts DEF SdInv, Ranges, TypeOK, Handler
    <2>2. PICK i \in 1 .. handler.tm_number : DeleteStop(time) \in 1 .. i
      BY DeletedElements DEF StopWhileErasing, DeletesSome, SdInv, Ranges
    <2> QED BY <2>1, <2>2
  <1>4. Wiped(data, data', handler.oldest_tm_position, count)
    BY <1>2, <1>3, ErasedFile DEF SdInv, Ranges
  <1>5. InfoConsists' /\ InfoKeeps'
    BY <1>1, <1>3, <1>4, WipedInfo
  <1>6. HandlerConsists'
    BY <1>1 DEF HandlerConsists, Consistent, FreshHandler
  <1>7. Continues'
    <2>1. ~info_exists => info = FreshHandler
      BY DEF SdInv, Continues
    <2> QED BY <1>1, <2>1 DEF Continues
  <1> QED BY <1>5, <1>6, <1>7 DEF Matched

\* The elements left after a deletion are the newest ones.
LEMMA DeletedContents ==
    ASSUME SdInv, NEW time \in Time, DeleteSome(time)
    PROVE  \E stop \in 1 .. handler.tm_number :
              /\ stop = DeleteStop(time)
              /\ Wiped(data, data', handler.oldest_tm_position, stop)
              /\ handler'.oldest_tm_position =
                    (handler.oldest_tm_position + stop) % MaxTm
              /\ handler'.tm_number = handler.tm_number - stop
              /\ ~handler_lost =>
                    /\ Consistent(data', handler')
                    /\ \A i \in 1 .. handler'.tm_number :
                          Counted(data', handler', i) = Counted(data, handler, stop + i)
                    /\ \A i \in 1 .. stop : Counted(data, handler, i) =< time
                    /\ \A i \in stop + 2 .. handler.tm_number :
                          Counted(data, handler, i) > time
  <1> DEFINE o == handler.oldest_tm_position
             n == handler.tm_number
             stop == DeleteStop(time)
             p == From(o, stop)
  <1>1. /\ handler \in Handler /\ Ring(handler) /\ TypeOK
        /\ n \in 0 .. MaxTm /\ MaxTm \in Nat /\ MaxTm > 0
    BY PacketFacts DEF SdInv, Ranges, TypeOK, Handler
  <1>2. PICK hit \in 1 .. n :
           /\ Counted(data, handler, hit) =< time
           /\ stop \in 1 .. hit /\ stop >= hit - 1
           /\ \A j \in hit + 1 .. n : \/ ~(Counted(data, handler, j) =< time)
                                      \/ Counted(data, handler, j) = Untouched
    BY <1>1, DeletedElements DEF DeleteSome, DeletesSome
  <1> HIDE DEF stop
  <1>3. stop \in 1 .. n /\ stop \in 1 .. MaxTm
    BY <1>1, <1>2
  <1>4. data' = Erased(stop)
    BY DEF DeleteSome, stop
  <1>5. Wiped(data, data', o, stop) /\ data' \in Seq(Packet)
    BY <1>1, <1>3, <1>4, ErasedFile
  <1>6. p = (o + stop) % MaxTm /\ p \in 0 .. MaxTm - 1
    BY <1>1, <1>3, DeletedHandler
  <1>7. /\ handler'.oldest_tm_position = p
        /\ handler'.tm_number = n - stop
        /\ handler'.newest_time = handler.newest_time
        /\ p < Len(data') => handler'.oldest_time = data'[p + 1]
    BY <1>1 DEF DeleteSome, Handler, stop
  <1> HIDE DEF p
  <1>8. ASSUME ~handler_lost
        PROVE  /\ Consistent(data', handler')
               /\ \A i \in 1 .. handler'.tm_number :
                     Counted(data', handler', i) = Counted(data, handler, stop + i)
               /\ \A i \in 1 .. stop : Counted(data, handler, i) =< time
               /\ \A i \in stop + 2 .. n : Counted(data, handler, i) > time
    <2>1. Consistent(data, handler)
      BY <1>8 DEF SdInv, HandlerConsists
    <2>2. \A i \in 1 .. handler'.tm_number :
             Counted(data', handler', i) = Counted(data, handler, stop + i)
      BY <1>1, <1>3, <1>5, <1>6, <1>7, <2>1, HandlerWiped
    <2>3. handler'.tm_number = 0 \/ handler'.tm_number > 0
      BY <1>1, <1>3, <1>7
    <2>4. handler'.tm_number > 0 => Counted(data', handler', 1) = handler'.oldest_time
      <3> SUFFICES ASSUME handler'.tm_number > 0
                   PROVE  Counted(data', handler', 1) = handler'.oldest_time
        OBVIOUS
      <3>1. 1 \in 1 .. handler'.tm_number /\ stop + 1 \in 1 .. n
        BY <1>1, <1>3, <1>7
      <3>2. Counted(data', handler', 1) \in Packet
        BY <2>1, <2>2, <3>1 DEF Consistent
      <3>3. Slot(p, 1) = p
        BY <1>1, <1>6, SlotRange
      <3>4. Elem(data', p) = Counted(data', handler', 1) /\ Elem(data', p) # Untouched
        BY <1>7, <3>2, <3>3, PacketFacts DEF Counted
      <3> QED BY <1>7, <3>4 DEF Elem
    <2>5. Consistent(data', handler')
      BY <1>1, <1>3, <1>5, <1>6, <1>7, <2>1, <2>3, <2>4, HandlerWiped
    <2>6. ASSUME NEW i \in 1 .. stop PROVE Counted(data, handler, i) =< time
      <3>1. i \in 1 .. n /\ i =< hit
        BY <1>1, <1>2, <1>3
      <3>2. Counted(data, handler, i) =< Counted(data, handler, hit)
        BY <2>1, <3>1 DEF Consistent
      <3>3. /\ Counted(data, handler, i) \in Nat /\ Counted(data, handler, hit) \in Nat
            /\ time \in Nat
        BY <2>1, <3>1, PacketFacts DEF Consistent
      <3> QED BY <1>2, <3>2, <3>3
    <2>7. ASSUME NEW i \in stop + 2 .. n PROVE Counted(data, handler, i) > time
      <3>1. i \in 1 .. n /\ i \in hit + 1 .. n
        BY <1>1, <1>2, <1>3
      <3>2. Counted(data, handler, i) \in Packet
        BY <2>1, <3>1 DEF Consistent
      <3>3. ~(Counted(data, handler, i) =< time)
        BY <1>2, <3>1, <3>2, PacketFacts
      <3>4. Counted(data, handler, i) \in Nat /\ time \in Nat
        BY <3>2, PacketFacts
      <3> QED BY <3>3, <3>4
    <2> QED BY <2>2, <2>5, <2>6, <2>7
  <1> QED BY <1>3, <1>5, <1>6, <1>7, <1>8 DEF stop

LEMMA DeleteSomeMatches ==
    ASSUME SdInv, NEW time \in Time, DeleteSome(time)
    PROVE  Matched'
  <1> DEFINE n == handler.tm_number
  <1>1. /\ info' = info /\ info_lost' = info_lost /\ handler_lost' = handler_lost
        /\ acknowledged' = acknowledged /\ stale' /\ info_exists' = info_exists
        /\ Running /\ Running'
    BY DEF DeleteSome, DeletesSome, Running, losses
  <1>2. PICK stop \in 1 .. n :
           /\ Wiped(data, data', handler.oldest_tm_position, stop)
           /\ handler'.oldest_tm_position = (handler.oldest_tm_position + stop) % MaxTm
           /\ handler'.tm_number = n - stop
           /\ ~handler_lost => Consistent(data', handler')
    BY DeletedContents
  <1>3. /\ handler \in Handler /\ info \in Handler
        /\ n \in 0 .. MaxTm /\ MaxTm \in Nat /\ MaxTm > 0
        /\ info.oldest_tm_position \in 0 .. MaxTm - 1
    BY PacketFacts DEF SdInv, Ranges, TypeOK, Handler
  <1>4. stop \in 0 .. n /\ n # 0 /\ n > 0
    BY <1>2, <1>3
  <1>5. InfoConsists' /\ InfoKeeps'
    BY <1>1, <1>2, <1>4, WipedInfo
  <1>6. HandlerConsists'
    BY <1>1, <1>2 DEF HandlerConsists
  <1>7. ASSUME ~info_lost, info.tm_number > 0, handler'.tm_number > 0
        PROVE  \E d \in 0 .. MaxTm : Ahead(data, d)'
    <2>1. PICK d \in 0 .. MaxTm :
             /\ Ahead(data, d)
             /\ \A i \in 1 .. d + stop :
                   i =< info.tm_number => Counted(data', info, i) = Null
      BY <1>1, <1>2, <1>4, <1>7, InfoWiped
    <2>2. /\ handler.oldest_tm_position = (info.oldest_tm_position + d) % MaxTm
          /\ d + n =< MaxTm
      BY <2>1 DEF Ahead
    <2>3. /\ d + stop \in 0 .. MaxTm /\ d + stop + (n - stop) =< MaxTm
          /\ stop + 1 \in 1 .. MaxTm /\ d + (stop + 1) =< MaxTm
          /\ stop + 1 - 1 = stop
      BY <1>2, <1>3, <1>7, <2>2
    <2>4. handler'.oldest_tm_position = (info.oldest_tm_position + (d + stop)) % MaxTm
      <3> DEFINE q == (info.oldest_tm_position + d) % MaxTm
                 r == info.oldest_tm_position
      <3>1. Slot(q, stop + 1) = Slot(r, d + (stop + 1)) /\ q \in 0 .. MaxTm - 1
        BY <1>3, <2>3, SlotShift
      <3>2. handler'.oldest_tm_position = (q + stop) % MaxTm
        BY <1>2, <2>2
      <3> HIDE DEF q
      <3>3. q + (stop + 1) - 1 = q + stop /\ r + (d + (stop + 1)) - 1 = r + (d + stop)
        BY <1>3, <3>1
      <3>4. Slot(q, stop + 1) = (q + stop) % MaxTm
        BY <3>3 DEF Slot
      <3>5. Slot(r, d + (stop + 1)) = (r + (d + stop)) % MaxTm
        BY <3>3 DEF Slot
      <3> QED BY <3>1, <3>2, <3>4, <3>5
    <2>5. Ahead(data, d + stop)'
      BY <1>1, <1>2, <2>1, <2>3, <2>4 DEF Ahead
    <2> QED BY <2>3, <2>5
  <1>8. Continues'
    <2>1. ~info_exists => info = FreshHandler
      BY DEF SdInv, Continues
    <2> QED BY <1>1, <1>7, <2>1 DEF Continues
  <1> QED BY <1>5, <1>6, <1>8 DEF Matched
LEMMA StartMatches ==
    ASSUME SdInv, StartFresh \/ StartAgain \/ StartFails \/ Stop
    PROVE  Matched'
  <1>1. /\ ~info_exists => info = FreshHandler
        /\ ~Running => handler = FreshHandler /\ ~stale /\ ~handler_lost
        /\ info \in Handler /\ info.tm_number \in Nat
    BY PacketFacts DEF SdInv, Continues, Ranges, TypeOK, Handler
  <1>2. FreshHandler.tm_number = 0
    BY DEF FreshHandler
  <1>3. \A file : Consistent(file, FreshHandler)
    BY <1>2 DEF Consistent
  <1>4. CASE StartFresh
    <2>1. /\ ~Running /\ Running' /\ info_exists' /\ handler' = FreshHandler
          /\ info' = FreshHandler /\ info = FreshHandler /\ data' = data
          /\ acknowledged' = acknowledged /\ info_lost' = info_lost
          /\ ~stale /\ stale' = stale
      BY <1>1, <1>4 DEF StartFresh, Running, history, losses
    <2>2. HandlerConsists' /\ InfoConsists'
      BY <1>3, <2>1 DEF HandlerConsists, InfoConsists
    <2>3. InfoKeeps'
      <3> SUFFICES ASSUME ~info_lost PROVE Keeps(data)'
        BY <2>1 DEF InfoKeeps
      <3>1. Len(acknowledged) = 0
        BY <1>2, <2>1 DEF SdInv, InfoKeeps, Keeps
      <3> QED BY <1>2, <2>1, <3>1 DEF Keeps
    <2>4. Continues'
      BY <1>2, <2>1 DEF Continues
    <2> QED BY <2>2, <2>3, <2>4 DEF Matched
  <1>5. CASE StartAgain
    <2>1. /\ ~Running /\ Running' /\ info_exists' = info_exists /\ info_exists
          /\ handler' = info
          /\ info' = info /\ data' = data /\ acknowledged' = Contents(info)
          /\ info_lost' = info_lost /\ handler_lost' = info_lost
          /\ ~stale /\ stale' = stale
      BY <1>1, <1>5 DEF StartAgain, Running, files
    <2>2. HandlerConsists' /\ InfoConsists'
      BY <2>1 DEF SdInv, HandlerConsists, InfoConsists
    <2>3. InfoKeeps'
      <3>1. /\ Len(acknowledged') = info.tm_number
            /\ \A i \in 1 .. info.tm_number : acknowledged'[i] = Counted(data, info, i)
        BY <1>1, <2>1, ContentsElements
      <3>2. /\ \A i \in 1 .. 0 : Counted(data', info', i) = Null
            /\ \A i \in 0 + 1 .. info'.tm_number : Counted(data', info', i) = acknowledged'[i]
            /\ 0 \in 0 .. info'.tm_number
        BY <1>1, <2>1, <3>1
      <3>3. Keeps(data)'
        BY <2>1, <3>1, <3>2 DEF Keeps
      <3> QED BY <3>3 DEF InfoKeeps
    <2>4. Continues'
      BY <1>1, <2>1 DEF Continues
    <2> QED BY <2>2, <2>3, <2>4 DEF Matched
  <1>6. CASE StartFails \/ Stop
    <2>1. /\ info_exists' = info_exists /\ info' = info /\ data' = data
          /\ acknowledged' = acknowledged /\ info_lost' = info_lost
          /\ handler' = FreshHandler
      BY <1>6 DEF StartFails, Stop, Halt, files, losses
    <2>2. \/ ~Running /\ Running' /\ (stale' <=> info_exists)
          \/ Running /\ ~Running' /\ ~stale' /\ ~handler_lost'
      BY <1>6 DEF StartFails, Stop, Halt, Running
    <2>3. HandlerConsists' /\ InfoConsists'
      BY <1>3, <2>1 DEF SdInv, HandlerConsists, InfoConsists
    <2>4. InfoKeeps'
      <3> SUFFICES ASSUME ~info_lost PROVE Keeps(data)'
        BY <2>1 DEF InfoKeeps
      <3>1. PICK k \in 0 .. info.tm_number :
               /\ \A i \in 1 .. k : Counted(data, info, i) = Null
               /\ \A i \in k + 1 .. info.tm_number :
                     Counted(data, info, i) = acknowledged[i]
        BY DEF SdInv, InfoKeeps, Keeps
      <3>2. Len(acknowledged) = info.tm_number
        BY DEF SdInv, InfoKeeps, Keeps
      <3>3. Running' /\ ~stale' => k = 0
        <4> SUFFICES ASSUME Running', ~stale' PROVE k = 0
          OBVIOUS
        <4>1. ~info_exists
          BY <2>2
        <4>2. info.tm_number = 0
          BY <1>1, <1>2, <4>1
        <4> QED BY <4>2
      <3> QED BY <2>1, <3>1, <3>2, <3>3 DEF Keeps
    <2>5. Continues'
      <3>1. Running' /\ ~stale' => info.tm_number = 0
        BY <1>1, <1>2, <2>2
      <3> QED BY <1>1, <1>2, <2>1, <2>2, <3>1 DEF Continues
    <2> QED BY <2>3, <2>4, <2>5 DEF Matched
  <1> QED BY <1>4, <1>5, <1>6

LEMMA UpdateInfoMatches ==
    ASSUME SdInv, UpdateInfo
    PROVE  Matched'
  <1>1. /\ Running /\ Running' /\ handler' = handler /\ info' = handler /\ data' = data
        /\ acknowledged' = Contents(handler) /\ ~stale' /\ info_exists'
        /\ info_lost' = handler_lost /\ handler_lost' = handler_lost
    BY DEF UpdateInfo, Running, Stored
  <1>2. handler \in Handler /\ handler.tm_number \in Nat
    BY PacketFacts DEF SdInv, Ranges, TypeOK, Handler
  <1>3. HandlerConsists' /\ InfoConsists'
    BY <1>1 DEF SdInv, HandlerConsists, InfoConsists
  <1>4. InfoKeeps'
    <2>1. /\ Len(acknowledged') = handler.tm_number
          /\ \A i \in 1 .. handler.tm_number :
                acknowledged'[i] = Counted(data, handler, i)
      BY <1>1, <1>2, ContentsElements
    <2>2. /\ \A i \in 1 .. 0 : Counted(data', info', i) = Null
          /\ \A i \in 0 + 1 .. info'.tm_number : Counted(data', info', i) = acknowledged'[i]
          /\ 0 \in 0 .. info'.tm_number
      BY <1>1, <1>2, <2>1
    <2>3. Keeps(data)'
      BY <1>1, <2>1, <2>2 DEF Keeps
    <2> QED BY <2>3 DEF InfoKeeps
  <1>5. Continues'
    BY <1>1, <1>2 DEF Continues
  <1> QED BY <1>3, <1>4, <1>5 DEF Matched

LEMMA StoreNoFileMatches ==
    ASSUME SdInv, NEW time \in Time, StoreNoFile(time)
    PROVE  Matched'
  <1>1. /\ Running /\ Running' /\ info' = info /\ data' = data /\ stale' = stale
        /\ acknowledged' = acknowledged /\ info_exists' = info_exists
        /\ info_lost' = info_lost /\ handler_lost' = handler_lost
        /\ handler' = Dated(time)
    BY DEF StoreNoFile, StoreAccepts, Running, files, history, losses
  <1>2. handler'.tm_number = handler.tm_number
        /\ (handler.tm_number # 0 => handler' = handler)
    BY <1>1 DEF Dated, SdInv, Ranges, TypeOK, Handler
  <1>3. HandlerConsists'
    <2>1. CASE handler.tm_number = 0
      BY <1>2, <2>1 DEF HandlerConsists, Consistent
    <2>2. CASE handler.tm_number # 0
      BY <1>1, <1>2, <2>2 DEF SdInv, HandlerConsists
    <2> QED BY <2>1, <2>2
  <1>4. InfoConsists' /\ InfoKeeps'
    BY <1>1 DEF SdInv, InfoConsists, InfoKeeps, Keeps
  <1>5. Continues'
    <2>1. CASE handler.tm_number = 0
      <3>1. info.tm_number \in Nat
        BY PacketFacts DEF SdInv, Ranges, TypeOK, Handler
      <3>2. ~stale => info.tm_number = 0
        BY <1>1, <2>1, <3>1 DEF SdInv, Continues
      <3>3. ~info_exists => info = FreshHandler
        BY DEF SdInv, Continues
      <3> QED BY <1>1, <1>2, <2>1, <3>1, <3>2, <3>3 DEF Continues
    <2>2. CASE handler.tm_number # 0
      BY <1>1, <1>2, <2>2 DEF SdInv, Continues, Ahead
    <2> QED BY <2>1, <2>2
  <1> QED BY <1>3, <1>4, <1>5 DEF Matched

LEMMA InitialSdInv == Init => SdInv
  <1> SUFFICES ASSUME Init PROVE SdInv
    OBVIOUS
  <1>1. Ranges
    BY InitialRanges
  <1>2. /\ handler = FreshHandler /\ info = FreshHandler /\ ~Running /\ ~stale
        /\ ~handler_lost /\ acknowledged = << >> /\ FreshHandler.tm_number = 0
    BY DEF Init, Running, FreshHandler
  <1>3. HandlerConsists /\ InfoConsists
    BY <1>2 DEF HandlerConsists, InfoConsists, Consistent
  <1>4. InfoKeeps
    BY <1>2 DEF InfoKeeps, Keeps
  <1>5. Continues
    BY <1>2 DEF Continues
  <1> QED BY <1>1, <1>3, <1>4, <1>5 DEF SdInv

LEMMA SdInvStep == SdInv /\ [Next]_vars => SdInv'
  <1> SUFFICES ASSUME SdInv, [Next]_vars PROVE SdInv'
    OBVIOUS
  <1>1. Ranges'
    BY RangesStep DEF SdInv
  <1>2. ASSUME UNCHANGED <<handler, files, history>>, Running' = Running
        PROVE  Matched'
    BY <1>2 DEF SdInv, Matched, files, history, losses, HandlerConsists, InfoConsists,
                InfoKeeps, Keeps, Continues, Ahead
  <1>3. ASSUME StartFresh \/ StartAgain \/ StartFails \/ Stop PROVE Matched'
    BY <1>3, StartMatches
  <1>4. ASSUME StoreFull PROVE Matched'
    BY <1>2, <1>4 DEF StoreFull, Running
  <1>5. ASSUME NEW time \in Time, StoreTooOld(time) PROVE Matched'
    BY <1>2, <1>5 DEF StoreTooOld, Running
  <1>6. ASSUME NEW time \in Time, StoreNoFile(time) PROVE Matched'
    BY <1>6, StoreNoFileMatches
  <1>7. ASSUME NEW time \in Time, Store(time) PROVE Matched'
    BY <1>7, StoreMatches
  <1>8. ASSUME UpdateInfo PROVE Matched'
    BY <1>8, UpdateInfoMatches
  <1>9. ASSUME UpdateInfoFails PROVE Matched'
    <2>1. Running /\ Running' /\ UNCHANGED <<handler, files, history>>
      BY <1>9 DEF UpdateInfoFails, Running
    <2>2. Running' = Running
      BY <2>1 DEF Running
    <2> QED BY <1>2, <2>1, <2>2
  <1>10. ASSUME NEW start \in Time, NEW end \in Time, NEW size \in Sizes,
                Read(start, end, size) \/ ReadNoFile(start, end, size)
         PROVE  Matched'
    BY <1>2, <1>10 DEF Read, ReadNoFile, Running
  <1>11. ASSUME NEW time \in Time, DeleteAll(time) PROVE Matched'
    BY <1>11, DeleteAllMatches
  <1>12. ASSUME NEW time \in Time, DeleteSome(time) PROVE Matched'
    BY <1>12, DeleteSomeMatches
  <1>13. ASSUME NEW time \in Time, StopWhileErasing(time) PROVE Matched'
    BY <1>13, StopWhileErasingMatches
  <1>14. ASSUME NEW time \in Time, DeleteRefused(time) PROVE Matched'
    BY <1>2, <1>14 DEF DeleteRefused, Running
  <1>15. ASSUME UNCHANGED vars PROVE Matched'
    BY <1>2, <1>15 DEF vars, Running, files, history, losses
  <1>16. Matched'
    BY <1>3, <1>4, <1>5, <1>6, <1>7, <1>8, <1>9, <1>10, <1>11, <1>12, <1>13, <1>14,
       <1>15 DEF Next
  <1> QED BY <1>1, <1>16 DEF SdInv, Matched

-----------------------------------------------------------------------------
\* The handler, by whose dates reads and deletions decide, agrees with the packet
\* file after every sequence of stores, deletions, stops, restarts and failed
\* openings, for rings of every size.
THEOREM HandlerMatches == Spec => []HandlerMatchesData
  <1> QED BY InitialSdInv, SdInvStep, InvariantShowsMatch, PTL DEF Spec

\* What a restart finds in the files is what the last successful operation left,
\* but for packets that a deletion which did not end has erased.
THEOREM InfoKept == Spec => []InfoKeepsAcknowledged
  <1> QED BY InitialSdInv, SdInvStep, InvariantShowsKept, PTL DEF Spec

LEMMA StoreAppendsOne ==
    ASSUME SdInv, NEW time \in Time, Store(time), ~handler_lost'
    PROVE  Stored' = Append(Stored, time)
  <1> DEFINE n == handler.tm_number
             old == [i \in 1 .. n |-> Counted(data, handler, i)]
             new == [i \in 1 .. n + 1 |-> Counted(data', handler', i)]
  <1>1. handler \in Handler /\ n \in Nat
    BY PacketFacts DEF SdInv, Ranges, TypeOK, Handler
  <1>2. handler' \in Handler /\ handler'.tm_number = n + 1
    <2>1. handler' \in Handler
      BY StoreFits DEF SdInv, HandlerFits
    <2> QED BY <1>1, <2>1 DEF Store, Dated, Handler
  <1>3. Stored = old
    BY <1>1, ContentsElements DEF Stored
  <1>4. Stored' = new
    BY <1>2 DEF Stored, Contents, Counted, Elem, At, Slot
  <1>5. /\ Consistent(data, handler)
        /\ \A i \in 1 .. n : Counted(data', handler', i) = Counted(data, handler, i)
        /\ Counted(data', handler', n + 1) = time
    BY StoredElements
  <1>6. new \in [1 .. n + 1 -> Packet]
    <2>1. ASSUME NEW i \in 1 .. n + 1 PROVE Counted(data', handler', i) \in Packet
      <3>1. i \in 1 .. n \/ i = n + 1
        BY <1>1
      <3> QED BY <1>5, <3>1 DEF Consistent, Packet
    <2> QED BY <2>1
  <1>7. /\ \A i \in 1 .. n : new[i] = Counted(data, handler, i)
        /\ new[n + 1] = time
    BY <1>1, <1>5
  <1> HIDE DEF new
  <1>8. Append([i \in 1 .. n |-> new[i]], new[n + 1]) = [i \in 1 .. n + 1 |-> new[i]]
    BY <1>1, <1>6, AppendElement
  <1>9. [i \in 1 .. n + 1 |-> new[i]] = new
    BY <1>6
  <1>10. [i \in 1 .. n |-> new[i]] = old
    BY <1>7
  <1> QED BY <1>3, <1>4, <1>7, <1>8, <1>9, <1>10

\* The packets of a handler whose newest one is not dated after a time.
LEMMA AllOld ==
    ASSUME SdInv, ~handler_lost, NEW time \in Time, time >= handler.newest_time,
           NEW i \in 1 .. handler.tm_number
    PROVE  Counted(data, handler, i) =< time
  <1> DEFINE n == handler.tm_number
  <1>1. handler \in Handler /\ n \in Nat /\ Consistent(data, handler)
    BY PacketFacts DEF SdInv, Ranges, TypeOK, HandlerConsists, Handler
  <1>2. n \in 1 .. n /\ i =< n /\ n > 0
    BY <1>1
  <1>3. Counted(data, handler, i) =< Counted(data, handler, n)
    BY <1>1, <1>2 DEF Consistent
  <1>4. Counted(data, handler, n) \in {handler.newest_time, Null}
    BY <1>1, <1>2 DEF Consistent
  <1>5. /\ Counted(data, handler, i) \in Nat /\ Counted(data, handler, n) \in Nat
        /\ time \in Nat /\ Null = 0
    BY <1>1, <1>2, PacketFacts DEF Consistent
  <1>6. Counted(data, handler, n) =< time
    BY <1>4, <1>5
  <1> QED BY <1>3, <1>5, <1>6

LEMMA DeletesPrefix ==
    ASSUME SdInv, ~handler_lost, NEW time \in Time, DeleteAll(time) \/ DeleteSome(time)
    PROVE  \E k \in 0 .. handler.tm_number :
              /\ Stored' = SubSeq(Stored, k + 1, handler.tm_number)
              /\ \A i \in 1 .. k : Stored[i] =< time
              /\ \A i \in k + 2 .. handler.tm_number : Stored[i] > time
  <1> DEFINE n == handler.tm_number
  <1>1. handler \in Handler /\ n \in Nat /\ Consistent(data, handler) /\ 0 \in 0 .. n
    BY PacketFacts DEF SdInv, Ranges, TypeOK, HandlerConsists, Handler
  <1>2. /\ Stored = [i \in 1 .. n |-> Counted(data, handler, i)]
        /\ \A i \in 1 .. n : Stored[i] = Counted(data, handler, i)
        /\ Len(Stored) = n
    BY <1>1, ContentsElements DEF Stored
  <1>3. Stored' = [i \in 1 .. handler'.tm_number |-> Counted(data', handler', i)]
    BY DEF Stored, Contents, Counted, Elem, At, Slot
  <1>4. Stored \in Seq(Packet)
    <2>1. Stored \in [1 .. n -> Packet]
      BY <1>1, <1>2 DEF Consistent
    <2> QED BY <1>1, <2>1
  <1>5. CASE DeleteSome(time)
    <2>1. PICK stop \in 1 .. n :
             /\ handler'.tm_number = n - stop
             /\ \A i \in 1 .. handler'.tm_number :
                   Counted(data', handler', i) = Counted(data, handler, stop + i)
             /\ \A i \in 1 .. stop : Counted(data, handler, i) =< time
             /\ \A i \in stop + 2 .. n : Counted(data, handler, i) > time
      BY <1>5, DeletedContents
    <2>2. Stored' = [i \in 1 .. n - stop |-> Stored[stop + i]]
      <3>1. \A i \in 1 .. n - stop :
               Counted(data', handler', i) = Stored[stop + i]
        BY <1>1, <1>2, <2>1
      <3> QED BY <1>3, <2>1, <3>1
    <2>3. SubSeq(Stored, stop + 1, n) = [i \in 1 .. n - stop |-> Stored[stop + i]]
      <3>1. stop + 1 \in 1 .. n + 1 /\ stop \in 0 .. n
        BY <1>1
      <3> QED BY <1>1, <1>2, <1>4, <3>1
    <2>4. \A i \in 1 .. stop : Stored[i] =< time
      BY <1>1, <1>2, <2>1
    <2>5. \A i \in stop + 2 .. n : Stored[i] > time
      BY <1>1, <1>2, <2>1
    <2>6. stop \in 0 .. n
      BY <1>1
    <2> QED BY <2>2, <2>3, <2>4, <2>5, <2>6
  <1>6. CASE DeleteAll(time)
    <2>1. handler'.tm_number = 0 /\ time >= handler.newest_time
      BY <1>6 DEF DeleteAll, FreshHandler
    <2>2. Stored' = << >>
      BY <1>3, <2>1
    <2>3. SubSeq(Stored, n + 1, n) = << >>
      BY <1>1, <1>2, <1>4
    <2>4. \A i \in 1 .. n : Stored[i] =< time
      BY <1>2, <2>1, AllOld
    <2>5. n \in 0 .. n /\ n + 2 .. n = {}
      BY <1>1
    <2> QED BY <2>2, <2>3, <2>4, <2>5
  <1> QED BY <1>5, <1>6

\* A store damages no packet, also after restarts, failed openings and deletions
\* that turn at the end of the ring.
THEOREM StoreOnlyAppends == Spec => StoreAppends
  <1>1. SdInv /\ [Next]_vars =>
           [\A time \in Time : ~handler_lost' /\ Store(time) =>
               Stored' = Append(Stored, time)]_vars
    BY StoreAppendsOne
  <1> QED BY InitialSdInv, SdInvStep, <1>1, PTL DEF Spec, StoreAppends

\* A deletion takes the oldest packets only, none dated after its time, and is
\* one packet short at most.
THEOREM DeletionFromOldest == Spec => DeletesOldestOnly
  <1>1. SdInv /\ [Next]_vars =>
           [\A time \in Time : ~handler_lost /\ (DeleteAll(time) \/ DeleteSome(time)) =>
               \E k \in 0 .. handler.tm_number :
                  /\ Stored' = SubSeq(Stored, k + 1, handler.tm_number)
                  /\ \A i \in 1 .. k : Stored[i] =< time
                  /\ \A i \in k + 2 .. handler.tm_number : Stored[i] > time]_vars
    BY DeletesPrefix
  <1> QED BY InitialSdInv, SdInvStep, <1>1, PTL DEF Spec, DeletesOldestOnly
-----------------------------------------------------------------------------
(* Reads *)

\* What the packet file holds shows that it exists.
FileExists == data # << >> => data_exists

LEMMA FileExistsStep == FileExists /\ [Next]_vars => FileExists'
  <1> SUFFICES ASSUME FileExists, [Next]_vars PROVE FileExists'
    OBVIOUS
  <1>1. ASSUME UNCHANGED <<data, data_exists>> PROVE FileExists'
    BY <1>1 DEF FileExists
  <1>2. CASE StartFresh \/ StartAgain \/ StartFails \/ Stop
    BY <1>1, <1>2 DEF StartFresh, StartAgain, StartFails, Stop, Halt, files
  <1>3. CASE StoreFull \/ UpdateInfo \/ UpdateInfoFails
    BY <1>1, <1>3 DEF StoreFull, UpdateInfo, UpdateInfoFails, files
  <1>4. ASSUME NEW time \in Time, StoreTooOld(time) \/ StoreNoFile(time)
        PROVE  FileExists'
    BY <1>1, <1>4 DEF StoreTooOld, StoreNoFile, files
  <1>5. ASSUME NEW time \in Time, Store(time) PROVE FileExists'
    BY <1>5 DEF Store, FileExists
  <1>6. ASSUME NEW start \in Time, NEW end \in Time, NEW size \in Sizes,
               Read(start, end, size) \/ ReadNoFile(start, end, size)
        PROVE  FileExists'
    BY <1>1, <1>6 DEF Read, ReadNoFile, files
  <1>7. ASSUME NEW time \in Time,
               DeleteAll(time) \/ DeleteSome(time) \/ StopWhileErasing(time)
        PROVE  FileExists'
    BY <1>7 DEF DeleteAll, DeleteSome, StopWhileErasing, DeletesSome, Halt, FileExists
  <1>8. ASSUME NEW time \in Time, DeleteRefused(time) PROVE FileExists'
    BY <1>1, <1>8 DEF DeleteRefused, files
  <1>9. CASE UNCHANGED vars
    BY <1>1, <1>9 DEF vars
  <1> QED BY <1>2, <1>3, <1>4, <1>5, <1>6, <1>7, <1>8, <1>9 DEF Next

\* The elements of a handler that are all in the file.
LEMMA WholeElements ==
    ASSUME SdInv, Whole
    PROVE  LET o == handler.oldest_tm_position
               n == handler.tm_number
           IN  /\ o \in 0 .. MaxTm - 1 /\ n \in 0 .. MaxTm
               /\ Stored \in [1 .. n -> Time]
               /\ \A i \in 1 .. n : /\ Slot(o, i) = IF o + i - 1 < MaxTm THEN o + i - 1
                                                    ELSE o + i - 1 - MaxTm
                                    /\ At(Slot(o, i)) = Stored[i]
                                    /\ Counted(data, handler, i) = Stored[i]
               /\ \A i, j \in 1 .. n : i =< j => Stored[i] =< Stored[j]
               /\ n > 0 => /\ Stored[1] = handler.oldest_time
                           /\ Stored[n] = handler.newest_time
                           /\ data # << >>
  <1> DEFINE o == handler.oldest_tm_position
             n == handler.tm_number
  <1>1. /\ handler \in Handler /\ o \in 0 .. MaxTm - 1 /\ n \in 0 .. MaxTm
        /\ MaxTm \in Nat /\ MaxTm > 0
        /\ Consistent(data, handler)
        /\ data \in Seq(Packet)
    BY PacketFacts DEF SdInv, Ranges, TypeOK, Handler, Whole, HandlerConsists, Packet
  <1>2. /\ Stored = [i \in 1 .. n |-> Counted(data, handler, i)]
        /\ \A i \in 1 .. n : Stored[i] = Counted(data, handler, i)
    BY <1>1, ContentsElements DEF Stored
  <1>3. \A i \in 1 .. n : Stored[i] \in Time
    <2>1. \A i \in 1 .. n : Stored[i] \in Packet /\ Stored[i] # Null
      BY <1>1, <1>2 DEF Consistent, Whole
    <2> QED BY <2>1 DEF Packet
  <1>4. ASSUME NEW i \in 1 .. n
        PROVE  /\ Slot(o, i) = IF o + i - 1 < MaxTm THEN o + i - 1 ELSE o + i - 1 - MaxTm
               /\ At(Slot(o, i)) = Stored[i]
    <2>1. i \in 1 .. MaxTm
      BY <1>1
    <2>2. At(Slot(o, i)) = Counted(data, handler, i)
      BY DEF At, Elem, Counted
    <2> QED BY <1>1, <1>2, <2>1, <2>2, SlotRange
  <1>5. \A i, j \in 1 .. n : i =< j => Stored[i] =< Stored[j]
    BY <1>1, <1>2 DEF Consistent
  <1>6. ASSUME n > 0
        PROVE  /\ Stored[1] = handler.oldest_time /\ Stored[n] = handler.newest_time
               /\ data # << >>
    <2>1. 1 \in 1 .. n /\ n \in 1 .. n
      BY <1>1, <1>6
    <2>2. /\ Counted(data, handler, 1) = handler.oldest_time
          /\ Counted(data, handler, n) = handler.newest_time
      BY <1>1, <1>2, <1>6, <2>1 DEF Consistent, Whole
    <2>3. Counted(data, handler, 1) # Untouched
      BY <1>1, <2>1, PacketFacts DEF Consistent
    <2>4. data # << >>
      <3>1. SUFFICES ASSUME data = << >> PROVE FALSE
        OBVIOUS
      <3>2. Len(data) = 0
        BY <3>1
      <3>3. Slot(o, 1) \in Nat
        <4>1. 1 \in 1 .. MaxTm
          BY <1>1
        <4> QED BY <1>1, <4>1, SlotRange
      <3> QED BY <2>3, <3>2, <3>3 DEF Counted, Elem
    <2> QED BY <1>2, <2>1, <2>2, <2>4
  <1>7. Stored \in [1 .. n -> Time]
    BY <1>2, <1>3
  <1>8. \A i \in 1 .. n : Counted(data, handler, i) = Stored[i]
    BY <1>2
  <1> QED BY <1>1, <1>4, <1>5, <1>6, <1>7, <1>8

\* Where a read starts: at the first packet that is not too old, counted from
\* the oldest one without a turn.
LEMMA PeriodStart ==
    ASSUME SdInv, FileExists, Whole, NEW start \in Time,
           NEW first \in 1 .. handler.tm_number, Stored[first] >= start,
           \A i \in 1 .. first - 1 : Stored[i] < start
    PROVE  /\ ReadStart(start) = handler.oldest_tm_position + first - 1
           /\ SearchesStart(start) => data_exists /\ StartHits(start) # {}
           /\ ~SearchesStart(start) => first = 1
  <1> DEFINE o == handler.oldest_tm_position
             n == handler.tm_number
  <1>1. /\ o \in 0 .. MaxTm - 1 /\ n \in 0 .. MaxTm /\ MaxTm \in Nat
        /\ n > 0 /\ first \in 1 .. n /\ 1 \in 1 .. n
        /\ Stored[1] = handler.oldest_time /\ data # << >>
        /\ \A i \in 1 .. n : Stored[i] \in Nat
    <2>1. /\ o \in 0 .. MaxTm - 1 /\ n \in 0 .. MaxTm
          /\ Stored \in [1 .. n -> Time]
          /\ n > 0 => Stored[1] = handler.oldest_time /\ data # << >>
      BY WholeElements
    <2>2. \A i \in 1 .. n : Stored[i] \in Nat
      BY <2>1, PacketFacts
    <2>3. MaxTm \in Nat
      BY PacketFacts
    <2> HIDE DEF o, n
    <2>4. n > 0 /\ 1 \in 1 .. n
      BY <2>1, <2>3 DEF n
    <2> QED BY <2>1, <2>2, <2>3, <2>4 DEF n
  <1>2. start \in Nat
    BY PacketFacts
  <1>3. CASE SearchesStart(start)
    <2>1. first > 1
      BY <1>1, <1>2, <1>3 DEF SearchesStart
    <2>2. ASSUME NEW k \in 0 .. n - 1 PROVE FromOldest(k) = Stored[k + 1]
      <3>1. /\ k + 1 \in 1 .. n /\ o + (k + 1) - 1 = o + k
        BY <1>1
      <3>2. At(Slot(o, k + 1)) = Stored[k + 1]
        BY <3>1, WholeElements
      <3>3. Slot(o, k + 1) = (o + k) % MaxTm
        BY <3>1 DEF Slot
      <3> QED BY <3>2, <3>3 DEF FromOldest
    <2>3. first - 1 \in StartHits(start)
      <3>1. first - 1 \in 0 .. n - 1 /\ (first - 1) + 1 = first
        BY <1>1
      <3> QED BY <2>2, <3>1 DEF StartHits, Indices
    <2>4. ASSUME NEW k \in StartHits(start) PROVE first - 1 =< k
      <3>1. k \in 0 .. n - 1 /\ Stored[k + 1] >= start /\ k + 1 \in 1 .. n
        BY <1>1, <2>2 DEF StartHits, Indices
      <3>2. ~(k + 1 \in 1 .. first - 1)
        BY <1>1, <1>2, <3>1
      <3> QED BY <1>1, <3>1, <3>2
    <2>5. StartHits(start) \subseteq Int
      BY <1>1 DEF StartHits, Indices
    <2>6. Min(StartHits(start)) = first - 1
      BY <1>1, <2>3, <2>4, <2>5 DEF Min
    <2>7. ReadStart(start) = o + (first - 1)
      BY <1>3, <2>6 DEF ReadStart, StartPosition
    <2> QED BY <1>1, <1>3, <2>3, <2>7 DEF FileExists
  <1>4. CASE ~SearchesStart(start)
    <2>1. ~(start > Stored[1])
      BY <1>1, <1>4 DEF SearchesStart
    <2>2. first = 1
      <3>1. first > 1 => 1 \in 1 .. first - 1
        BY <1>1
      <3> QED BY <1>1, <1>2, <2>1, <3>1
    <2>3. ReadStart(start) = o
      BY <1>4 DEF ReadStart
    <2> QED BY <1>1, <1>4, <2>2, <2>3
  <1> QED BY <1>3, <1>4

\* The slot before the write position is that of the newest packet.
LEMMA LastWritten ==
    ASSUME SdInv, handler.tm_number > 0
    PROVE  Descending(handler.write_to) =
              Slot(handler.oldest_tm_position, handler.tm_number)
  <1> DEFINE o == handler.oldest_tm_position
             n == handler.tm_number
             w == handler.write_to
             x == o + n
  <1>1. /\ o \in 0 .. MaxTm - 1 /\ n \in 1 .. MaxTm /\ MaxTm \in Nat
        /\ w = x % MaxTm
    <2>1. handler \in Handler /\ Ring(handler)
      BY DEF SdInv, Ranges, TypeOK
    <2> QED BY <2>1, PacketFacts DEF Handler, Ring
  <1>2. Slot(o, n) = IF o + n - 1 < MaxTm THEN o + n - 1 ELSE o + n - 1 - MaxTm
    BY <1>1, SlotRange
  <1> HIDE DEF o, n, w
  <1>3. x \in Int /\ 0 =< x /\ x < 2 * MaxTm /\ -MaxTm =< x
    BY <1>1
  <1> HIDE DEF x
  <1>4. w = IF x < MaxTm THEN x ELSE x - MaxTm
    <2>1. /\ x \in 0 .. MaxTm - 1 => x % MaxTm = x
          /\ x >= MaxTm => x % MaxTm = x - MaxTm
      BY <1>1, <1>3, RingPosition
    <2> QED BY <1>1, <1>3, <2>1
  <1>5. Descending(w) = IF w - 1 < 0 THEN MaxTm - 1 ELSE w - 1
    BY DEF Descending, tail
  <1>6. Descending(w) = IF o + n - 1 < MaxTm THEN o + n - 1 ELSE o + n - 1 - MaxTm
    BY <1>1, <1>4, <1>5 DEF x
  <1> QED BY <1>2, <1>6 DEF o, n, w

\* Where it ends: at the last packet that is not too recent.
LEMMA PeriodEnd ==
    ASSUME SdInv, FileExists, Whole, NEW end \in Time,
           NEW last \in 1 .. handler.tm_number, Stored[last] =< end,
           \A i \in last + 1 .. handler.tm_number : Stored[i] > end
    PROVE  /\ ReadEnd(end) = Slot(handler.oldest_tm_position, last)
           /\ SearchesEnd(end) => data_exists /\ EndHits(end) # {}
           /\ ~SearchesEnd(end) => last = handler.tm_number
  <1> DEFINE o == handler.oldest_tm_position
             n == handler.tm_number
  <1>1. /\ o \in 0 .. MaxTm - 1 /\ n \in 0 .. MaxTm /\ MaxTm \in Nat
        /\ n > 0 /\ last \in 1 .. n /\ n \in 1 .. n /\ MaxTm > 0
        /\ Stored[n] = handler.newest_time /\ data # << >>
        /\ \A i \in 1 .. n : Stored[i] \in Nat
    <2>1. /\ o \in 0 .. MaxTm - 1 /\ n \in 0 .. MaxTm
          /\ Stored \in [1 .. n -> Time]
          /\ n > 0 => Stored[n] = handler.newest_time /\ data # << >>
      BY WholeElements
    <2>2. \A i \in 1 .. n : Stored[i] \in Nat
      BY <2>1, PacketFacts
    <2>3. MaxTm \in Nat /\ MaxTm > 0
      BY PacketFacts
    <2> HIDE DEF o, n
    <2>4. n > 0 /\ n \in 1 .. n
      BY <2>1, <2>3 DEF n
    <2> QED BY <2>1, <2>2, <2>3, <2>4 DEF n
  <1>2. end \in Nat
    BY PacketFacts
  <1>3. CASE SearchesEnd(end)
    <2>1. ASSUME NEW k \in 0 .. n - 1
          PROVE  /\ BackSlot(k) = Slot(o, n - k) /\ At(BackSlot(k)) = Stored[n - k]
                 /\ Stored[n - k] # Untouched /\ n - k \in 1 .. n
      <3>1. n - k \in 1 .. n
        BY <1>1
      <3>2. k \in Indices
        BY DEF Indices
      <3>3. BackSlot(k) = Slot(o, n - k) /\ At(BackSlot(k)) = Counted(data, handler, n - k)
        BY <3>2, BackSlots DEF SdInv, Ranges
      <3>4. Counted(data, handler, n - k) = Stored[n - k]
        BY <3>1, WholeElements
      <3>5. Stored[n - k] \in Time
        BY <3>1, WholeElements
      <3> QED BY <3>1, <3>3, <3>4, <3>5, PacketFacts DEF Packet
    <2>2. n - last \in EndHits(end) /\ n - (n - last) = last
      <3>1. n - last \in 0 .. n - 1 /\ n - (n - last) = last
        BY <1>1
      <3> QED BY <2>1, <3>1 DEF EndHits, Indices
    <2>3. ASSUME NEW k \in EndHits(end) PROVE n - last =< k
      <3>1. k \in 0 .. n - 1 /\ At(BackSlot(k)) =< end
        BY DEF EndHits, Indices
      <3>2. n - k \in 1 .. n /\ Stored[n - k] =< end
        BY <2>1, <3>1
      <3>3. ~(n - k \in last + 1 .. n)
        BY <1>1, <1>2, <3>2
      <3> QED BY <1>1, <3>1, <3>2, <3>3
    <2>4. EndHits(end) \subseteq Int
      BY <1>1 DEF EndHits, Indices
    <2>5. Min(EndHits(end)) = n - last
      BY <1>1, <2>2, <2>3, <2>4 DEF Min
    <2>6. ReadEnd(end) = BackSlot(n - last)
      BY <1>3, <2>5 DEF ReadEnd, EndPosition
    <2>7. BackSlot(n - last) = Slot(o, last)
      <3>1. n - last \in 0 .. n - 1
        BY <1>1
      <3> QED BY <2>1, <2>2, <3>1
    <2> QED BY <1>1, <1>3, <2>2, <2>6, <2>7 DEF FileExists
  <1>4. CASE ~SearchesEnd(end)
    <2>1. ~(end < Stored[n])
      BY <1>1, <1>4 DEF SearchesEnd
    <2>2. last = n
      <3>1. last < n => n \in last + 1 .. n
        BY <1>1
      <3> QED BY <1>1, <1>2, <2>1, <3>1
    <2>3. ReadEnd(end) = Descending(handler.write_to)
      BY <1>4 DEF ReadEnd
    <2> QED BY <1>1, <1>4, <2>2, <2>3, LastWritten
  <1> QED BY <1>3, <1>4

\* The file read between two packets, the first of which is found in the ring:
\* all of them, or all but the last when the ring turns between them.
LEMMA ReadBetween ==
    ASSUME SdInv, Whole, NEW start \in Time, NEW end \in Time,
           NEW first \in 1 .. handler.tm_number, NEW newest \in 1 .. handler.tm_number,
           first =< newest,
           ReadStart(start) = handler.oldest_tm_position + first - 1,
           ReadStart(start) =< tail,
           ReadEnd(end) = Slot(handler.oldest_tm_position, newest),
           ~SearchesStart(start) => first = 1,
           ~SearchesEnd(end) => newest = handler.tm_number
    PROVE  \E last \in first .. newest :
              /\ \/ last = newest
                 \/ /\ last = newest - 1
                    /\ handler.oldest_tm_position + last >= MaxTm
              /\ ReadNumber(start, end) = last - first + 1
              /\ ReadElements(start, end) = SubSeq(Stored, first, last)
  <1> DEFINE o == handler.oldest_tm_position
             n == handler.tm_number
             s == ReadStart(start)
             e == ReadEnd(end)
             number == ReadNumber(start, end)
             last == first + number - 1
  <1>1. /\ o \in 0 .. MaxTm - 1 /\ n \in 0 .. MaxTm /\ MaxTm \in Nat
        /\ first \in 1 .. n /\ newest \in 1 .. n /\ first =< newest
        /\ s = o + first - 1 /\ s =< MaxTm - 1
        /\ e = IF o + newest - 1 < MaxTm THEN o + newest - 1 ELSE o + newest - 1 - MaxTm
    BY WholeElements, PacketFacts DEF tail
  <1>2. Stored \in [1 .. n -> Time]
    BY WholeElements
  <1>3. \/ number = newest - first + 1
        \/ number = newest - first /\ o + newest - 1 >= MaxTm
    <2>1. \/ NumberBetween(s, e) = newest - first + 1
          \/ NumberBetween(s, e) = newest - first /\ o + newest - 1 >= MaxTm
      <3> HIDE DEF o, n, s, e
      <3>1. CASE o + newest - 1 < MaxTm
        <4>1. e >= s /\ e - s + 1 = newest - first + 1
          BY <1>1, <3>1
        <4> QED BY <4>1 DEF NumberBetween
      <3>2. CASE ~(o + newest - 1 < MaxTm)
        <4>1. /\ ~(e >= s) /\ ~((MaxTm - 1 - s) + e < 0)
              /\ (MaxTm - 1 - s) + e + 1 = newest - first
          BY <1>1, <3>2
        <4>2. NumberBetween(s, e) = 0 + ((MaxTm - 1 - s) + e) + 1
          BY <4>1 DEF NumberBetween, tail
        <4> QED BY <1>1, <3>2, <4>1, <4>2
      <3> QED BY <3>1, <3>2
    <2>2. CASE SearchesStart(start) \/ SearchesEnd(end)
      BY <2>1, <2>2 DEF ReadNumber
    <2>3. CASE ~(SearchesStart(start) \/ SearchesEnd(end))
      <3>1. first = 1 /\ newest = n /\ number = n
        BY <2>3 DEF ReadNumber
      <3> QED BY <1>1, <3>1
    <2> QED BY <2>2, <2>3
  <1>4. /\ last \in first .. newest /\ last - first + 1 = number
        /\ last = newest \/ (last = newest - 1 /\ o + last >= MaxTm)
    <2> HIDE DEF o, n, s, e, number
    <2> QED BY <1>1, <1>3
  <1>5. ASSUME NEW i \in 1 .. number
        PROVE  At(From(s, i - 1)) = Stored[first + i - 1]
    <2> DEFINE j == first + i - 1
    <2>1. /\ j \in 1 .. n /\ i - 1 \in 0 .. MaxTm /\ s + (i - 1) = o + j - 1
          /\ s \in 0 .. MaxTm - 1
      <3> HIDE DEF o, n, s, number, e
      <3> QED BY <1>1, <1>3, <1>5
    <2> HIDE DEF j, s, o, n
    <2>2. From(s, i - 1) = Slot(o, j)
      BY <2>1, FromIsSlot DEF Slot
    <2>3. At(Slot(o, j)) = Stored[j]
      BY <2>1, WholeElements DEF o, n
    <2> QED BY <2>2, <2>3 DEF j
  <1>6. SubSeq(Stored, first, last) = [i \in 1 .. number |-> Stored[first + i - 1]]
    <2>1. Stored \in Seq(Time) /\ Len(Stored) = n
      <3>1. n \in Nat
        BY <1>1
      <3> QED BY <1>2, <3>1
    <2> HIDE DEF last, number, n
    <2>2. first \in 1 .. Len(Stored) /\ last \in 1 .. Len(Stored)
      BY <1>1, <1>4, <2>1
    <2> QED BY <1>4, <2>1, <2>2, SubSeqElements
  <1>7. ReadElements(start, end) = [i \in 1 .. number |-> Stored[first + i - 1]]
    <2>1. ReadElements(start, end) = [i \in 1 .. number |-> At(From(s, i - 1))]
      BY DEF ReadElements
    <2> QED BY <1>5, <2>1
  <1> HIDE DEF last
  <1> QED BY <1>4, <1>6, <1>7

LEMMA ReadsPeriod == SdInv /\ FileExists => ReadsPeriodButLast
  <1> SUFFICES ASSUME SdInv, FileExists, NEW start \in Time, NEW end \in Time,
                      NEW size \in Sizes, pc = "idle", Whole,
                      InPeriod(start, end) # {}, ReadStart(start) =< tail
               PROVE  \E first, last \in 1 .. handler.tm_number :
                         /\ first =< last
                         /\ \/ InPeriod(start, end) = first .. last
                            \/ /\ InPeriod(start, end) = first .. last + 1
                               /\ handler.oldest_tm_position + last >= MaxTm
                         /\ IF last - first + 1 =< size
                            THEN /\ ReadCode(start, end, size) = 0
                                 /\ ReadElements(start, end) = SubSeq(Stored, first, last)
                            ELSE ReadCode(start, end, size) = -1
    BY DEF ReadsPeriodButLast
  <1> DEFINE n == handler.tm_number
             P == InPeriod(start, end)
  <1>1. /\ n \in Nat /\ Stored \in [1 .. n -> Time]
        /\ \A i, j \in 1 .. n : i =< j => Stored[i] =< Stored[j]
        /\ n > 0 => data # << >>
    BY WholeElements, PacketFacts
  <1>2. start \in Nat /\ end \in Nat /\ size \in Nat /\ \A i \in 1 .. n : Stored[i] \in Nat
    BY <1>1, PacketFacts, StoreAssumption
  <1>3. P = {i \in 1 .. n : start =< Stored[i] /\ Stored[i] =< end}
    BY <1>2 DEF InPeriod
  <1> HIDE DEF n, P
  <1>4. PICK first \in P : \A y \in P : first =< y
    <2>1. P \in SUBSET Nat /\ P # {}
      BY <1>3 DEF P
    <2> QED BY <2>1, LeastNumber
  <1>5. PICK newest \in P : \A y \in P : newest >= y
    <2>1. P \in SUBSET (0 .. n) /\ P # {}
      BY <1>1, <1>3 DEF P
    <2> QED BY <1>1, <2>1, GreatestNumber
  <1>6. /\ first \in 1 .. n /\ newest \in 1 .. n /\ first =< newest
        /\ start =< Stored[first] /\ Stored[newest] =< end
    BY <1>3, <1>4, <1>5
  <1>7. P = first .. newest
    <2>1. ASSUME NEW i \in first .. newest PROVE i \in P
      <3>1. i \in 1 .. n /\ first =< i /\ i =< newest
        BY <1>1, <1>6
      <3>2. Stored[first] =< Stored[i] /\ Stored[i] =< Stored[newest]
        BY <1>1, <1>6, <3>1
      <3>3. start =< Stored[i] /\ Stored[i] =< end
        BY <1>2, <1>6, <3>1, <3>2
      <3> QED BY <1>3, <3>1, <3>3
    <2>2. ASSUME NEW i \in P PROVE i \in first .. newest
      BY <1>3, <1>4, <1>5, <1>6
    <2> QED BY <2>1, <2>2
  <1>8. ASSUME NEW i \in 1 .. first - 1 PROVE Stored[i] < start
    <2>1. i \in 1 .. n /\ i < first /\ ~(i \in P)
      BY <1>1, <1>4, <1>6
    <2>2. Stored[i] =< Stored[newest]
      BY <1>1, <1>6, <2>1
    <2>3. Stored[i] =< end
      BY <1>2, <1>6, <2>1, <2>2
    <2> QED BY <1>2, <1>3, <2>1, <2>3
  <1>9. ASSUME NEW i \in newest + 1 .. n PROVE Stored[i] > end
    <2>1. i \in 1 .. n /\ i > newest /\ ~(i \in P)
      BY <1>1, <1>5, <1>6
    <2>2. Stored[first] =< Stored[i]
      BY <1>1, <1>6, <2>1
    <2>3. start =< Stored[i]
      BY <1>2, <1>6, <2>1, <2>2
    <2> QED BY <1>2, <1>3, <2>1, <2>3
  <1>10. /\ ReadStart(start) = handler.oldest_tm_position + first - 1
         /\ SearchesStart(start) => data_exists /\ StartHits(start) # {}
         /\ ~SearchesStart(start) => first = 1
    <2>1. Stored[first] >= start
      BY <1>2, <1>6
    <2> QED BY <1>6, <1>8, <2>1, PeriodStart DEF n
  <1>11. /\ ReadEnd(end) = Slot(handler.oldest_tm_position, newest)
         /\ SearchesEnd(end) => data_exists /\ EndHits(end) # {}
         /\ ~SearchesEnd(end) => newest = n
    BY <1>6, <1>9, PeriodEnd DEF n
  <1>12. PICK last \in first .. newest :
            /\ \/ last = newest
               \/ last = newest - 1 /\ handler.oldest_tm_position + last >= MaxTm
            /\ ReadNumber(start, end) = last - first + 1
            /\ ReadElements(start, end) = SubSeq(Stored, first, last)
    BY <1>6, <1>10, <1>11, ReadBetween DEF n
  <1>13. data_exists
    BY <1>1, <1>6 DEF FileExists
  <1>14. ~NotFound(start, end)
    BY <1>10, <1>11 DEF NotFound
  <1>15. last \in 1 .. n /\ first =< last /\ (last = newest - 1 => newest = last + 1)
    BY <1>1, <1>6
  <1>16. ReadCode(start, end, size) = IF last - first + 1 =< size THEN 0 ELSE -1
    <2>1. last - first + 1 > size <=> ~(last - first + 1 =< size)
      BY <1>2, <1>6, <1>15
    <2> QED BY <1>12, <1>13, <1>14, <2>1 DEF ReadCode
  <1>17. \/ P = first .. last
         \/ P = first .. last + 1 /\ handler.oldest_tm_position + last >= MaxTm
    BY <1>7, <1>12, <1>15
  <1> QED BY <1>6, <1>12, <1>15, <1>16, <1>17 DEF n, P

\* A read whose start is found in the ring answers with the whole period and
\* nothing else, but for its last packet when the period turns.
THEOREM PeriodReads == Spec => []ReadsPeriodButLast
  <1>1. Init => FileExists
    BY DEF Init, FileExists
  <1> QED BY InitialSdInv, SdInvStep, <1>1, FileExistsStep, ReadsPeriod, PTL DEF Spec
-----------------------------------------------------------------------------
(* The packets among the elements *)

\* The first h of n elements were erased, and the others were not.
Behind(s, n, h) ==
    /\ s \in [1 .. n -> Packet]
    /\ \A i \in 1 .. h : s[i] = Null
    /\ \A i \in h + 1 .. n : s[i] # Null
Rest(s, n, h) == [i \in 1 .. n - h |-> s[h + i]]

LEMMA PacketsBehind ==
    ASSUME NEW n \in Nat, NEW h \in 0 .. n, NEW s, Behind(s, n, h)
    PROVE  Packets(s) = Rest(s, n, h)
  <1> USE DEF Behind
  <1> DEFINE holes == {i \in DOMAIN s : s[i] = Null}
             S == {0} \cup holes
  <1>1. DOMAIN s = 1 .. n /\ s \in Seq(Packet) /\ Len(s) = n
    OBVIOUS
  <1>2. holes = 1 .. h
    BY <1>1
  <1>3. h \in S /\ \A y \in S : h >= y /\ y \in Int
    BY <1>2
  <1>4. Max(S) = h
    <2> HIDE DEF S
    <2>1. \A x \in S : (\A y \in S : x >= y) => x = h
      BY <1>3
    <2> QED BY <1>3, <2>1 DEF Max
  <1>5. Packets(s) = SubSeq(s, h + 1, n)
    BY <1>1, <1>4 DEF Packets
  <1>6. SubSeq(s, h + 1, n) = [i \in 1 .. n - h |-> s[h + i]]
    BY <1>1
  <1> QED BY <1>5, <1>6 DEF Rest

LEMMA HolesFirst ==
    ASSUME NEW n \in Nat, NEW s \in [1 .. n -> Packet],
           \A i, j \in 1 .. n : i =< j => s[i] =< s[j]
    PROVE  \E h \in 0 .. n : Behind(s, n, h)
  <1> USE DEF Behind
  <1> DEFINE H == {i \in 1 .. n : s[i] = Null}
  <1>1. CASE H = {}
    <2>1. 0 \in 0 .. n /\ \A i \in 0 + 1 .. n : s[i] # Null
      BY <1>1
    <2> QED BY <2>1
  <1>2. CASE H # {}
    <2>1. H \in SUBSET (0 .. n)
      OBVIOUS
    <2>2. PICK h \in H : \A y \in H : h >= y
      BY <1>2, <2>1, GreatestNumber
    <2>3. h \in 1 .. n /\ h \in 0 .. n /\ s[h] = Null
      BY <2>2
    <2>4. ASSUME NEW i \in 1 .. h PROVE s[i] = Null
      <3>1. i \in 1 .. n /\ s[i] =< s[h]
        BY <2>3
      <3>2. s[i] \in Nat
        BY <3>1, PacketFacts
      <3> QED BY <2>3, <3>1, <3>2, PacketFacts
    <2>5. ASSUME NEW i \in h + 1 .. n PROVE s[i] # Null
      <3>1. i \in 1 .. n /\ ~(h >= i)
        BY <2>3
      <3> QED BY <2>2, <3>1
    <2> QED BY <2>3, <2>4, <2>5
  <1> QED BY <1>1, <1>2

\* A log of packets is never taken for the lost one.
LEMMA NotLost ==
    ASSUME NEW n \in Nat, NEW p \in [1 .. n -> Time]
    PROVE  p # <<Null>>
  <1> SUFFICES ASSUME p = <<Null>> PROVE FALSE
    OBVIOUS
  <1>1. DOMAIN p = 1 .. n /\ DOMAIN <<Null>> = 1 .. 1 /\ p[1] = Null
    OBVIOUS
  <1>2. 1 \in 1 .. n
    BY <1>1
  <1>3. p[1] \in Time
    BY <1>2
  <1> QED BY <1>1, <1>3, PacketFacts

\* What is left when old packets were taken from the oldest side.
LEMMA RemainderOf ==
    ASSUME NEW n \in Nat, NEW p \in [1 .. n -> Time], NEW k \in 0 .. n,
           NEW time \in Time, \A i \in 1 .. k : p[i] =< time
    PROVE  [i \in 1 .. n - k |-> p[k + i]] \in Log!Remainders(p, time)
  <1>1. p # <<Null>>
    BY NotLost
  <1>2. p \in Seq(Time) /\ Len(p) = n
    OBVIOUS
  <1>3. SubSeq(p, k + 1, n) = [i \in 1 .. n - k |-> p[k + i]]
    BY <1>2
  <1> QED BY <1>1, <1>2, <1>3 DEF Log!Remainders

\* The elements that a handler counts, some of the oldest erased or no longer
\* counted.
LEMMA ErasedRemain ==
    ASSUME NEW n \in Nat, NEW s \in [1 .. n -> Packet],
           \A i, j \in 1 .. n : i =< j => s[i] =< s[j],
           NEW m \in 0 .. n, NEW time \in Time, \A i \in 1 .. m : s[i] =< time,
           NEW t, \/ t = [i \in 1 .. n |-> IF i =< m THEN Null ELSE s[i]]
                  \/ t = [i \in 1 .. n - m |-> s[m + i]]
    PROVE  Packets(t) \in Log!Remainders(Packets(s), time)
  <1>0. PICK h \in 0 .. n : Behind(s, n, h)
    BY HolesFirst
  <1>1. (\A i \in 1 .. h : s[i] = Null) /\ (\A i \in h + 1 .. n : s[i] # Null)
    BY <1>0 DEF Behind
  <1> DEFINE p == [i \in 1 .. n - h |-> s[h + i]]
             g == IF h >= m THEN h ELSE m
  <1>2. Packets(s) = p
    BY <1>0, PacketsBehind DEF Rest
  <1>3. n - h \in Nat /\ p \in [1 .. n - h -> Time]
    <2>1. ASSUME NEW i \in 1 .. n - h PROVE s[h + i] \in Time
      <3>1. h + i \in h + 1 .. n /\ h + i \in 1 .. n
        OBVIOUS
      <3>2. s[h + i] \in Packet /\ s[h + i] # Null
        BY <1>1, <3>1
      <3> QED BY <3>2 DEF Packet
    <2> QED BY <2>1
  <1>4. g \in 0 .. n /\ h =< g /\ m =< g /\ (g = h \/ g = m) /\ g - h \in 0 .. n - h
    OBVIOUS
  <1> HIDE DEF g
  <1>5. Packets(t) = [i \in 1 .. n - g |-> s[g + i]]
    <2>1. CASE t = [i \in 1 .. n |-> IF i =< m THEN Null ELSE s[i]]
      <3>1. t \in [1 .. n -> Packet]
        BY <2>1, PacketFacts
      <3>2. \A i \in 1 .. g : t[i] = Null
        BY <1>1, <1>4, <2>1
      <3>3. \A i \in g + 1 .. n : t[i] # Null
        BY <1>1, <1>4, <2>1
      <3>4. Packets(t) = [i \in 1 .. n - g |-> t[g + i]]
        <4>1. Behind(t, n, g)
          BY <3>1, <3>2, <3>3 DEF Behind
        <4> QED BY <1>4, <4>1, PacketsBehind DEF Rest
      <3>5. \A i \in 1 .. n - g : t[g + i] = s[g + i]
        BY <1>4, <2>1
      <3> QED BY <3>4, <3>5
    <2>2. CASE t = [i \in 1 .. n - m |-> s[m + i]]
      <3> DEFINE b == n - m
                 f == g - m
      <3>1. b \in Nat /\ f \in 0 .. b /\ b - f = n - g
        BY <1>4
      <3>2. t \in [1 .. b -> Packet]
        BY <2>2
      <3>3. ASSUME NEW i \in 1 .. f PROVE t[i] = Null
        <4>1. i \in 1 .. b /\ m + i \in 1 .. h
          BY <1>4, <3>1
        <4> QED BY <1>1, <2>2, <4>1
      <3>4. ASSUME NEW i \in f + 1 .. b PROVE t[i] # Null
        <4>1. i \in 1 .. b /\ m + i \in h + 1 .. n
          BY <1>4, <3>1
        <4> QED BY <1>1, <2>2, <4>1
      <3>5. Packets(t) = [i \in 1 .. b - f |-> t[f + i]]
        <4> HIDE DEF b, f
        <4>1. Behind(t, b, f)
          BY <3>2, <3>3, <3>4 DEF Behind
        <4> QED BY <3>1, <4>1, PacketsBehind DEF Rest
      <3>6. ASSUME NEW i \in 1 .. n - g PROVE t[f + i] = s[g + i]
        <4>1. f + i \in 1 .. b /\ m + (f + i) = g + i
          BY <1>4, <3>1
        <4> QED BY <2>2, <4>1
      <3> QED BY <3>1, <3>5, <3>6
    <2> QED BY <2>1, <2>2
  <1>6. \A i \in 1 .. g - h : p[i] =< time
    <2>1. ASSUME NEW i \in 1 .. g - h PROVE p[i] =< time
      <3>1. i \in 1 .. n - h /\ h + i \in 1 .. m
        BY <1>4
      <3> QED BY <3>1
    <2> QED BY <2>1
  <1>7. [i \in 1 .. (n - h) - (g - h) |-> p[(g - h) + i]] \in Log!Remainders(p, time)
    <2> DEFINE a == n - h
               k == g - h
    <2>1. a \in Nat /\ p \in [1 .. a -> Time] /\ k \in 0 .. a /\ \A i \in 1 .. k : p[i] =< time
      BY <1>3, <1>4, <1>6
    <2> HIDE DEF a, k, p
    <2>2. [i \in 1 .. a - k |-> p[k + i]] \in Log!Remainders(p, time)
      BY <2>1, RemainderOf
    <2> QED BY <2>2 DEF a, k
  <1>8. [i \in 1 .. (n - h) - (g - h) |-> p[(g - h) + i]] = [i \in 1 .. n - g |-> s[g + i]]
    <2>1. (n - h) - (g - h) = n - g
      BY <1>4
    <2>2. ASSUME NEW i \in 1 .. n - g PROVE p[(g - h) + i] = s[g + i]
      <3>1. (g - h) + i \in 1 .. n - h /\ h + ((g - h) + i) = g + i
        BY <1>4
      <3> QED BY <3>1
    <2> QED BY <2>1, <2>2
  <1> QED BY <1>2, <1>5, <1>7, <1>8

\* A store appends to the packets too.
LEMMA PacketsAppend ==
    ASSUME NEW n \in Nat, NEW s \in [1 .. n -> Packet],
           \A i, j \in 1 .. n : i =< j => s[i] =< s[j], NEW time \in Time
    PROVE  Packets(Append(s, time)) = Append(Packets(s), time)
  <1>0. PICK h \in 0 .. n : Behind(s, n, h)
    BY HolesFirst
  <1>1. (\A i \in 1 .. h : s[i] = Null) /\ (\A i \in h + 1 .. n : s[i] # Null)
    BY <1>0 DEF Behind
  <1> DEFINE t == Append(s, time)
             p == [i \in 1 .. n - h |-> s[h + i]]
  <1>2. Packets(s) = p
    BY <1>0, PacketsBehind DEF Rest
  <1>3. /\ n + 1 \in Nat /\ t \in [1 .. n + 1 -> Packet] /\ h \in 0 .. n + 1
        /\ t[n + 1] = time /\ \A i \in 1 .. n : t[i] = s[i]
    <2>1. time \in Packet /\ s \in Seq(Packet) /\ Len(s) = n
      BY DEF Packet
    <2>2. /\ t \in Seq(Packet) /\ Len(t) = n + 1 /\ t[n + 1] = time
          /\ \A i \in 1 .. n : t[i] = s[i]
      BY <2>1
    <2> HIDE DEF t
    <2>3. t \in [1 .. n + 1 -> Packet]
      BY <2>2
    <2> QED BY <2>2, <2>3
  <1> HIDE DEF t
  <1>4. Packets(t) = [i \in 1 .. n + 1 - h |-> t[h + i]]
    <2>1. \A i \in 1 .. h : t[i] = Null
      BY <1>1, <1>3
    <2>2. ASSUME NEW i \in h + 1 .. n + 1 PROVE t[i] # Null
      <3>1. i \in h + 1 .. n \/ i = n + 1
        OBVIOUS
      <3> QED BY <1>1, <1>3, <3>1, PacketFacts
    <2>3. Behind(t, n + 1, h)
      BY <1>3, <2>1, <2>2 DEF Behind
    <2> QED BY <1>3, <2>3, PacketsBehind DEF Rest
  <1>5. Append(p, time) = [i \in 1 .. n + 1 - h |-> t[h + i]]
    <2>1. p \in Seq(Packet) /\ Len(p) = n - h /\ time \in Packet
      <3>1. p \in [1 .. n - h -> Packet] /\ n - h \in Nat
        OBVIOUS
      <3> QED BY <3>1 DEF Packet
    <2>2. Append(p, time) = [i \in 1 .. (n - h) + 1 |-> IF i = (n - h) + 1 THEN time ELSE p[i]]
      <3> HIDE DEF p
      <3> QED BY <2>1, AppendIs
    <2>3. ASSUME NEW i \in 1 .. (n - h) + 1
          PROVE  (IF i = (n - h) + 1 THEN time ELSE p[i]) = t[h + i]
      <3>1. CASE i = (n - h) + 1
        <4>1. h + i = n + 1
          BY <3>1
        <4> QED BY <1>3, <3>1, <4>1
      <3>2. CASE i # (n - h) + 1
        <4>1. i \in 1 .. n - h /\ h + i \in 1 .. n
          BY <3>2
        <4> QED BY <1>3, <3>2, <4>1
      <3> QED BY <3>1, <3>2
    <2>4. (n - h) + 1 = n + 1 - h
      OBVIOUS
    <2> QED BY <2>2, <2>3, <2>4
  <1> QED BY <1>2, <1>4, <1>5 DEF t

LEMMA NoPackets == Packets(<< >>) = << >>
  <1> DEFINE s == << >>
  <1>1. s \in [1 .. 0 -> Packet]
    OBVIOUS
  <1>2. \A i \in 0 + 1 .. 0 : s[i] # Null
    OBVIOUS
  <1> HIDE DEF s
  <1>3. Behind(s, 0, 0) /\ 0 \in Nat /\ 0 \in 0 .. 0
    BY <1>1, <1>2 DEF Behind
  <1>4. Packets(s) = Rest(s, 0, 0)
    BY <1>3, PacketsBehind
  <1>5. Rest(s, 0, 0) = << >>
    BY DEF Rest
  <1> QED BY <1>4, <1>5 DEF s
-----------------------------------------------------------------------------
(* The store implements DurableLog *)

Working == IF handler_lost THEN <<Null>> ELSE Packets(Stored)
Durable == IF info_lost THEN <<Null>>
           ELSE IF info_exists THEN Packets(Contents(info)) ELSE << >>

\* What the handler counts and the file has not, the info file counts too.
Flags == /\ stale \in BOOLEAN /\ info_exists \in BOOLEAN
         /\ handler_lost => info_lost

LogInv == SdInv /\ Flags

LEMMA FlagsStep == Flags /\ [Next]_vars => Flags'
  <1> SUFFICES ASSUME Flags, [Next]_vars PROVE Flags'
    OBVIOUS
  <1>1. ASSUME UNCHANGED <<stale, info_exists, losses>> PROVE Flags'
    BY <1>1 DEF Flags, losses
  <1>2. CASE StartFresh
    BY <1>2 DEF StartFresh, Flags, history, losses
  <1>3. CASE StartAgain
    BY <1>3 DEF StartAgain, Flags, files
  <1>4. CASE StartFails
    BY <1>4 DEF StartFails, Flags, files, losses
  <1>5. CASE Stop
    BY <1>5 DEF Stop, Halt, Flags
  <1>6. CASE StoreFull \/ UpdateInfoFails
    BY <1>1, <1>6 DEF StoreFull, UpdateInfoFails, files, history
  <1>7. ASSUME NEW time \in Time, StoreTooOld(time) \/ StoreNoFile(time) PROVE Flags'
    BY <1>1, <1>7 DEF StoreTooOld, StoreNoFile, files, history
  <1>8. ASSUME NEW time \in Time, Store(time) PROVE Flags'
    <2>1. stale' = stale /\ info_exists' = info_exists
      BY <1>8 DEF Store
    <2>2. \/ info_lost' = (info_lost \/ stale) /\ handler_lost' = handler_lost
          \/ /\ handler_lost' = (handler_lost \/ handler.tm_number > 0)
             /\ info_lost' = (info_lost \/ stale \/ handler.tm_number > 0)
      BY <1>8 DEF Store
    <2>3. handler_lost' => info_lost'
      BY <2>2, Zenon DEF Flags
    <2> QED BY <2>1, <2>3 DEF Flags
  <1>9. CASE UpdateInfo
    BY <1>9 DEF UpdateInfo, Flags
  <1>10. ASSUME NEW start \in Time, NEW end \in Time, NEW size \in Sizes,
                Read(start, end, size) \/ ReadNoFile(start, end, size)
         PROVE  Flags'
    BY <1>1, <1>10 DEF Read, ReadNoFile, files, history
  <1>11. ASSUME NEW time \in Time, DeleteAll(time) PROVE Flags'
    BY <1>11 DEF DeleteAll, Flags
  <1>12. ASSUME NEW time \in Time, DeleteSome(time) PROVE Flags'
    BY <1>12 DEF DeleteSome, Flags, losses
  <1>13. ASSUME NEW time \in Time, StopWhileErasing(time) PROVE Flags'
    BY <1>13 DEF StopWhileErasing, Halt, Flags
  <1>14. ASSUME NEW time \in Time, DeleteRefused(time) PROVE Flags'
    BY <1>1, <1>14 DEF DeleteRefused, files, history
  <1>15. CASE UNCHANGED vars
    BY <1>1, <1>15 DEF vars, losses
  <1> QED BY <1>2, <1>3, <1>4, <1>5, <1>6, <1>7, <1>8, <1>9, <1>10, <1>11, <1>12, <1>13,
             <1>14, <1>15 DEF Next

\* The elements of a handler that agrees with the file.
LEMMA OrderedContents ==
    ASSUME NEW h \in Handler, Consistent(data, h)
    PROVE  /\ h.tm_number \in Nat /\ Len(Contents(h)) = h.tm_number
           /\ Contents(h) \in [1 .. h.tm_number -> Packet]
           /\ \A i \in 1 .. h.tm_number : Contents(h)[i] = Counted(data, h, i)
           /\ \A i, j \in 1 .. h.tm_number : i =< j => Contents(h)[i] =< Contents(h)[j]
  <1>1. h.tm_number \in Nat
    BY PacketFacts DEF Handler
  <1>2. /\ Contents(h) = [i \in 1 .. h.tm_number |-> Counted(data, h, i)]
        /\ \A i \in 1 .. h.tm_number : Contents(h)[i] = Counted(data, h, i)
        /\ Len(Contents(h)) = h.tm_number
    BY ContentsElements
  <1> QED BY <1>1, <1>2 DEF Consistent

LEMMA NothingCounted ==
    /\ Contents(FreshHandler) = << >>
    /\ handler.tm_number = 0 => Stored = << >>
    /\ handler'.tm_number = 0 => Stored' = << >>
  <1>1. Contents(FreshHandler) = << >>
    BY DEF Contents, FreshHandler
  <1>2. handler.tm_number = 0 => Stored = << >>
    BY DEF Stored, Contents
  <1>3. handler'.tm_number = 0 => Stored' = << >>
    BY DEF Stored, Contents
  <1> QED BY <1>1, <1>2, <1>3

\* What a restart would find while, or after, the handler's oldest elements are
\* erased.
LEMMA DurableRemains ==
    ASSUME LogInv, Running, NEW time \in Time, NEW count \in 0 .. handler.tm_number,
           Wiped(data, data', handler.oldest_tm_position, count),
           handler.tm_number = 0 => data' = data,
           info' = info, info_lost' = info_lost, info_exists' = info_exists,
           ~handler_lost => \A i \in 1 .. count : Counted(data, handler, i) =< time
    PROVE  Durable' \in Log!Remainders(Durable, time)
  <1>1. CASE info_lost
    <2>1. Durable = <<Null>> /\ Durable' = <<Null>>
      BY <1>1 DEF Durable
    <2> QED BY <2>1 DEF Log!Remainders
  <1>2. CASE ~info_lost /\ ~info_exists
    <2>1. Durable = << >> /\ Durable' = << >>
      BY <1>2 DEF Durable
    <2>2. << >> # <<Null>> /\ Len(<< >>) = 0 /\ SubSeq(<< >>, 0 + 1, 0) = << >>
      OBVIOUS
    <2>3. 0 \in {k \in 0 .. 0 : \A i \in 1 .. k : << >>[i] =< time}
      OBVIOUS
    <2> QED BY <2>1, <2>2, <2>3 DEF Log!Remainders
  <1>3. CASE ~info_lost /\ info_exists
    <2> DEFINE n == info.tm_number
               s == Contents(info)
    <2>1. /\ info \in Handler /\ handler \in Handler /\ Consistent(data, info)
          /\ ~handler_lost /\ Consistent(data, handler)
          /\ n \in 0 .. MaxTm /\ handler.tm_number \in 0 .. MaxTm
          /\ handler.oldest_tm_position \in 0 .. MaxTm - 1
          /\ info.oldest_tm_position \in 0 .. MaxTm - 1
          /\ MaxTm \in Nat /\ MaxTm > 0
      BY <1>3, PacketFacts
         DEF LogInv, Flags, SdInv, Ranges, TypeOK, InfoConsists, HandlerConsists, Handler
    <2>2. /\ n \in Nat /\ s \in [1 .. n -> Packet]
          /\ \A i \in 1 .. n : s[i] = Counted(data, info, i)
          /\ \A i, j \in 1 .. n : i =< j => s[i] =< s[j]
      BY <2>1, OrderedContents
    <2>3. Contents(info)' = [i \in 1 .. n |-> Counted(data', info, i)]
      BY DEF Contents, Counted, Elem, At, Slot
    <2>4. Durable = Packets(s) /\ Durable' = Packets(Contents(info)')
      BY <1>3 DEF Durable
    <2>5. ASSUME NEW m \in 0 .. n, \A i \in 1 .. m : s[i] =< time,
                 \A i \in 1 .. n : Counted(data', info, i) = IF i =< m THEN Null ELSE s[i]
          PROVE  Durable' \in Log!Remainders(Durable, time)
      <3> DEFINE t == Contents(info)'
      <3>1. t = [i \in 1 .. n |-> IF i =< m THEN Null ELSE s[i]]
        BY <2>3, <2>5
      <3> HIDE DEF t, s, n
      <3>2. Packets(t) \in Log!Remainders(Packets(s), time)
        BY <2>2, <2>5, <3>1, ErasedRemain
      <3> QED BY <2>4, <3>2 DEF t
    <2>6. CASE handler.tm_number = 0 \/ n = 0
      <3>1. \A i \in 1 .. n : Counted(data', info, i) = IF i =< 0 THEN Null ELSE s[i]
        BY <2>2, <2>6
      <3>2. 0 \in 0 .. n
        BY <2>1
      <3> QED BY <2>5, <3>1, <3>2
    <2>7. CASE handler.tm_number # 0 /\ n # 0
      <3>1. n > 0 /\ handler.tm_number > 0
        BY <2>1, <2>7
      <3>2. PICK d \in 0 .. MaxTm : Ahead(data, d)
        BY <1>3, <3>1, InfoWiped DEF LogInv
      <3>3. /\ handler.oldest_tm_position = (info.oldest_tm_position + d) % MaxTm
            /\ d + handler.tm_number =< MaxTm
            /\ \A i \in 1 .. d : i =< n => Counted(data, info, i) = Null
        BY <3>2 DEF Ahead
      <3>4. count \in 0 .. MaxTm /\ d + count =< MaxTm /\ d + count \in Nat
        BY <2>1, <3>3
      <3>5. \A i \in 1 .. n : Counted(data', info, i) = IF i =< d + count THEN Null
                                                      ELSE Counted(data, info, i)
        <4>1. Wiped(data, data', (info.oldest_tm_position + d) % MaxTm, count)
          BY <3>3
        <4> DEFINE erased == data'
        <4>2. Wiped(data, erased, (info.oldest_tm_position + d) % MaxTm, count)
          BY <4>1
        <4> HIDE DEF erased
        <4>3. /\ \A i \in 1 .. n : Counted(erased, info, i) = IF i =< d + count THEN Null
                                                             ELSE Counted(data, info, i)
              /\ Consistent(erased, info)
          BY <2>1, <3>3, <3>4, <4>2, WipedElements
        <4> QED BY <4>3 DEF erased
      <3> DEFINE m == IF d + count =< n THEN d + count ELSE n
      <3>6. m \in 0 .. n /\ (\A i \in 1 .. n : i =< m <=> i =< d + count)
        BY <2>1, <3>4
      <3> HIDE DEF m
      <3>7. ASSUME NEW i \in 1 .. m PROVE s[i] =< time
        <4>1. i \in 1 .. n /\ i =< d + count
          BY <2>1, <3>6
        <4>2. CASE i =< d
          <5>1. s[i] = Null
            BY <2>2, <3>3, <4>1, <4>2
          <5> QED BY <5>1, PacketFacts
        <4>3. CASE ~(i =< d)
          <5>1. i - d \in 1 .. count /\ i - d \in 1 .. MaxTm /\ d + (i - d) = i
            BY <2>1, <3>4, <4>1, <4>3
          <5>2. Slot(handler.oldest_tm_position, i - d) = Slot(info.oldest_tm_position, i)
            <6>1. d + (i - d) =< MaxTm
              BY <2>1, <4>1, <5>1
            <6> QED BY <2>1, <3>3, <5>1, <6>1, SlotShift
          <5>3. Counted(data, info, i) = Counted(data, handler, i - d)
            BY <5>2 DEF Counted
          <5> QED BY <2>1, <2>2, <4>1, <5>1, <5>3
        <4> QED BY <4>2, <4>3
      <3>8. \A i \in 1 .. n : Counted(data', info, i) = IF i =< m THEN Null ELSE s[i]
        BY <2>2, <3>5, <3>6
      <3> QED BY <2>5, <3>6, <3>7, <3>8
    <2> QED BY <2>6, <2>7
  <1> QED BY <1>1, <1>2, <1>3

\* What the program counts after a deletion.
\* When one element at most is left of those up to a time, so it is for the
\* packets among them.
LEMMA HardlyAnyPacket ==
    ASSUME NEW n \in Nat, NEW t \in [1 .. n -> Packet],
           \A i, j \in 1 .. n : i =< j => t[i] =< t[j],
           NEW time \in Time, \A i \in 2 .. n : t[i] > time
    PROVE  Log!HardlyAny(Packets(t), time)
  <1>1. PICK h \in 0 .. n : Behind(t, n, h)
    BY HolesFirst
  <1> DEFINE p == [i \in 1 .. n - h |-> t[h + i]]
  <1>2. Packets(t) = p
    BY <1>1, PacketsBehind DEF Rest
  <1>3. Len(p) = n - h
    <2>1. n - h \in Nat
      OBVIOUS
    <2> QED BY <2>1
  <1>4. ASSUME NEW i \in 2 .. n - h PROVE p[i] > time
    <2>1. i \in 1 .. n - h /\ h + i \in 2 .. n
      OBVIOUS
    <2> QED BY <2>1
  <1> HIDE DEF p
  <1> QED BY <1>2, <1>3, <1>4 DEF Log!HardlyAny

LEMMA WorkingRemains ==
    ASSUME LogInv, NEW time \in Time, DeleteAll(time) \/ DeleteSome(time)
    PROVE  \/ /\ Working' \in Log!Remainders(Working, time)
              /\ Working' = <<Null>> \/ Log!HardlyAny(Working', time)
           \/ Working = <<Null>> /\ Working' = << >>
  <1>1. CASE handler_lost /\ DeleteAll(time)
    <2>1. handler'.tm_number = 0 /\ ~handler_lost'
      BY <1>1 DEF DeleteAll, FreshHandler
    <2>2. Working' = << >>
      BY <2>1, NothingCounted, NoPackets DEF Working
    <2> QED BY <1>1, <2>2 DEF Working
  <1>2. CASE handler_lost /\ DeleteSome(time)
    <2>1. handler_lost' = handler_lost
      BY <1>2 DEF DeleteSome, losses
    <2>2. Working = <<Null>> /\ Working' = <<Null>>
      BY <1>2, <2>1 DEF Working
    <2> QED BY <2>2 DEF Log!Remainders
  <1>3. CASE ~handler_lost
    <2> DEFINE n == handler.tm_number
               s == Stored
               t == Stored'
    <2>1. ~handler_lost'
      BY <1>3 DEF DeleteAll, DeleteSome, losses
    <2>2. /\ n \in Nat /\ s \in [1 .. n -> Packet]
          /\ \A i, j \in 1 .. n : i =< j => s[i] =< s[j]
      <3>1. handler \in Handler /\ Consistent(data, handler)
        BY <1>3 DEF LogInv, SdInv, Ranges, TypeOK, HandlerConsists
      <3> QED BY <3>1, OrderedContents DEF Stored
    <2>3. PICK k \in 0 .. n : /\ t = SubSeq(s, k + 1, n)
                              /\ \A i \in 1 .. k : s[i] =< time
                              /\ \A i \in k + 2 .. n : s[i] > time
      BY <1>3, DeletesPrefix DEF LogInv
    <2> HIDE DEF n, s, t
    <2>4. t = [i \in 1 .. n - k |-> s[k + i]]
      <3>1. SubSeq(s, k + 1, n) = [i \in 1 .. n - k |-> s[k + i]]
        BY <2>2
      <3> QED BY <2>3, <3>1
    <2>5. Packets(t) \in Log!Remainders(Packets(s), time)
      BY <2>2, <2>3, <2>4, ErasedRemain
    <2>6. Working = Packets(s) /\ Working' = Packets(t)
      BY <1>3, <2>1 DEF Working, s, t
    <2>7. Log!HardlyAny(Packets(t), time)
      <3> DEFINE b == n - k
      <3>1. b \in Nat /\ \A i \in 1 .. b : k + i \in 1 .. n
        BY <2>2
      <3>2. t \in [1 .. b -> Packet]
        BY <2>2, <2>4, <3>1
      <3>3. \A i, j \in 1 .. b : i =< j => t[i] =< t[j]
        BY <2>2, <2>4, <3>1
      <3>4. \A i \in 2 .. b : t[i] > time
        BY <2>2, <2>3, <2>4
      <3> HIDE DEF b
      <3> QED BY <3>1, <3>2, <3>3, <3>4, HardlyAnyPacket
    <2> QED BY <2>5, <2>6, <2>7
  <1> QED BY <1>1, <1>2, <1>3

\* The state of the log that Log's actions speak of.
LogState == <<Running, Working, Durable, stale>>

\* Steps that change nothing of the log.
LEMMA SameLog ==
    ASSUME UNCHANGED <<handler, files, history>>, Running' = Running
    PROVE  UNCHANGED LogState
  BY DEF LogState, Working, Durable, Stored, Contents, At, files, history, losses

LEMMA StartStep ==
    ASSUME LogInv, StartFresh \/ StartAgain \/ StartFails \/ Stop
    PROVE  Log!Next
  <1>1. ~Running => handler = FreshHandler /\ ~stale /\ ~handler_lost
    BY DEF LogInv, SdInv, Continues
  <1>2. FreshHandler.tm_number = 0
    BY DEF FreshHandler
  <1>3. ~Running => Working = << >>
    BY <1>1, <1>2, NothingCounted, NoPackets DEF Working
  <1>4. CASE StartFresh
    <2>1. /\ ~Running /\ Running' /\ handler' = FreshHandler /\ ~handler_lost'
          /\ ~info_exists /\ info' = FreshHandler /\ info_exists' /\ info_lost' = info_lost
          /\ stale' = stale
      BY <1>1, <1>4 DEF StartFresh, Running, history, losses
    <2>2. Working' = << >>
      BY <1>2, <2>1, NothingCounted, NoPackets DEF Working
    <2>3. Contents(info)' = << >>
      BY <1>2, <2>1 DEF Contents
    <2>4. Durable' = Durable
      BY <2>1, <2>3, NoPackets DEF Durable
    <2>5. stale' \in BOOLEAN
      BY <2>1 DEF LogInv, Flags
    <2>6. Log!StartUnread
      BY <1>3, <2>1, <2>2, <2>4, <2>5 DEF Log!StartUnread, Working, Durable, Running
    <2> QED BY <2>6 DEF Log!Next
  <1>5. CASE StartAgain
    <2>1. /\ ~Running /\ Running' /\ handler' = info /\ info_exists
          /\ handler_lost' = info_lost /\ UNCHANGED <<info, info_exists, data, info_lost>>
          /\ stale' = stale
      BY <1>5 DEF StartAgain, Running, files
    <2>2. Stored' = Contents(info) /\ Contents(info)' = Contents(info)
      BY <2>1 DEF Stored, Contents, At
    <2>3. Durable' = Durable
      BY <2>1, <2>2 DEF Durable
    <2>4. Working' = Durable
      BY <2>1, <2>2 DEF Working, Durable
    <2>5. Log!Start
      BY <2>1, <2>3, <2>4 DEF Log!Start, Working, Durable, Running
    <2> QED BY <2>5 DEF Log!Next
  <1>6. CASE StartFails
    <2>1. /\ ~Running /\ Running' /\ handler' = FreshHandler /\ stale' = info_exists
          /\ handler_lost' = handler_lost
          /\ UNCHANGED <<info, info_exists, data, info_lost>>
      BY <1>6 DEF StartFails, Running, files, losses
    <2>2. Working' = << >>
      BY <1>1, <1>2, <2>1, NothingCounted, NoPackets DEF Working
    <2>3. Durable' = Durable
      BY <2>1 DEF Durable, Contents, At
    <2>4. stale' \in BOOLEAN
      BY <2>1 DEF LogInv, Flags
    <2>5. Log!StartUnread
      BY <1>3, <2>1, <2>2, <2>3, <2>4 DEF Log!StartUnread, Working, Durable, Running
    <2> QED BY <2>5 DEF Log!Next
  <1>7. CASE Stop
    <2>1. /\ Running /\ ~Running' /\ handler' = FreshHandler /\ ~stale' /\ ~handler_lost'
          /\ stale' = FALSE
          /\ UNCHANGED <<info, info_exists, data, info_lost>>
      BY <1>7 DEF Stop, Halt, Running
    <2>2. Working' = << >>
      BY <1>2, <2>1, NothingCounted, NoPackets DEF Working
    <2>3. Durable' = Durable
      BY <2>1 DEF Durable, Contents, At
    <2>4. Log!Stop
      <3>1. (pc # "stopped")' = FALSE
        BY <2>1 DEF Running
      <3> QED BY <2>1, <2>2, <2>3, <3>1 DEF Log!Stop, Log!End, Working, Durable, Running
    <2> QED BY <2>4 DEF Log!Next
  <1> QED BY <1>4, <1>5, <1>6, <1>7

LEMMA StoreStep ==
    ASSUME LogInv, Flags', NEW time \in Time, Store(time)
    PROVE  Log!Next
  <1>1. /\ Running /\ Running' /\ info' = info /\ info_exists' = info_exists
        /\ stale' = stale
    BY DEF Store, StoreAccepts, Running
  <1>2. CASE handler_lost'
    <2>1. info_lost'
      BY <1>2 DEF Flags
    <2>2. Working' = <<Null>> /\ Durable' = <<Null>>
      BY <1>2, <2>1 DEF Working, Durable
    <2>3. Log!StoreEmptied
      BY <1>1, <2>2 DEF Log!StoreEmptied, Working, Durable, Running
    <2> QED BY <2>3 DEF Log!Next
  <1>3. CASE ~handler_lost'
    <2>1. \/ info_lost' = (info_lost \/ stale) /\ handler_lost' = handler_lost
          \/ /\ handler_lost' = (handler_lost \/ handler.tm_number > 0)
             /\ info_lost' = (info_lost \/ stale \/ handler.tm_number > 0)
      BY DEF Store
    <2>2. ~handler_lost /\ (info_lost' <=> info_lost \/ stale)
      <3>1. CASE info_lost' = (info_lost \/ stale) /\ handler_lost' = handler_lost
        BY <1>3, <3>1, Zenon
      <3>2. CASE /\ handler_lost' = (handler_lost \/ handler.tm_number > 0)
                 /\ info_lost' = (info_lost \/ stale \/ handler.tm_number > 0)
        <4>1. ~handler_lost /\ ~(handler.tm_number > 0)
          BY <1>3, <3>2, Zenon
        <4> QED BY <3>2, <4>1, Zenon
      <3> QED BY <2>1, <3>1, <3>2
    <2> DEFINE n == handler.tm_number
               s == Stored
    <2>3. /\ n \in Nat /\ s \in [1 .. n -> Packet]
          /\ \A i, j \in 1 .. n : i =< j => s[i] =< s[j]
          /\ \A i \in 1 .. n : s[i] = Counted(data, handler, i)
      <3>1. handler \in Handler /\ Consistent(data, handler)
        BY <2>2 DEF LogInv, SdInv, Ranges, TypeOK, HandlerConsists
      <3> QED BY <3>1, OrderedContents DEF Stored
    <2>4. Stored' = Append(s, time)
      BY <1>3, StoreAppendsOne DEF LogInv
    <2>5. Working = Packets(s) /\ Working' = Append(Packets(s), time)
      <3> HIDE DEF n, s
      <3>1. Packets(Append(s, time)) = Append(Packets(s), time)
        BY <2>3, PacketsAppend
      <3> QED BY <1>3, <2>2, <2>4, <3>1 DEF Working, s
    <2>6. /\ Packets(s) # <<Null>>
          /\ \A i \in 1 .. Len(Packets(s)) : Packets(s)[i] =< time
      <3> HIDE DEF n, s
      <3>1. PICK h \in 0 .. n : Behind(s, n, h)
        BY <2>3, HolesFirst
      <3> DEFINE p == [i \in 1 .. n - h |-> s[h + i]]
      <3>2. Packets(s) = p
        BY <2>3, <3>1, PacketsBehind DEF Rest
      <3>3. ASSUME NEW i \in 1 .. n - h
            PROVE  s[h + i] \in Time /\ s[h + i] =< time
        <4>1. h + i \in h + 1 .. n /\ h + i \in 1 .. n /\ n > 0
          BY <2>3
        <4>2. s[h + i] \in Packet /\ s[h + i] # Null
          BY <2>3, <3>1, <4>1 DEF Behind
        <4>3. time >= handler.newest_time
          BY <4>1 DEF Store, StoreAccepts, n
        <4>4. s[h + i] =< time
          BY <2>2, <2>3, <4>1, <4>3, AllOld DEF LogInv, n
        <4> QED BY <4>2, <4>4 DEF Packet
      <3>4. n - h \in Nat /\ p \in [1 .. n - h -> Time]
        BY <2>3, <3>3
      <3>5. Len(p) = n - h /\ \A i \in 1 .. n - h : p[i] =< time
        BY <3>3, <3>4
      <3>6. p # <<Null>>
        <4> HIDE DEF p
        <4> QED BY <3>4, NotLost
      <3> QED BY <3>2, <3>5, <3>6
    <2>7. Durable' = IF stale THEN <<Null>> ELSE Durable
      <3>1. CASE info_lost'
        BY <2>2, <3>1 DEF Durable
      <3>2. CASE ~info_lost'
        <4>1. ~info_lost /\ ~stale
          BY <2>2, <3>2
        <4>2. \A i \in 1 .. info.tm_number :
                 Counted(data', info, i) = Counted(data, info, i)
          BY <3>2, StoredElements DEF LogInv
        <4>3. Contents(info)' = [i \in 1 .. info.tm_number |-> Counted(data', info, i)]
          BY <1>1 DEF Contents, Counted, Elem, At, Slot
        <4>4. Contents(info) = [i \in 1 .. info.tm_number |-> Counted(data, info, i)]
          BY DEF Contents, Counted, Elem, At, Slot
        <4>5. Contents(info)' = Contents(info)
          BY <4>2, <4>3, <4>4
        <4> QED BY <1>1, <3>2, <4>1, <4>5 DEF Durable
      <3> QED BY <3>1, <3>2
    <2>8. Log!Store(time)
      <3>1. Running' = Running
        BY <1>1 DEF Running
      <3>2. /\ Working # <<Null>> /\ Working' = Append(Working, time)
            /\ \A i \in 1 .. Len(Working) : Working[i] =< time
        BY <2>5, <2>6
      <3> QED BY <1>1, <2>7, <3>1, <3>2 DEF Log!Store, Working, Durable, Running
    <2> QED BY <2>8 DEF Log!Next
  <1> QED BY <1>2, <1>3

LEMMA DeleteStep ==
    ASSUME LogInv, NEW time \in Time,
           DeleteAll(time) \/ DeleteSome(time) \/ StopWhileErasing(time)
    PROVE  Log!Next
  <1>1. /\ Running /\ info' = info /\ info_lost' = info_lost /\ info_exists' = info_exists
    BY DEF DeleteAll, DeleteSome, StopWhileErasing, DeletesSome, Halt, Running, losses
  <1>2. CASE DeleteAll(time)
    <2>1. PICK count \in 0 .. handler.tm_number :
             Wiped(data, data', handler.oldest_tm_position, count)
      BY <1>2, EmptiedFile DEF DeleteAll, LogInv, SdInv, Ranges
    <2>2. handler.tm_number = 0 => data' = data
      BY <1>2, EmptiedFile DEF DeleteAll, LogInv, SdInv, Ranges
    <2>3. ASSUME ~handler_lost, NEW i \in 1 .. count
          PROVE  Counted(data, handler, i) =< time
      <3>1. handler.tm_number \in Nat
        BY PacketFacts DEF LogInv, SdInv, Ranges, TypeOK, Handler
      <3>2. i \in 1 .. handler.tm_number /\ time >= handler.newest_time
        BY <1>2, <3>1 DEF DeleteAll
      <3> QED BY <2>3, <3>2, AllOld DEF LogInv
    <2>4. Durable' \in Log!Remainders(Durable, time)
      BY <1>1, <2>1, <2>2, <2>3, DurableRemains
    <2>5. Running' /\ stale' = TRUE
      BY <1>2 DEF DeleteAll, Running
    <2>6. Log!Delete(time)
      BY <1>1, <1>2, <2>4, <2>5, WorkingRemains
         DEF Log!Delete, Working, Durable, Running
    <2> QED BY <2>6 DEF Log!Next
  <1>3. CASE DeleteSome(time)
    <2>1. PICK stop \in 1 .. handler.tm_number :
             /\ Wiped(data, data', handler.oldest_tm_position, stop)
             /\ ~handler_lost => \A i \in 1 .. stop : Counted(data, handler, i) =< time
      BY <1>3, DeletedContents DEF LogInv
    <2>2. stop \in 0 .. handler.tm_number /\ handler.tm_number # 0
      <3>1. handler.tm_number \in Nat
        BY PacketFacts DEF LogInv, SdInv, Ranges, TypeOK, Handler
      <3> QED BY <3>1
    <2>3. Durable' \in Log!Remainders(Durable, time)
      BY <1>1, <2>1, <2>2, DurableRemains
    <2>4. Running' /\ stale' = TRUE
      BY <1>3 DEF DeleteSome, Running
    <2>5. Log!Delete(time)
      BY <1>1, <1>3, <2>3, <2>4, WorkingRemains
         DEF Log!Delete, Working, Durable, Running
    <2> QED BY <2>5 DEF Log!Next
  <1>4. CASE StopWhileErasing(time)
    <2>1. PICK count \in 1 .. DeleteStop(time) : data' = Erased(count)
      BY <1>4 DEF StopWhileErasing
    <2>2. PICK i \in 1 .. handler.tm_number :
             Counted(data, handler, i) =< time /\ DeleteStop(time) \in 1 .. i
      BY <1>4, DeletedElements DEF StopWhileErasing, DeletesSome, LogInv, SdInv, Ranges
    <2>3. /\ handler \in Handler /\ handler.tm_number \in 0 .. MaxTm /\ MaxTm \in Nat
      BY PacketFacts DEF LogInv, SdInv, Ranges, TypeOK, Handler
    <2>4. /\ count \in 1 .. MaxTm /\ count \in 0 .. handler.tm_number /\ count =< i
          /\ handler.tm_number # 0
      BY <2>1, <2>2, <2>3
    <2>5. Wiped(data, data', handler.oldest_tm_position, count)
      BY <2>1, <2>4, ErasedFile DEF LogInv, SdInv, Ranges
    <2>6. ASSUME ~handler_lost, NEW j \in 1 .. count
          PROVE  Counted(data, handler, j) =< time
      <3>1. j \in 1 .. handler.tm_number /\ j =< i
        BY <2>2, <2>3, <2>4
      <3>2. Consistent(data, handler)
        BY <2>6 DEF LogInv, SdInv, HandlerConsists
      <3>3. Counted(data, handler, j) =< Counted(data, handler, i)
        BY <3>1, <3>2 DEF Consistent
      <3>4. /\ Counted(data, handler, j) \in Nat /\ Counted(data, handler, i) \in Nat
            /\ time \in Nat
        BY <3>1, <3>2, PacketFacts DEF Consistent
      <3> QED BY <2>2, <3>3, <3>4
    <2>7. Durable' \in Log!Remainders(Durable, time)
      BY <1>1, <2>4, <2>5, <2>6, DurableRemains
    <2>8. /\ ~Running' /\ stale' = FALSE /\ ~handler_lost' /\ handler'.tm_number = 0
      BY <1>4 DEF StopWhileErasing, Halt, Running, FreshHandler
    <2>9. Working' = << >>
      BY <2>8, NothingCounted, NoPackets DEF Working
    <2>10. Log!StopWhileDeleting(time)
      <3>1. (pc # "stopped")' = FALSE
        BY <2>8 DEF Running
      <3> QED BY <1>1, <2>7, <2>8, <2>9, <3>1
              DEF Log!StopWhileDeleting, Log!End, Working, Durable, Running
    <2> QED BY <2>10 DEF Log!Next
  <1> QED BY <1>2, <1>3, <1>4

LEMMA SaveStep ==
    ASSUME LogInv, UpdateInfo
    PROVE  Log!Next
  <1>1. /\ Running /\ Running' /\ info' = handler /\ stale' = FALSE /\ info_exists
        /\ info_lost' = handler_lost
        /\ UNCHANGED <<handler, data, info_exists, handler_lost>>
    BY DEF UpdateInfo, Running
  <1>2. Contents(info)' = Stored /\ Stored' = Stored
    BY <1>1 DEF Contents, Stored, At
  <1>3. Working' = Working
    BY <1>1, <1>2 DEF Working
  <1>4. Durable' = Working
    BY <1>1, <1>2 DEF Working, Durable
  <1>5. Log!Save
    BY <1>1, <1>3, <1>4 DEF Log!Save, Working, Durable, Running
  <1> QED BY <1>5 DEF Log!Next

LEMMA LogStep == LogInv /\ Flags' /\ [Next]_vars => [Log!Next]_Log!logVars
  <1> SUFFICES ASSUME LogInv, Flags', [Next]_vars PROVE [Log!Next]_Log!logVars
    OBVIOUS
  <1>1. ASSUME UNCHANGED LogState PROVE UNCHANGED Log!logVars
    BY <1>1 DEF LogState, Log!logVars, Working, Durable, Running
  <1>2. ASSUME UNCHANGED <<handler, files, history>>, Running' = Running
        PROVE  UNCHANGED Log!logVars
    BY <1>1, <1>2, SameLog
  <1>3. ASSUME StartFresh \/ StartAgain \/ StartFails \/ Stop PROVE Log!Next
    BY <1>3, StartStep
  <1>4. ASSUME StoreFull PROVE UNCHANGED Log!logVars
    BY <1>2, <1>4 DEF StoreFull, Running
  <1>5. ASSUME NEW time \in Time, StoreTooOld(time) PROVE UNCHANGED Log!logVars
    BY <1>2, <1>5 DEF StoreTooOld, Running
  <1>6. ASSUME NEW time \in Time, StoreNoFile(time) PROVE UNCHANGED Log!logVars
    <2>1. /\ handler' = Dated(time) /\ UNCHANGED <<pc, files, history>>
      BY <1>6 DEF StoreNoFile
    <2>2. CASE handler.tm_number # 0
      <3>1. handler' = handler
        BY <2>1, <2>2 DEF Dated
      <3> QED BY <1>2, <2>1, <3>1 DEF Running
    <2>3. CASE handler.tm_number = 0
      <3>1. handler'.tm_number = 0
        <4>1. handler \in Handler
          BY DEF LogInv, SdInv, Ranges, TypeOK
        <4> QED BY <2>1, <2>3, <4>1 DEF Dated, Handler
      <3>2. Stored = << >> /\ Stored' = << >>
        BY <2>3, <3>1, NothingCounted
      <3>3. UNCHANGED LogState
        BY <2>1, <3>2 DEF LogState, Working, Durable, Contents, At, Running, files,
                          history, losses
      <3> QED BY <1>1, <3>3
    <2> QED BY <2>2, <2>3
  <1>7. ASSUME NEW time \in Time, Store(time) PROVE Log!Next
    BY <1>7, StoreStep
  <1>8. ASSUME UpdateInfo PROVE Log!Next
    BY <1>8, SaveStep
  <1>9. ASSUME UpdateInfoFails PROVE UNCHANGED Log!logVars
    <2>1. Running /\ Running' /\ UNCHANGED <<handler, files, history>>
      BY <1>9 DEF UpdateInfoFails, Running
    <2>2. Running' = Running
      BY <2>1 DEF Running
    <2> QED BY <1>2, <2>1, <2>2
  <1>10. ASSUME NEW start \in Time, NEW end \in Time, NEW size \in Sizes,
                Read(start, end, size) \/ ReadNoFile(start, end, size)
         PROVE  UNCHANGED Log!logVars
    BY <1>2, <1>10 DEF Read, ReadNoFile, Running
  <1>11. ASSUME NEW time \in Time,
                DeleteAll(time) \/ DeleteSome(time) \/ StopWhileErasing(time)
         PROVE  Log!Next
    BY <1>11, DeleteStep
  <1>12. ASSUME NEW time \in Time, DeleteRefused(time) PROVE UNCHANGED Log!logVars
    BY <1>2, <1>12 DEF DeleteRefused, Running
  <1>13. ASSUME UNCHANGED vars PROVE UNCHANGED Log!logVars
    BY <1>2, <1>13 DEF vars, Running, files, history, losses
  <1> QED BY <1>3, <1>4, <1>5, <1>6, <1>7, <1>8, <1>9, <1>10, <1>11, <1>12, <1>13 DEF Next

\* The store implements the durable log, for rings of every size and any number
\* of stops and failed openings.
THEOREM StoreImplements == Spec => ImplementsLog
  <1>1. Init => Flags
    BY DEF Init, Flags
  <1>2. Init => Log!Init
    <2> SUFFICES ASSUME Init PROVE Log!Init
      OBVIOUS
    <2>1. /\ pc = "stopped" /\ handler.tm_number = 0 /\ ~handler_lost /\ ~info_lost
          /\ ~info_exists /\ stale = FALSE
      BY DEF Init, FreshHandler
    <2>2. Packets(Stored) = << >>
      BY <2>1, NothingCounted, NoPackets
    <2> QED BY <2>1, <2>2 DEF Log!Init
  <1>3. SdInv /\ Flags => LogInv
    BY DEF LogInv
  <1> QED BY InitialSdInv, SdInvStep, FlagsStep, LogStep, <1>1, <1>2, <1>3, PTL
          DEF Spec, ImplementsLog, Log!Spec
==============================================================================
