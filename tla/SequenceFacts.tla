---------------------------- MODULE SequenceFacts ----------------------------
(***************************************************************************)
(* Facts shared by the proofs: sequences given element by element,         *)
(* positions in a ring, and the least number of a set.                     *)
(***************************************************************************)
EXTENDS Integers, Sequences, WellFoundedInduction, TLAPS

\* A product that fits in an unsigned int is not changed by the reduction.
LEMMA SmallModulus ==
    ASSUME NEW n \in Nat, NEW m \in Nat, n < m
    PROVE  n % m = n
  BY SMT

\* Appending one element to a sequence given by its n elements.
LEMMA AppendElement ==
    ASSUME NEW S, NEW n \in Nat, NEW f \in [1 .. n + 1 -> S]
    PROVE  Append([i \in 1 .. n |-> f[i]], f[n + 1]) = [i \in 1 .. n + 1 |-> f[i]]
  BY SMT

\* The first element of a sequence given by its n elements, and the others.
LEMMA RemoveElement ==
    ASSUME NEW S, NEW n \in Nat, n > 0, NEW f \in [1 .. n -> S]
    PROVE  /\ [i \in 1 .. n |-> f[i]] # << >>
           /\ Head([i \in 1 .. n |-> f[i]]) = f[1]
           /\ Tail([i \in 1 .. n |-> f[i]]) = [i \in 1 .. n - 1 |-> f[i + 1]]
  BY SMT

\* A part of a sequence.
LEMMA SubSeqElements ==
    ASSUME NEW S, NEW seq \in Seq(S), NEW a \in 1 .. Len(seq), NEW b \in 1 .. Len(seq)
    PROVE  SubSeq(seq, a, b) = [i \in 1 .. b - a + 1 |-> seq[a + i - 1]]
  BY SMT

LEMMA SubSeqFrom ==
    ASSUME NEW S, NEW seq \in Seq(S), NEW a \in 1 .. Len(seq)
    PROVE  SubSeq(seq, a + 1, Len(seq)) = [i \in 1 .. Len(seq) - a |-> seq[a + i]]
  BY SMT

\* A sequence with one element more.
LEMMA AppendIs ==
    ASSUME NEW S, NEW seq \in Seq(S), NEW e \in S
    PROVE  Append(seq, e) =
              [i \in 1 .. Len(seq) + 1 |-> IF i = Len(seq) + 1 THEN e ELSE seq[i]]
  <1> DEFINE a == Append(seq, e)
             n == Len(seq)
  <1>1. /\ n \in Nat /\ a \in Seq(S) /\ Len(a) = n + 1 /\ a[n + 1] = e
        /\ \A i \in 1 .. n : a[i] = seq[i]
    OBVIOUS
  <1> HIDE DEF a
  <1>2. a = [i \in 1 .. n + 1 |-> a[i]]
    BY <1>1
  <1>3. \A i \in 1 .. n + 1 : a[i] = IF i = n + 1 THEN e ELSE seq[i]
    BY <1>1
  <1>4. a = [i \in 1 .. n + 1 |-> IF i = n + 1 THEN e ELSE seq[i]]
    BY <1>2, <1>3, Zenon
  <1> QED BY <1>4 DEF a

\* A number that is at most one turn away from a position of the ring.
LEMMA RingPosition ==
    ASSUME NEW m \in Nat, NEW x \in Int, -m =< x, x < 2 * m
    PROVE  /\ x < 0 => x % m = x + m
           /\ x \in 0 .. m - 1 => x % m = x
           /\ x >= m => x % m = x - m
           /\ x % m \in 0 .. m - 1
  <1>1. x < 0 => x % m = x + m
    BY SMT
  <1>2. x \in 0 .. m - 1 => x % m = x
    BY SMT
  <1>3. x >= m => x % m = x - m
    BY SMT
  <1> QED BY <1>1, <1>2, <1>3

\* The slot k behind the one before w, and the slot k ahead of w.
LEMMA BackInRing ==
    ASSUME NEW m \in Nat, NEW w \in 0 .. m - 1, NEW k \in 0 .. m - 1
    PROVE  /\ (w - 1 - k) % m = IF w - 1 - k >= 0 THEN w - 1 - k ELSE w - 1 - k + m
           /\ (w - 1 - k) % m \in 0 .. m - 1
  <1> DEFINE x == w - 1 - k
  <1>1. x \in Int /\ -m =< x /\ x < m /\ x < 2 * m
    OBVIOUS
  <1> HIDE DEF x
  <1>2. x % m \in 0 .. m - 1 /\ (x < 0 => x % m = x + m) /\ (x \in 0 .. m - 1 => x % m = x)
    BY <1>1, RingPosition
  <1> QED BY <1>1, <1>2 DEF x

LEMMA AheadInRing ==
    ASSUME NEW m \in Nat, NEW w \in 0 .. m - 1, NEW k \in 0 .. m - 1
    PROVE  /\ (w + k) % m = IF w + k < m THEN w + k ELSE w + k - m
           /\ (w + k) % m \in 0 .. m - 1
  <1> DEFINE x == w + k
  <1>1. x \in Int /\ 0 =< x /\ x < 2 * m /\ -m =< x
    OBVIOUS
  <1> HIDE DEF x
  <1>2. x % m \in 0 .. m - 1 /\ (x >= m => x % m = x - m) /\ (x \in 0 .. m - 1 => x % m = x)
    BY <1>1, RingPosition
  <1> QED BY <1>1, <1>2 DEF x

\* A set of natural numbers has a least one.
LEMMA LeastNumber ==
    ASSUME NEW S \in SUBSET Nat, S # {}
    PROVE  \E x \in S : \A y \in S : x =< y
  <1> DEFINE R == {pair \in Nat \X Nat : pair[1] < pair[2]}
  <1>1. IsWellFoundedOn(R, Nat)
    BY NatLessThanWellFounded DEF OpToRel
  <1>2. PICK x \in S : \A y \in S : ~(<<y, x>> \in R)
    BY <1>1, WFMin
  <1>3. \A y \in S : ~(y < x)
    BY <1>2
  <1> QED BY <1>3

\* A set of natural numbers with a bound has a greatest one.
LEMMA GreatestNumber ==
    ASSUME NEW n \in Nat, NEW S \in SUBSET (0 .. n), S # {}
    PROVE  \E x \in S : \A y \in S : x >= y
  <1> DEFINE R == {n - y : y \in S}
  <1>1. R \in SUBSET Nat /\ R # {}
    <2>1. ASSUME NEW y \in S PROVE n - y \in Nat
      OBVIOUS
    <2>2. PICK y \in S : TRUE
      OBVIOUS
    <2>3. n - y \in R
      BY <2>2
    <2> QED BY <2>1, <2>3
  <1>2. PICK r \in R : \A q \in R : r =< q
    BY <1>1, LeastNumber
  <1>3. PICK x \in S : r = n - x
    BY <1>2
  <1>4. ASSUME NEW y \in S PROVE x >= y
    <2>1. n - x =< n - y
      BY <1>2, <1>3
    <2> QED BY <2>1, <1>3
  <1> QED BY <1>4
==============================================================================
