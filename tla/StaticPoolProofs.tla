--------------------------- MODULE StaticPoolProofs ---------------------------
(***************************************************************************)
(* Proofs about the allocator of static-allocation/static_allocation.c,    *)
(* for every pool and all sizes, negative ones included.                   *)
(***************************************************************************)
EXTENDS StaticPool, TLAPS

\* The blocks follow one another without a gap, up to the pointer.
Consecutive ==
    /\ next_free_space_address >= 0
    /\ \A i \in DOMAIN blocks :
          /\ blocks[i].address >= 0
          /\ blocks[i].size >= 0
          /\ blocks[i].address + blocks[i].size =< next_free_space_address
    /\ \A i, j \in DOMAIN blocks :
          i < j => blocks[i].address + blocks[i].size =< blocks[j].address
    /\ \A byte \in 0 .. next_free_space_address - 1 :
          \E i \in DOMAIN blocks : byte \in Bytes(blocks[i])

PoolInv == TypeOK /\ (base = "pool" /\ ~given_back => Consecutive)

LEMMA InitialPool == Init => PoolInv
  <1> SUFFICES ASSUME Init PROVE PoolInv
    OBVIOUS
  <1>1. /\ base = "null" /\ next_free_space_address = 0
        /\ remaining_space = PoolSize /\ blocks = << >> /\ given_back = FALSE
    BY DEF Init
  <1>2. << >> \in Seq(Block)
    OBVIOUS
  <1>3. given_back \in BOOLEAN /\ base # "pool" /\ base \in {"null", "pool"}
    BY <1>1
  <1>4. remaining_space \in 0 .. MaxInt
        /\ next_free_space_address = PoolSize - remaining_space
    BY <1>1, PoolAssumption
  <1> QED BY <1>1, <1>2, <1>3, <1>4 DEF PoolInv, TypeOK

LEMMA InitHeapKeeps ==
    ASSUME InitHeap PROVE PoolInv'
  <1>1. /\ base' = "pool" /\ next_free_space_address' = 0
        /\ remaining_space' = PoolSize /\ blocks' = << >> /\ given_back' = FALSE
    BY DEF InitHeap
  <1>2. << >> \in Seq(Block) /\ DOMAIN << >> = {}
    OBVIOUS
  <1>3. TypeOK'
    <2>1. given_back' \in BOOLEAN /\ base' \in {"null", "pool"}
      BY <1>1
    <2>2. remaining_space' \in 0 .. MaxInt
          /\ next_free_space_address' = PoolSize - remaining_space'
      BY <1>1, PoolAssumption
    <2> QED BY <1>1, <1>2, <2>1, <2>2 DEF TypeOK
  <1>4. Consecutive'
    BY <1>1, <1>2 DEF Consecutive
  <1> QED BY <1>3, <1>4 DEF PoolInv

\* A block behind the others keeps them apart and leaves no gap.
LEMMA MallocKeeps ==
    ASSUME NEW size \in Sizes, PoolInv, Malloc(size)
    PROVE  PoolInv'
  <1> DEFINE new == [address |-> next_free_space_address, size |-> size]
             n == Len(blocks)
  <1>1. /\ size \in Int /\ PoolSize \in Nat
        /\ blocks \in Seq(Block) /\ n \in Nat /\ DOMAIN blocks = 1 .. n
        /\ next_free_space_address \in Int /\ remaining_space \in 0 .. MaxInt
        /\ MaxInt \in Nat
        /\ next_free_space_address = PoolSize - remaining_space
    BY PoolAssumption DEF PoolInv, TypeOK
  <1>2. new \in Block /\ new.address = next_free_space_address /\ new.size = size
    BY <1>1 DEF Block
  <1>3. /\ blocks' = Append(blocks, new)
        /\ next_free_space_address' = next_free_space_address + size
        /\ remaining_space' = remaining_space - size
        /\ remaining_space - size \in 0 .. MaxInt
        /\ base' = base
        /\ given_back' = (given_back \/ size < 0)
    BY DEF Malloc, HasRoom
  <1>4. /\ blocks' \in Seq(Block)
        /\ DOMAIN blocks' = 1 .. n + 1
        /\ blocks'[n + 1] = new
        /\ \A i \in 1 .. n : blocks'[i] = blocks[i]
    BY <1>1, <1>2, <1>3
  <1>5. TypeOK'
    BY <1>1, <1>3, <1>4 DEF PoolInv, TypeOK
  <1>6. ASSUME base' = "pool", ~given_back'
        PROVE  Consecutive'
    <2>1. ~given_back /\ ~(size < 0) /\ base = "pool"
      BY <1>3, <1>6
    <2>2. Consecutive
      BY <2>1 DEF PoolInv
    <2>3. size >= 0
      BY <1>1, <2>1
    <2>4. \A i \in 1 .. n : blocks[i].address \in Int /\ blocks[i].size \in Int
      <3> TAKE i \in 1 .. n
      <3>1. blocks[i] \in Block
        BY <1>1
      <3> QED BY <3>1 DEF Block
    <2>5. \A i \in 1 .. n + 1 :
            /\ blocks'[i].address >= 0
            /\ blocks'[i].size >= 0
            /\ blocks'[i].address + blocks'[i].size =< next_free_space_address'
      <3> TAKE i \in 1 .. n + 1
      <3>1. CASE i = n + 1
        BY <1>1, <1>2, <1>3, <1>4, <2>2, <2>3, <3>1 DEF Consecutive
      <3>2. CASE i # n + 1
        <4>1. i \in 1 .. n /\ blocks'[i] = blocks[i]
          BY <1>1, <1>4, <3>2
        <4>2. /\ blocks[i].address >= 0 /\ blocks[i].size >= 0
              /\ blocks[i].address + blocks[i].size =< next_free_space_address
          BY <1>1, <2>2, <4>1 DEF Consecutive
        <4> QED BY <1>1, <1>3, <2>3, <2>4, <4>1, <4>2
      <3> QED BY <3>1, <3>2
    <2>6. ASSUME NEW i \in 1 .. n + 1, NEW j \in 1 .. n + 1, i < j
          PROVE  blocks'[i].address + blocks'[i].size =< blocks'[j].address
      <3>1. i \in 1 .. n /\ blocks'[i] = blocks[i]
        BY <1>1, <1>4, <2>6
      <3>2. CASE j = n + 1
        BY <1>1, <1>2, <1>4, <2>2, <3>1, <3>2 DEF Consecutive
      <3>3. CASE j # n + 1
        <4>1. j \in 1 .. n /\ blocks'[j] = blocks[j]
          BY <1>1, <1>4, <3>3
        <4> QED BY <1>1, <2>2, <2>6, <3>1, <4>1 DEF Consecutive
      <3> QED BY <3>2, <3>3
    <2>7. ASSUME NEW byte \in 0 .. next_free_space_address' - 1
          PROVE  \E i \in 1 .. n + 1 : byte \in Bytes(blocks'[i])
      <3>1. CASE byte < next_free_space_address
        <4>1. byte \in 0 .. next_free_space_address - 1
          BY <1>1, <1>3, <2>3, <2>7, <3>1
        <4>2. PICK i \in 1 .. n : byte \in Bytes(blocks[i])
          BY <1>1, <2>2, <4>1 DEF Consecutive
        <4> QED BY <1>1, <1>4, <4>2
      <3>2. CASE ~(byte < next_free_space_address)
        <4>1. byte \in Bytes(new)
          BY <1>1, <1>2, <1>3, <2>3, <2>7, <3>2 DEF Bytes
        <4> QED BY <1>1, <1>4, <4>1
      <3> QED BY <3>1, <3>2
    <2>8. next_free_space_address' >= 0
      BY <1>1, <1>3, <2>2, <2>3 DEF Consecutive
    <2> QED BY <1>4, <2>5, <2>6, <2>7, <2>8 DEF Consecutive, Bytes
  <1> QED BY <1>5, <1>6 DEF PoolInv

LEMMA PoolStepKeeps == PoolInv /\ [Next]_vars => PoolInv'
  <1> SUFFICES ASSUME PoolInv, [Next]_vars PROVE PoolInv'
    OBVIOUS
  <1>1. CASE InitHeap
    BY <1>1, InitHeapKeeps
  <1>2. ASSUME NEW size \in Sizes, Malloc(size) PROVE PoolInv'
    BY <1>2, MallocKeeps
  <1>3. CASE UNCHANGED vars
    <2>1. TypeOK' = TypeOK /\ Consecutive' = Consecutive
      BY <1>3 DEF vars, TypeOK, Consecutive, Bytes
    <2> QED BY <1>3, <2>1 DEF PoolInv, vars
  <1> QED BY <1>1, <1>2, <1>3 DEF Next, MallocRefused

\* The pointer and the space left make up the pool, whatever sizes are asked.
THEOREM PoolType == Spec => []TypeOK
  <1>1. PoolInv => TypeOK
    BY DEF PoolInv
  <1> QED BY InitialPool, PoolStepKeeps, <1>1, PTL DEF Spec

\* What lies before the pointer has been handed out, each byte once.
LEMMA ConsecutiveShares ==
    ASSUME PoolInv, base = "pool", ~given_back
    PROVE  /\ \A i, j \in DOMAIN blocks :
                 i # j => Bytes(blocks[i]) \cap Bytes(blocks[j]) = {}
           /\ Used = 0 .. PoolSize - remaining_space - 1
  <1>1. Consecutive /\ blocks \in Seq(Block) /\ DOMAIN blocks = 1 .. Len(blocks)
    BY DEF PoolInv, TypeOK
  <1>2. \A i \in DOMAIN blocks : blocks[i].address \in Int /\ blocks[i].size \in Int
    <2> TAKE i \in DOMAIN blocks
    <2>1. blocks[i] \in Block
      BY <1>1
    <2> QED BY <2>1 DEF Block
  <1>3. /\ next_free_space_address = PoolSize - remaining_space
        /\ next_free_space_address \in Int
    BY PoolAssumption DEF PoolInv, TypeOK
  <1>4. ASSUME NEW i \in DOMAIN blocks, NEW j \in DOMAIN blocks, i # j
        PROVE  Bytes(blocks[i]) \cap Bytes(blocks[j]) = {}
    <2>1. i < j \/ j < i
      BY <1>1, <1>4
    <2>2. \/ blocks[i].address + blocks[i].size =< blocks[j].address
          \/ blocks[j].address + blocks[j].size =< blocks[i].address
      BY <1>1, <2>1 DEF Consecutive
    <2> QED BY <1>2, <2>2 DEF Bytes
  <1>5. ASSUME NEW byte \in Used
        PROVE  byte \in 0 .. next_free_space_address - 1
    <2>1. PICK i \in DOMAIN blocks : byte \in Bytes(blocks[i])
      BY <1>5 DEF Used
    <2> QED BY <1>1, <1>2, <1>3, <2>1 DEF Consecutive, Bytes
  <1>6. ASSUME NEW byte \in 0 .. next_free_space_address - 1
        PROVE  byte \in Used
    BY <1>1, <1>6 DEF Consecutive, Used
  <1> QED BY <1>3, <1>4, <1>5, <1>6

\* No byte is handed out twice or from outside of the pool, and none is lost
\* between two blocks, for every sequence of calls with sizes that are not
\* negative.
THEOREM PoolShared == Spec => []BlocksShareThePool
  <1>1. PoolInv => BlocksShareThePool
    BY ConsecutiveShares DEF BlocksShareThePool
  <1> QED BY InitialPool, PoolStepKeeps, <1>1, PTL DEF Spec

\* A request is granted exactly when as many bytes are free.
THEOREM PoolGrants == Spec => []GrantsWhatIsFree
  <1>1. ASSUME PoolInv, base = "pool", ~given_back, NEW size \in Sizes \cap Nat
        PROVE  HasRoom(size) <=>
                   /\ PoolSize - size >= 0
                   /\ Used \cap (PoolSize - size .. PoolSize - 1) = {}
    <2>1. Used = 0 .. PoolSize - remaining_space - 1
      BY <1>1, ConsecutiveShares
    <2>2. /\ PoolSize \in Nat /\ MaxInt \in Nat /\ PoolSize =< MaxInt
          /\ remaining_space \in Nat /\ size \in Nat
      BY <1>1, PoolAssumption DEF PoolInv, TypeOK
    <2>3. next_free_space_address >= 0 /\ remaining_space =< PoolSize
      BY <1>1, <2>2 DEF PoolInv, TypeOK, Consecutive
    <2>4. CASE remaining_space - size >= 0
      BY <2>1, <2>2, <2>3, <2>4 DEF HasRoom
    <2>5. CASE remaining_space - size < 0 /\ PoolSize - size >= 0
      <3>1. PoolSize - size \in Used \cap (PoolSize - size .. PoolSize - 1)
        BY <2>1, <2>2, <2>3, <2>5
      <3> QED BY <2>2, <2>5, <3>1 DEF HasRoom
    <2>6. CASE PoolSize - size < 0
      BY <2>2, <2>3, <2>6 DEF HasRoom
    <2> QED BY <2>2, <2>4, <2>5, <2>6
  <1>2. PoolInv => GrantsWhatIsFree
    BY <1>1 DEF GrantsWhatIsFree
  <1> QED BY InitialPool, PoolStepKeeps, <1>2, PTL DEF Spec
==============================================================================
