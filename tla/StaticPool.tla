----------------------------- MODULE StaticPool -----------------------------
(***************************************************************************)
(* The allocator of static-allocation/static_allocation.c: it hands out    *)
(* consecutive blocks of a static pool and takes none back.  An address is *)
(* a distance from the first byte of the pool, or, before the first call   *)
(* of STATIC__init_heap, from the null pointer.                            *)
(***************************************************************************)
EXTENDS Integers, Sequences

CONSTANTS
    PoolSize,    \* C_STATIC_POOL_SIZE: 64
    MaxInt,      \* 2^31 - 1
    Sizes,       \* sizes callers ask for: the parameter is a signed int
    MaxCalls     \* bound on the blocks handed out between two initializations

ASSUME PoolAssumption ==
    /\ MaxInt \in Nat
    /\ PoolSize \in 0 .. MaxInt
    /\ Sizes \subseteq -(MaxInt + 1) .. MaxInt
    /\ MaxCalls \in Nat

VARIABLES
    base,                      \* what addresses count from: "null" or "pool"
    next_free_space_address,
    remaining_space,
    blocks,                    \* history: the blocks handed out
    given_back                 \* history: a negative size was asked for

vars == <<base, next_free_space_address, remaining_space, blocks, given_back>>

Block == [address : Int, size : Int]

Init ==
    /\ base = "null"
    /\ next_free_space_address = 0
    /\ remaining_space = PoolSize
    /\ blocks = << >>
    /\ given_back = FALSE

\* Mutant: the space left is not counted anew.
InitHeapKeepsCount ==
    /\ base' = "pool"
    /\ next_free_space_address' = 0
    /\ blocks' = << >>
    /\ given_back' = FALSE
    /\ UNCHANGED remaining_space

\* STATIC__init_heap, any number of times: the blocks handed out before are
\* handed out again.
InitHeap ==
    /\ base' = "pool"
    /\ next_free_space_address' = 0
    /\ remaining_space' = PoolSize
    /\ blocks' = << >>
    /\ given_back' = FALSE

\* Mutant: the last byte of the pool is never handed out.
HasRoomBut(size) == remaining_space - size \in 1 .. MaxInt

\* The difference is an int: where it is too large for one it wraps to a negative
\* number (the Makefile builds with -O0), and the size is refused.
HasRoom(size) == remaining_space - size \in 0 .. MaxInt

\* Mutant: the pointer advances before the address is taken.
MallocAfter(size) ==
    /\ HasRoom(size)
    /\ Len(blocks) < MaxCalls
    /\ blocks' = Append(blocks, [address |-> next_free_space_address + size,
                                 size |-> size])
    /\ next_free_space_address' = next_free_space_address + size
    /\ remaining_space' = remaining_space - size
    /\ given_back' = (given_back \/ size < 0)
    /\ UNCHANGED base

\* STATIC__malloc.  A negative size moves the pointer back.
Malloc(size) ==
    /\ HasRoom(size)
    /\ Len(blocks) < MaxCalls
    /\ blocks' = Append(blocks, [address |-> next_free_space_address,
                                 size |-> size])
    /\ next_free_space_address' = next_free_space_address + size
    /\ remaining_space' = remaining_space - size
    /\ given_back' = (given_back \/ size < 0)
    /\ UNCHANGED base

\* STATIC__malloc answers NULL.
MallocRefused(size) ==
    /\ ~HasRoom(size)
    /\ UNCHANGED vars

Next ==
    \/ InitHeap
    \/ \E size \in Sizes : Malloc(size) \/ MallocRefused(size)

Spec == Init /\ [][Next]_vars
-----------------------------------------------------------------------------
\* The pointer and the space left always make up the pool, also when negative
\* sizes have moved them out of it.
TypeOK ==
    /\ base \in {"null", "pool"}
    /\ blocks \in Seq(Block)
    /\ given_back \in BOOLEAN
    /\ remaining_space \in 0 .. MaxInt
    /\ next_free_space_address = PoolSize - remaining_space

Bytes(block) == block.address .. block.address + block.size - 1

Used == UNION {Bytes(blocks[i]) : i \in DOMAIN blocks}

\* In an initialized pool, and as long as no size is negative, no byte is
\* handed out twice and none outside of the pool, and the bytes not handed out
\* are the ones at the end that are still counted as free.
BlocksShareThePool ==
    base = "pool" /\ ~given_back =>
        /\ \A i, j \in DOMAIN blocks :
              i # j => Bytes(blocks[i]) \cap Bytes(blocks[j]) = {}
        /\ Used = 0 .. PoolSize - remaining_space - 1

\* In such a pool a caller gets a block exactly when as many bytes are free at
\* the end of the pool, down to the last of them (static_allocation.c:50).
GrantsWhatIsFree ==
    base = "pool" /\ ~given_back =>
        \A size \in Sizes \cap Nat :
            HasRoom(size) <=>
                PoolSize - size >= 0 /\ Used \cap (PoolSize - size .. PoolSize - 1) = {}
=============================================================================
