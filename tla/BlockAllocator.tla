--------------------------- MODULE BlockAllocator ---------------------------
(***************************************************************************)
(* The block pool of kv/allocator.py: the free list (a stack: pop() takes  *)
(* its last element), the live ids, and per id a BlockTable (blocks,       *)
(* seq_len). An id that is not live has the empty table. A method is an    *)
(* action; a method that may raise PoolExhausted does so before it changes *)
(* anything, so its check is a state predicate (Fits...) a caller branches *)
(* on and the action is the call that succeeds.                            *)
(***************************************************************************)
EXTENDS Integers, Sequences, FiniteSets

CONSTANTS
    NumBlocks,  \* blocks in the pool
    BlockSize,  \* token slots per block
    Id          \* ids a table can be kept for

\* BlockAllocator.__init__: assert num_blocks > 0 and block_size > 0
ASSUME PoolAssumption == /\ NumBlocks \in Nat \ {0}
                         /\ BlockSize \in Nat \ {0}

Block == 0 .. (NumBlocks - 1)

VARIABLES
    free,       \* _free, the last element is handed out first
    live,       \* the keys of _live
    blocks,     \* blocks[r]: physical blocks of r's table, in logical order
    seq_len     \* seq_len[r]: token slots reserved in r's table

pool == <<free, live, blocks, seq_len>>

PoolTypeOK == /\ free \in Seq(Block)
              /\ live \in SUBSET Id
              /\ blocks \in [Id -> Seq(Block)]
              /\ seq_len \in [Id -> Nat]

\* Slip: blocks numbered from one.
FullFreeListOneBased == [i \in 1 .. NumBlocks |-> NumBlocks - i + 1]

\* The free list starts as range(num_blocks - 1, -1, -1): block 0 is handed out first.
FullFreeList == [i \in 1 .. NumBlocks |-> NumBlocks - i]

PoolInit == /\ free = FullFreeList
            /\ live = {}
            /\ blocks = [r \in Id |-> << >>]
            /\ seq_len = [r \in Id |-> 0]

----------------------------------------------------------------------------
NumFree == Len(free)

\* blocks_for: the ceiling of n / BlockSize, written with Python's floor division.
BlocksFor(n) == -((-n) \div BlockSize)

\* n pops from the free list: the blocks in the order they come off, and what is left.
Popped(n) == [i \in 1 .. n |-> free[Len(free) + 1 - i]]
Left(n)   == SubSeq(free, 1, Len(free) - n)

\* alloc(r, n)
FitsAlloc(n) == BlocksFor(n) <= NumFree

Alloc(r, n) ==
    /\ r \notin live
    /\ FitsAlloc(n)
    /\ free'    = Left(BlocksFor(n))
    /\ live'    = live \cup {r}
    /\ blocks'  = [blocks EXCEPT ![r] = Popped(BlocksFor(n))]
    /\ seq_len' = [seq_len EXCEPT ![r] = n]

\* append(r, n)
Need(r, n) == BlocksFor(seq_len[r] + n) - Len(blocks[r])

FitsAppend(r, n) == Need(r, n) <= NumFree

\* Slip: new blocks put before the old ones.
AppendInFront(r, n) ==
    /\ r \in live
    /\ FitsAppend(r, n)
    /\ free'    = Left(Need(r, n))
    /\ blocks'  = [blocks EXCEPT ![r] = Popped(Need(r, n)) \o @]
    /\ seq_len' = [seq_len EXCEPT ![r] = @ + n]
    /\ UNCHANGED live

AppendTokens(r, n) ==
    /\ r \in live
    /\ FitsAppend(r, n)
    /\ free'    = Left(Need(r, n))
    /\ blocks'  = [blocks EXCEPT ![r] = @ \o Popped(Need(r, n))]
    /\ seq_len' = [seq_len EXCEPT ![r] = @ + n]
    /\ UNCHANGED live

\* Slip: the block that is kept in part given back too.
RollbackFloor(r, n) ==
    /\ r \in live
    /\ n \in 0 .. seq_len[r]
    /\ free'    = free \o SubSeq(blocks[r], (n \div BlockSize) + 1, Len(blocks[r]))
    /\ blocks'  = [blocks EXCEPT ![r] = SubSeq(@, 1, n \div BlockSize)]
    /\ seq_len' = [seq_len EXCEPT ![r] = n]
    /\ UNCHANGED live

\* rollback(r, n): whole blocks past the new end go back to the free list. The code
\* asserts 0 <= n <= seq_len; a caller that violates it raises.
Rollback(r, n) ==
    /\ r \in live
    /\ n \in 0 .. seq_len[r]
    /\ free'    = free \o SubSeq(blocks[r], BlocksFor(n) + 1, Len(blocks[r]))
    /\ blocks'  = [blocks EXCEPT ![r] = SubSeq(@, 1, BlocksFor(n))]
    /\ seq_len' = [seq_len EXCEPT ![r] = n]
    /\ UNCHANGED live

\* Slip: the table outlives the free.
FreeKeepsBlocks(r) ==
    /\ r \in live
    /\ free'    = free \o blocks[r]
    /\ live'    = live \ {r}
    /\ UNCHANGED <<blocks, seq_len>>

\* free(r)
FreeTable(r) ==
    /\ r \in live
    /\ free'    = free \o blocks[r]
    /\ live'    = live \ {r}
    /\ blocks'  = [blocks EXCEPT ![r] = << >>]
    /\ seq_len' = [seq_len EXCEPT ![r] = 0]

----------------------------------------------------------------------------
(***************************************************************************)
(* BlockAllocator.check(): every block is in exactly one place, and every  *)
(* table is as long as its seq_len needs.                                  *)
(***************************************************************************)
FreeOnce == \A i, j \in 1 .. Len(free) : free[i] = free[j] => i = j

OwnedOnce == \A r, s \in Id : \A i \in 1 .. Len(blocks[r]), j \in 1 .. Len(blocks[s]) :
                 blocks[r][i] = blocks[s][j] => r = s /\ i = j

FreeNotOwned == \A r \in Id : \A i \in 1 .. Len(free), j \in 1 .. Len(blocks[r]) :
                    free[i] # blocks[r][j]

NoneLost == \A b \in Block : \/ \E i \in 1 .. Len(free) : free[i] = b
                             \/ \E r \in Id : \E j \in 1 .. Len(blocks[r]) : blocks[r][j] = b

EveryBlockOnce == FreeOnce /\ OwnedOnce /\ FreeNotOwned /\ NoneLost

TablesSized == \A r \in Id : /\ Len(blocks[r]) = BlocksFor(seq_len[r])
                             /\ r \notin live => seq_len[r] = 0
=============================================================================
