-------------------------- MODULE AllocatorClients --------------------------
(***************************************************************************)
(* The allocator under every client that obeys its preconditions: any      *)
(* order of alloc, append, rollback and free on any ids, as in             *)
(* tests/test_allocator.py (test_churn). A call the pool refuses           *)
(* (PoolExhausted) changes nothing, so it is a stuttering step here.       *)
(***************************************************************************)
EXTENDS BlockAllocator

CONSTANT MaxSeqLen  \* bound: the longest table a client asks for

ASSUME ClientAssumption == MaxSeqLen \in Nat

AllocReq(r) == \E n \in 0 .. MaxSeqLen : Alloc(r, n)

AppendReq(r) == \E n \in 0 .. MaxSeqLen : /\ seq_len[r] + n <= MaxSeqLen
                                          /\ AppendTokens(r, n)

RollbackReq(r) == \E n \in 0 .. MaxSeqLen : Rollback(r, n)

FreeReq(r) == FreeTable(r)

ClientsNext == \E r \in Id : AllocReq(r) \/ AppendReq(r) \/ RollbackReq(r) \/ FreeReq(r)

ClientsSpec == PoolInit /\ [][ClientsNext]_pool

----------------------------------------------------------------------------
\* "Every block accounted for exactly once" (BlockAllocator.check, allocator.py:79-85):
\* no block leaks and none is owned twice, whatever the clients do.
PoolAccounted == EveryBlockOnce

\* Every table holds exactly the blocks its seq_len needs (the assert in check), so that
\* slot q of a request is always inside a block the request owns.
TablesFit == TablesSized

\* While a position stays reserved its physical slot never changes: append and rollback
\* touch only the tail of a table (cache.py:136 turns positions into slots through it).
SlotsStable ==
    [][\A r \in live \cap live' :
           \A i \in (1 .. Len(blocks[r])) \cap (1 .. Len(blocks'[r])) :
               blocks'[r][i] = blocks[r][i]]_pool

\* The allocator implements the ownership specification: whatever the free list does, a
\* step changes the tail of one request's table and never hands out a held block.
Ownership == INSTANCE BlockOwnership WITH Holder <- Id, held <- blocks
OwnershipSpec == Ownership!Spec
=============================================================================
