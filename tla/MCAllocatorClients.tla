------------------------- MODULE MCAllocatorClients -------------------------
(***************************************************************************)
(* AllocatorClients on a pool of a few blocks. Request ids are             *)
(* interchangeable: the allocator only compares them.                      *)
(***************************************************************************)
EXTENDS AllocatorClients, TLC

IdSymmetry == Permutations(Id)
=============================================================================
