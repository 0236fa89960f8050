----------------------------- MODULE MCTrainer -----------------------------
(***************************************************************************)
(* Instances of Trainer for TLC. The pool is the one main computes.        *)
(***************************************************************************)
EXTENDS Trainer

CONSTANT Requests       \* how many requests are submitted

MCId     == -1 .. (Requests - 1)
MCSpare  == Depth * TopK
MCAdmit  == Prompts * Group
MCBlocks == MainBlocks
=============================================================================
