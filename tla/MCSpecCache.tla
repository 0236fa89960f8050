---------------------------- MODULE MCSpecCache ----------------------------
(***************************************************************************)
(* Instances of SpecCache for TLC.                                         *)
(***************************************************************************)
EXTENDS SpecCache

CONSTANT Requests       \* how many requests are submitted

MCId    == -1 .. (Requests - 1)
MCSpare == Depth * TopK
=============================================================================
