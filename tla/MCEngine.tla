------------------------------ MODULE MCEngine ------------------------------
(***************************************************************************)
(* Instances of Engine for TLC. The ids and the bound on what a step may   *)
(* over-reserve follow from the other constants.                           *)
(***************************************************************************)
EXTENDS Engine

CONSTANT Requests       \* how many requests are submitted

MCId    == -1 .. (Requests - 1)
MCSpare == Depth * TopK
=============================================================================
