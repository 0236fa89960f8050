---------------------------- MODULE MCDraftTree ----------------------------
(***************************************************************************)
(* Trees of three levels of three nodes, and two or three requests in a    *)
(* batch whose prefixes differ.                                            *)
(***************************************************************************)
EXTENDS DraftTree

MCBatches == {<<2, 0>>, <<1, 3, 1>>}
=============================================================================
