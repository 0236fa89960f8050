--------------------------- MODULE MCGraphRunner ---------------------------
(***************************************************************************)
(* Instances of GraphRunner for TLC.                                       *)
(***************************************************************************)
EXTENDS GraphRunner

Engine(depth, topk, budget, prompts) ==
    [depth |-> depth, topk |-> topk, budget |-> budget, prompts |-> prompts]

\* Plain decoding, chains whose depth varies with the batch, and trees. No prompt has as
\* many rows as a verify runner; the shortest fit a captured extend.
MCConfigs == {Engine(0, 1, 0, {2, 3}), Engine(3, 1, 6, {1, 5}), Engine(3, 2, 0, {4, 6})}

\* Plain decoding with prompts of one token.
OneTokenPrompts == {Engine(0, 1, 0, {1, 2})}
=============================================================================
