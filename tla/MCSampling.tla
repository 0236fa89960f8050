----------------------------- MODULE MCSampling -----------------------------
(***************************************************************************)
(* Instances of Sampling for TLC.                                          *)
(***************************************************************************)
EXTENDS Sampling

Plain == [rule |-> "exact", greedy |-> FALSE, sample |-> FALSE, top_k |-> 0, top_p |-> W,
          tau |-> W, accept_topk |-> 0, nodes |-> 2]

\* The rules that keep the target's support, with and without a nucleus, greedy, and
\* chains of drafts drawn from the head.
Lossless == {[Plain EXCEPT !.nodes = 3], [Plain EXCEPT !.greedy = TRUE], [Plain EXCEPT !.top_k = 2],
             [Plain EXCEPT !.top_p = 1], [Plain EXCEPT !.rule = "power"],
             [Plain EXCEPT !.sample = TRUE, !.nodes = 1]}
\* The relaxed rule, also with a tau no draft of the nucleus may reach and a rank that
\* accepts what is not in it.
Relaxed  == {[Plain EXCEPT !.rule = "relaxed", !.tau = 0],
             [Plain EXCEPT !.rule = "relaxed", !.tau = 1],
             [Plain EXCEPT !.rule = "relaxed", !.tau = 2],
             [Plain EXCEPT !.rule = "relaxed", !.top_k = 2],
             [Plain EXCEPT !.rule = "relaxed", !.accept_topk = 1],
             [Plain EXCEPT !.rule = "relaxed", !.accept_topk = 2, !.greedy = TRUE]}

MCParams == Lossless \cup Relaxed

\* Rows below the root.
MCRows == {w \in Softmax : w[1] = 1 /\ w[2] = W - 1}
=============================================================================
