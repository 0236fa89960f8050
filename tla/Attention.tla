----------------------------- MODULE Attention -----------------------------
(***************************************************************************)
(* Which cache positions each query row of a request attends, as the       *)
(* backends of model/attention.py choose it from an AttnMeta (kv/cache.py):*)
(* by the mask the request brings, or by kernels that differ in how they   *)
(* align the causal triangle. A request has q query rows over k cached     *)
(* positions; a mask is the set of columns of each row.                    *)
(***************************************************************************)
EXTENDS Integers, Sequences

Unmasked == << >>       \* masks is None: causal

Everything(q, k) == [j \in 1 .. q |-> 0 .. (k - 1)]

\* is_causal=True: row j sees as many keys as there are rows up to it.
TopLeft(q, k) == [j \in 1 .. q |-> 0 .. (j - 1)]

\* causal_mask: bottom-right aligned, the last row sees every key.
CausalMask(q, k) == [j \in 1 .. q |-> {c \in 0 .. (k - 1) : c <= k - q + j - 1}]

\* Slip: an append in the middle of a sequence taken for a prefill.
SdpaTopLeft(q, k, mask) ==
    IF mask # Unmasked THEN mask ELSE IF q = 1 THEN Everything(q, k) ELSE TopLeft(q, k)

\* SdpaBackend.run.
Sdpa(q, k, mask) ==
    CASE mask # Unmasked              -> mask
      [] mask = Unmasked /\ q = 1     -> Everything(q, k)
      [] mask = Unmasked /\ q = k /\ q # 1 -> TopLeft(q, k)
      [] OTHER                        -> CausalMask(q, k)

\* FlashInferBackend.plan: the custom mask of the batch if any request has one; the decode
\* kernel if every request of it has one row; else causal prefill, which FlashInfer aligns
\* bottom-right.
FlashInfer(q, k, mask, decode) ==
    CASE mask # Unmasked           -> mask
      [] mask = Unmasked /\ decode -> Everything(q, k)
      [] OTHER                     -> CausalMask(q, k)

\* The rows of one request under the backend in use.
Attends(backend, q, k, mask, decode) ==
    IF backend = "sdpa" THEN Sdpa(q, k, mask) ELSE FlashInfer(q, k, mask, decode)
=============================================================================
