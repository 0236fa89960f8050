------------------------------- MODULE Trees -------------------------------
(***************************************************************************)
(* spec/tree.py: static draft trees and the attention masks made of them.  *)
(* A tree of n nodes is its parents, a function from the nodes 0 .. n - 1  *)
(* to nodes or Root. A row of a mask is the set of columns it may see.     *)
(***************************************************************************)
EXTENDS Integers, Sequences, FiniteSets, SequencesExt

Root == -1      \* the last committed token

Chain(n) == [i \in 0 .. (n - 1) |-> i - 1]

\* children(): the nodes below i, in node order.
Children(p, i) ==
    LET out[n \in 0 .. Cardinality(DOMAIN p)] ==
            IF n = 0 THEN << >>
            ELSE IF p[n - 1] = i THEN Append(out[n - 1], n - 1) ELSE out[n - 1]
    IN  out[Cardinality(DOMAIN p)]

\* Tree.ancestors: ancestors-or-self of i, root side first.
Ancestors(p, i) ==
    LET path[j \in DOMAIN p \cup {Root}] == IF j = Root THEN << >> ELSE Append(path[p[j]], j)
    IN  path[i]

\* Slip: the pointer moved before it is recorded.
LateMask(p, depth) ==
    LET up(i) == IF p[i] = Root THEN Root ELSE p[p[i]]
        chase[k \in 0 .. (depth - 1)] ==
            IF k = 0 THEN [see |-> [i \in DOMAIN p |-> {i}], anc |-> [i \in DOMAIN p |-> up(i)]]
            ELSE LET c == chase[k - 1] IN
                 [see |-> [i \in DOMAIN p |-> c.see[i] \cup ({c.anc[i]} \ {Root})],
                  anc |-> [i \in DOMAIN p |-> IF c.anc[i] = Root THEN Root ELSE p[c.anc[i]]]]
    IN  chase[depth - 1].see

\* ancestors(parents, depth): depth - 1 rounds of pointer chasing for all nodes at once.
AncestorMask(p, depth) ==
    LET chase[k \in 0 .. (depth - 1)] ==
            IF k = 0 THEN [see |-> [i \in DOMAIN p |-> {i}], anc |-> p]
            ELSE LET c == chase[k - 1] IN
                 [see |-> [i \in DOMAIN p |-> c.see[i] \cup ({c.anc[i]} \ {Root})],
                  anc |-> [i \in DOMAIN p |-> IF c.anc[i] = Root THEN Root ELSE p[c.anc[i]]]]
    IN  chase[depth - 1].see

\* The sum of the first n elements of f.
Upto(f, n) == LET sum[k \in 0 .. n] == IF k = 0 THEN 0 ELSE sum[k - 1] + f[k] IN sum[n]

\* Slip: the columns before the tree counted without the extra one.
FlatMaskNoExtra(prefix, rows, extra, N) ==
    LET R     == Len(rows[1])
        Width == [b \in DOMAIN prefix |-> prefix[b] + extra + N]
        Size  == [b \in DOMAIN prefix |-> R * Width[b]]
    IN  [t \in 0 .. (Upto(Size, Len(Size)) - 1) |->
            LET b     == CHOOSE c \in DOMAIN prefix : Upto(Size, c - 1) <= t /\ t < Upto(Size, c)
                local == t - Upto(Size, b - 1)
                r     == local \div Width[b]
                j     == (local % Width[b]) - prefix[b]
            IN  j < 0 \/ j \in rows[b][r + 1]]

\* flat_masks: request b has R rows over prefix[b] + extra + N columns, all rows of all
\* requests in one list; rows[b][r] is the set of tree columns row r sees.
FlatMask(prefix, rows, extra, N) ==
    LET R     == Len(rows[1])
        Width == [b \in DOMAIN prefix |-> prefix[b] + extra + N]
        Size  == [b \in DOMAIN prefix |-> R * Width[b]]
    IN  [t \in 0 .. (Upto(Size, Len(Size)) - 1) |->
            LET b     == CHOOSE c \in DOMAIN prefix : Upto(Size, c - 1) <= t /\ t < Upto(Size, c)
                local == t - Upto(Size, b - 1)
                r     == local \div Width[b]
                j     == (local % Width[b]) - (prefix[b] + extra)
            IN  j < 0 \/ j \in rows[b][r + 1]]

\* AttnMeta.mask(b) of a flat mask, qo and kv being the row and column counts of the
\* requests: the columns each row of request b sees.
MaskOf(flat, qo, kv, b) ==
    LET off == Upto([i \in DOMAIN qo |-> qo[i] * kv[i]], b - 1)
    IN  [r \in 1 .. qo[b] |-> {c \in 0 .. (kv[b] - 1) : flat[off + (r - 1) * kv[b] + c]}]

\* AttnMeta.flat_mask of masks given request by request, in the same layout.
FlatOf(masks, kv) ==
    LET bits(b) == [t \in 1 .. (Len(masks[b]) * kv[b]) |->
                        ((t - 1) % kv[b]) \in masks[b][((t - 1) \div kv[b]) + 1]]
        upto[b \in 0 .. Len(masks)] == IF b = 0 THEN << >> ELSE upto[b - 1] \o bits(b)
        all     == upto[Len(masks)]
    IN  [t \in 0 .. (Len(all) - 1) |-> all[t + 1]]

\* A graph runner pads a flat mask by one column for each row of the n pad requests, and
\* masks given request by request by a mask of R such rows each.
PadFlat(flat, n, R) ==
    LET size == Cardinality(DOMAIN flat)
    IN  [t \in 0 .. (size + n * R - 1) |-> t < size => flat[t]]
PadMasks(masks, n, R) == masks \o [p \in 1 .. n |-> [r \in 1 .. R |-> {0}]]
=============================================================================
