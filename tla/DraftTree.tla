----------------------------- MODULE DraftTree -----------------------------
(***************************************************************************)
(* Engine._draft_tree growing the tree of one request, level by level, and *)
(* the masks its rows run under. Which K of the K * K candidates score     *)
(* best is nondeterministic: any K of them, in any order, so that any node *)
(* of a level may have none to K children.                                 *)
(***************************************************************************)
EXTENDS Trees

CONSTANTS K, D,     \* spec_topk and spec_depth
          Batches   \* batches: the committed lengths of their requests

ASSUME DraftTreeAssumption == /\ K \in Nat \ {0} /\ D \in Nat \ {0}
                              /\ Batches \subseteq Seq(Nat) \ {<< >>}

N == K * D          \* num_draft

VARIABLES
    parents,    \* row b of the parents tensor: Root where not filled yet
    level       \* levels grown

vars == <<parents, level>>

\* The first level hangs off the root.
Init == /\ parents = [i \in 0 .. (N - 1) |-> Root]
        /\ level = 1

\* The first node of the current level, in the loop at d = level.
lo == (level - 1) * K

\* Slip: the parents counted within their level.
GrowLevelLocal(pl) ==
    /\ level < D
    /\ parents' = [i \in 0 .. (N - 1) |->
                       IF i \in (lo + K) .. (lo + 2 * K - 1) THEN pl[i - (lo + K)] ELSE parents[i]]
    /\ level' = level + 1

\* One iteration of the loop: pl[i] is the node of the current level the i-th of the
\* best candidates hangs off.
GrowLevel(pl) ==
    /\ level < D
    /\ parents' = [i \in 0 .. (N - 1) |->
                       IF i \in (lo + K) .. (lo + 2 * K - 1) THEN lo + pl[i - (lo + K)]
                       ELSE parents[i]]
    /\ level' = level + 1

Next == \E pl \in [0 .. (K - 1) -> 0 .. (K - 1)] : GrowLevel(pl)

Spec == Init /\ [][Next]_vars

\* depths of the finished tree.
DepthOf(i) == 1 + (i \div K)

\* The rows of the forward that grows the next level: its K nodes.
LevelRows == LET A == AncestorMask(parents, level) IN [r \in 1 .. K |-> A[lo + r - 1]]

\* The rows of the verify forward: the root, which sees no node, and the nodes.
VerifyRows == LET A == AncestorMask(parents, D) IN
              [r \in 1 .. (N + 1) |-> IF r = 1 THEN {} ELSE A[r - 2]]

----------------------------------------------------------------------------
(***************************************************************************)
(* Properties.                                                             *)
(***************************************************************************)
Grown == 0 .. (level * K - 1)

\* Every row of every forward sees exactly the path from the root to its node, although
\* the tensor is chased only as many times as levels are filled (the comment of
\* ancestors: depth - 1 steps cover every node at depth <= depth).
MasksAreAncestry ==
    /\ \A r \in 1 .. K : LevelRows[r] = ToSet(Ancestors(parents, lo + r - 1))
    /\ level = D => \A i \in Grown : VerifyRows[i + 2] = ToSet(Ancestors(parents, i))

\* A batch of requests with unequal prefixes, flattened into one list and read back per
\* request (AttnMeta.mask), keeps every row's columns: the prefix (and the root, in a
\* verify), and the nodes the row may see. The other requests' rows are this tree's in
\* reverse, so that no two neighbours agree. A graph runner that pads the list to its
\* bucket gets the mask it would build from the requests' masks one by one.
FlatMasksReadBack(prefix) ==
    LET verify(extra, rows) ==
            LET B     == Len(prefix)
                R     == Len(rows)
                tree  == [b \in 1 .. B |-> IF b = B THEN rows ELSE Reverse(rows)]
                flat  == FlatMask(prefix, tree, extra, N)
                kv    == [b \in 1 .. B |-> prefix[b] + extra + N]
                masks == [b \in 1 .. B |-> [r \in 1 .. R |->
                             (0 .. (prefix[b] + extra - 1)) \cup {prefix[b] + extra + i : i \in tree[b][r]}]]
            IN  /\ \A b \in 1 .. B : MaskOf(flat, [c \in 1 .. B |-> R], kv, b) = masks[b]
                /\ PadFlat(flat, 2, R) = FlatOf(PadMasks(masks, 2, R), kv \o <<1, 1>>)
    IN  verify(0, LevelRows) /\ verify(1, VerifyRows)

FlatMasksExact == \A prefix \in Batches : FlatMasksReadBack(prefix)

\* Slot and position of the rows agree with the tree: a node's rotary position is its
\* distance from the root, and an accepted path is read from slots at or after the ones
\* it is compacted into, in increasing order (the engine's reason to move the batch at
\* once: "every source slot is >= its destination").
PathsRunForward ==
    \A i \in Grown :
        LET path == Ancestors(parents, i) IN
        /\ Len(path) = DepthOf(i)
        /\ \A k \in DOMAIN path : path[k] >= k - 1
        /\ \A k \in 1 .. (Len(path) - 1) : path[k] < path[k + 1]
=============================================================================
