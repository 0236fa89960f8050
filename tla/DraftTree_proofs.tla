-------------------------- MODULE DraftTree_proofs --------------------------
(***************************************************************************)
(* Theorems about DraftTree, for every width and every depth of the trees. *)
(***************************************************************************)
EXTENDS DraftTree, Trees_proofs

----------------------------------------------------------------------------
(***************************************************************************)
(* The levels of a tree. Level l, counted from 0, is K nodes in a row.     *)
(***************************************************************************)
At(l)   == l * K
Node(l) == At(l) .. (At(l) + K - 1)

\* Levels follow each other.
LEMMA LevelOrder ==
    ASSUME NEW l \in Nat, NEW m \in Nat
    PROVE  /\ At(0) = 0 /\ At(l) \in Nat /\ At(l + 1) = At(l) + K /\ l <= At(l)
           /\ l < m => At(l) + K <= At(m)
<1>1. K \in Nat \ {0}
  BY DraftTreeAssumption
<1>2. At(0) = 0 /\ At(l) \in Nat /\ At(l + 1) = At(l) + K /\ l <= At(l)
  BY <1>1 DEF At
<1>3. l < m => At(l) + K <= At(m)
  BY <1>1 DEF At
<1> QED BY <1>2, <1>3

\* A node is in one level.
LEMMA LevelOf ==
    ASSUME NEW i \in Nat
    PROVE  /\ i \div K \in Nat /\ i \in Node(i \div K)
           /\ \A l \in Nat : i \in Node(l) => l = i \div K
<1>1. K \in Nat \ {0}
  BY DraftTreeAssumption
<1>2. i \div K \in Nat /\ K * (i \div K) <= i /\ i < K * (i \div K) + K
  BY <1>1
<1>3. PICK q \in Nat : q = i \div K
  BY <1>2
<1>4. At(q) \in Nat /\ At(q) = K * q
  BY <1>1 DEF At
<1>5. i \in Node(q)
  BY <1>1, <1>2, <1>3, <1>4 DEF Node
<1>6. ASSUME NEW l \in Nat, i \in Node(l), l # q PROVE FALSE
  <2>1. At(l) \in Nat /\ At(l) <= i /\ i < At(l) + K
    BY <1>1, <1>6, LevelOrder DEF Node
  <2>2. At(q) <= i /\ i < At(q) + K
    BY <1>1, <1>4, <1>5 DEF Node
  <2>3. CASE l < q
    <3>1. At(l) + K <= At(q)
      BY <2>3, LevelOrder
    <3> QED BY <1>1, <1>4, <2>1, <2>2, <3>1
  <2>4. CASE q < l
    <3>1. At(q) + K <= At(l)
      BY <2>4, LevelOrder
    <3> QED BY <1>1, <1>4, <2>1, <2>2, <3>1
  <2> QED BY <1>6, <2>3, <2>4
<1> QED BY <1>3, <1>5, <1>6

----------------------------------------------------------------------------
(***************************************************************************)
(* The inductive invariant: the nodes of the first level, and those not    *)
(* grown yet, hang off the root, the others off the level before.          *)
(***************************************************************************)
TreeInv == /\ parents \in [0 .. (N - 1) -> Root .. (N - 1)]
           /\ level \in 1 .. D
           /\ \A i \in 0 .. (N - 1) : i \in Node(0) \/ i >= At(level) => parents[i] = Root
           /\ \A l \in 1 .. (level - 1) : \A i \in Node(l) : parents[i] \in Node(l - 1)

\* The nodes of a level that may be grown.
LEMMA LevelFits ==
    ASSUME NEW l \in 0 .. (D - 1)
    PROVE  /\ N \in Nat /\ N = At(D) /\ Node(l) \subseteq 0 .. (N - 1)
           /\ At(l) + K <= N
<1>1. K \in Nat \ {0} /\ D \in Nat \ {0} /\ l \in Nat /\ l < D
  BY DraftTreeAssumption
<1>2. N = At(D) /\ N \in Nat
  BY <1>1 DEF N, At
<1>3. At(l) + K <= At(D) /\ At(l) \in Nat
  BY <1>1, LevelOrder
<1> QED BY <1>1, <1>2, <1>3 DEF Node

\* Every step keeps the invariant.
LEMMA TreeInvariant == Spec => []TreeInv
<1>1. Init => TreeInv
  <2> SUFFICES ASSUME Init PROVE TreeInv
    OBVIOUS
  <2>1. N \in Nat
    BY DraftTreeAssumption DEF N
  <2> QED BY <2>1, DraftTreeAssumption DEF Init, TreeInv, Root
<1>2. ASSUME TreeInv, NEW pl \in [0 .. (K - 1) -> 0 .. (K - 1)], GrowLevel(pl)
      PROVE  TreeInv'
  <2>0. PICK l : l = level
    OBVIOUS
  <2>1. /\ l \in 1 .. D /\ l < D /\ level' = l + 1 /\ l - 1 \in Nat /\ l \in Nat
        /\ parents \in [0 .. (N - 1) -> Root .. (N - 1)] /\ K \in Nat \ {0} /\ D \in Nat
    BY <1>2, <2>0, DraftTreeAssumption DEF TreeInv, GrowLevel
  <2>2. lo = At(l - 1) /\ At(l) = At(l - 1) + K /\ At(l + 1) = At(l) + K /\ At(l - 1) \in Nat
        /\ At(l) \in Nat
    <3>1. lo = At(l - 1)
      BY <2>0 DEF lo, At
    <3>2. At((l - 1) + 1) = At(l - 1) + K /\ At(l - 1) \in Nat
      BY <2>1, LevelOrder
    <3>3. (l - 1) + 1 = l
      BY <2>1
    <3>4. At(l + 1) = At(l) + K /\ At(l) \in Nat
      BY <2>1, LevelOrder
    <3> QED BY <3>1, <3>2, <3>3, <3>4
  <2>3. Node(l) = (lo + K) .. (lo + 2 * K - 1) /\ Node(l) \subseteq 0 .. (N - 1) /\ N \in Nat
        /\ Node(l - 1) \subseteq 0 .. (N - 1)
    <3>1. l \in 0 .. (D - 1) /\ l - 1 \in 0 .. (D - 1)
      BY <2>1
    <3>2. Node(l) = (lo + K) .. (lo + 2 * K - 1)
      BY <2>1, <2>2 DEF Node
    <3> QED BY <3>1, <3>2, LevelFits
  <2>4. PICK f : f = parents'
    OBVIOUS
  <2>5. f = [i \in 0 .. (N - 1) |-> IF i \in Node(l) THEN lo + pl[i - (lo + K)] ELSE parents[i]]
    BY <1>2, <2>3, <2>4 DEF GrowLevel
  <2>6. \A i \in Node(l) : f[i] \in Node(l - 1)
    <3> SUFFICES ASSUME NEW i \in Node(l) PROVE f[i] \in Node(l - 1)
      OBVIOUS
    <3>0. PICK a \in Nat : a = lo
      BY <2>2
    <3>1. i - (lo + K) \in 0 .. (K - 1)
      <4>1. i \in (a + K) .. (a + 2 * K - 1) /\ K \in Nat
        BY <2>1, <2>3, <3>0
      <4>2. i - (a + K) \in 0 .. (K - 1)
        BY <4>1
      <4> QED BY <3>0, <4>2
    <3>2. pl[i - (lo + K)] \in 0 .. (K - 1)
      BY <3>1
    <3>3. f[i] = lo + pl[i - (lo + K)]
      BY <2>3, <2>5
    <3>4. f[i] \in a .. (a + K - 1) /\ a = At(l - 1)
      <4>1. PICK x \in 0 .. (K - 1) : x = pl[i - (lo + K)]
        BY <3>2
      <4>2. f[i] = a + x
        BY <3>0, <3>3, <4>1
      <4>3. a + x \in a .. (a + K - 1)
        BY <2>1
      <4> QED BY <2>2, <3>0, <4>2, <4>3
    <3> QED BY <3>4 DEF Node
  <2>7. \A i \in (0 .. (N - 1)) \ Node(l) : f[i] = parents[i]
    BY <2>5
  <2>8. f \in [0 .. (N - 1) -> Root .. (N - 1)]
    <3>1. \A i \in 0 .. (N - 1) : f[i] \in Root .. (N - 1)
      <4> SUFFICES ASSUME NEW i \in 0 .. (N - 1) PROVE f[i] \in Root .. (N - 1)
        OBVIOUS
      <4>1. CASE i \in Node(l)
        <5>1. f[i] \in 0 .. (N - 1)
          BY <2>3, <2>6, <4>1
        <5> QED BY <2>3, <5>1 DEF Root
      <4>2. CASE i \notin Node(l)
        BY <2>1, <2>7, <4>2
      <4> QED BY <4>1, <4>2
    <3> QED BY <2>5, <3>1
  <2>9. ASSUME NEW i \in 0 .. (N - 1), i \in Node(0) \/ i >= At(l + 1) PROVE f[i] = Root
    <3>1. i \notin Node(l)
      <4>1. 0 < l
        BY <2>1
      <4>2. At(0) + K <= At(l) /\ At(0) = 0
        BY <2>1, <4>1, LevelOrder
      <4>3. i \in Int /\ Node(l) = At(l) .. (At(l) + K - 1) /\ Node(0) = 0 .. (0 + K - 1)
        BY <2>3, <4>2 DEF Node
      <4>4. CASE i \in Node(0)
        BY <2>1, <2>2, <4>2, <4>3, <4>4
      <4>5. CASE i >= At(l + 1)
        BY SMTT(30), <2>1, <2>2, <4>3, <4>5
      <4> QED BY <2>9, <4>4, <4>5
    <3>2. i \in Node(0) \/ i >= At(l)
      BY SMTT(30), <2>1, <2>2, <2>3, <2>9
    <3> QED BY <1>2, <2>0, <2>7, <3>1, <3>2 DEF TreeInv
  <2>10. ASSUME NEW m \in 1 .. l, NEW i \in Node(m) PROVE f[i] \in Node(m - 1)
    <3>1. CASE m = l
      BY <2>6, <3>1
    <3>2. CASE m # l
      <4>1. m \in 1 .. (l - 1) /\ m \in 0 .. (D - 1) /\ m \in Nat /\ m < l
        BY <2>1, <3>2
      <4>2. i \in 0 .. (N - 1)
        BY <4>1, LevelFits
      <4>3. At(m) + K <= At(l) /\ At(m) \in Nat
        BY <2>1, <4>1, LevelOrder
      <4>4. i \notin Node(l)
        BY SMTT(30), <2>1, <2>2, <4>3 DEF Node
      <4> QED BY <1>2, <2>0, <2>7, <4>1, <4>2, <4>4 DEF TreeInv
    <3> QED BY <3>1, <3>2
  <2>11. level' - 1 = l /\ level' \in 1 .. D
    BY <2>1
  <2> QED BY <2>0, <2>1, <2>4, <2>8, <2>9, <2>10, <2>11 DEF TreeInv
<1>3. TreeInv /\ UNCHANGED vars => TreeInv'
  BY DEF TreeInv, vars
<1>4. TreeInv /\ [Next]_vars => TreeInv'
  BY <1>2, <1>3 DEF Next
<1> QED BY <1>1, <1>4, PTL DEF Spec

----------------------------------------------------------------------------
(***************************************************************************)
(* Paths.                                                                  *)
(***************************************************************************)
\* Where the levels grown stand in the array.
LEMMA Levels ==
    ASSUME TreeInv
    PROVE  /\ K \in Nat \ {0} /\ D \in Nat \ {0} /\ N \in Nat /\ level \in Nat /\ level - 1 \in Nat
           /\ At(level) <= N /\ At(level) = level * K /\ At(level) \in Nat
           /\ \A l \in 0 .. (level - 1) : /\ Node(l) \subseteq 0 .. (At(level) - 1)
                                          /\ l \in 0 .. (D - 1) /\ At(l) + K <= At(level)
           /\ \A i \in 0 .. (At(level) - 1) :
                  /\ i \div K \in 0 .. (level - 1) /\ i \in Node(i \div K)
<1>1. /\ K \in Nat \ {0} /\ D \in Nat \ {0} /\ level \in 1 .. D /\ level \in Nat
      /\ level - 1 \in Nat
  BY DraftTreeAssumption DEF TreeInv
<1>2. At(level) = level * K /\ At(level) \in Nat
  BY <1>1, LevelOrder DEF At
<1>3. N \in Nat /\ At(level) <= N
  <2>1. level - 1 \in 0 .. (D - 1)
    BY <1>1
  <2>2. N \in Nat /\ At(level - 1) + K <= N
    BY <2>1, LevelFits
  <2>3. At((level - 1) + 1) = At(level - 1) + K
    BY <1>1, LevelOrder
  <2>4. (level - 1) + 1 = level
    BY <1>1
  <2> QED BY <2>2, <2>3, <2>4
<1>4. ASSUME NEW l \in 0 .. (level - 1)
      PROVE  Node(l) \subseteq 0 .. (At(level) - 1) /\ l \in 0 .. (D - 1) /\ At(l) + K <= At(level)
  <2>1. l \in Nat /\ l < level /\ l \in 0 .. (D - 1)
    BY <1>1
  <2>2. At(l) + K <= At(level) /\ At(l) \in Nat
    BY <1>1, <2>1, LevelOrder
  <2> QED BY <1>1, <1>2, <2>1, <2>2 DEF Node
<1>5. ASSUME NEW i \in 0 .. (At(level) - 1)
      PROVE  i \div K \in 0 .. (level - 1) /\ i \in Node(i \div K)
  <2>1. i \in Nat
    BY <1>2
  <2>2. PICK q \in Nat : q = i \div K /\ i \in Node(q)
    BY <2>1, LevelOf
  <2>3. At(q) <= i /\ At(q) \in Nat
    BY <1>1, <2>2, LevelOrder DEF Node
  <2>4. ASSUME level < q \/ level = q PROVE FALSE
    <3>1. At(level) <= At(q)
      <4>1. CASE level = q
        BY <1>2, <4>1
      <4>2. CASE level < q
        <5>1. At(level) + K <= At(q)
          BY <1>1, <4>2, LevelOrder
        <5> QED BY <1>1, <1>2, <2>3, <5>1
      <4> QED BY <2>4, <4>1, <4>2
    <3> QED BY <1>2, <2>1, <2>3, <3>1
  <2>5. q \in 0 .. (level - 1)
    BY <1>1, <2>4
  <2> QED BY <2>2, <2>5
<1> QED BY <1>1, <1>2, <1>3, <1>4, <1>5

\* The tree under construction is ordered.
LEMMA TreeOrdered ==
    ASSUME TreeInv
    PROVE  Ordered(parents, N)
<1>1. parents \in [0 .. (N - 1) -> Root .. (N - 1)]
  BY DEF TreeInv
<1>2. ASSUME NEW i \in 0 .. (N - 1) PROVE parents[i] < i
  <2>1. N \in Nat /\ level \in Nat /\ At(level) \in Nat /\ i \in Nat /\ K \in Nat
    BY Levels
  <2>2. CASE i \in Node(0) \/ i >= At(level)
    BY <2>1, <2>2 DEF TreeInv, Root
  <2>3. CASE i \notin Node(0) /\ ~(i >= At(level))
    <3>1. i \in 0 .. (At(level) - 1)
      BY <2>1, <2>3
    <3>2. PICK q \in 0 .. (level - 1) : i \in Node(q)
      BY <3>1, Levels
    <3>3. q # 0
      BY <2>3, <3>2
    <3>4. q \in 1 .. (level - 1) /\ q - 1 \in Nat /\ (q - 1) + 1 = q
      BY <2>1, <3>3
    <3>5. parents[i] \in Node(q - 1)
      BY <3>2, <3>4 DEF TreeInv
    <3>6. At((q - 1) + 1) = At(q - 1) + K /\ At(q - 1) \in Nat
      BY <3>4, LevelOrder
    <3>7. parents[i] \in At(q - 1) .. (At(q - 1) + K - 1) /\ i >= At(q - 1) + K
      BY <2>1, <3>2, <3>4, <3>5, <3>6 DEF Node
    <3> QED BY <2>1, <3>6, <3>7
  <2> QED BY <2>2, <2>3
<1> QED BY <1>1, <1>2 DEF Ordered

\* a goes from the first level to node i of level l, one level at a time.
PathOf(a, i, l) ==
    /\ a \in Seq(0 .. (N - 1)) /\ Len(a) = l + 1 /\ a[l + 1] = i
    /\ \A k \in 1 .. (l + 1) : a[k] \in Node(k - 1)
    /\ parents[a[1]] = Root
    /\ \A k \in 2 .. (l + 1) : parents[a[k]] = a[k - 1]

\* The ancestors of a node are its path.
LEMMA Paths ==
    ASSUME TreeInv
    PROVE  \A l \in 0 .. (level - 1) : \A i \in Node(l) : PathOf(Ancestors(parents, i), i, l)
<1> DEFINE G == {l \in 0 .. (level - 1) : \A i \in Node(l) : PathOf(Ancestors(parents, i), i, l)}
<1>1. level - 1 \in Nat /\ N \in Nat /\ level \in Nat
  BY Levels
<1>2. /\ Ancestors(parents, Root) = << >>
      /\ \A i \in 0 .. (N - 1) : Ancestors(parents, i) = Append(Ancestors(parents, parents[i]), i)
  BY <1>1, TreeOrdered, PathRecursion
<1>3. \A l \in 0 .. (level - 1) : Node(l) \subseteq 0 .. (N - 1)
  BY Levels, LevelFits
<1>4. 0 \in G
  <2> SUFFICES ASSUME NEW i \in Node(0) PROVE PathOf(Ancestors(parents, i), i, 0)
    BY <1>1
  <2>1. i \in 0 .. (N - 1) /\ parents[i] = Root
    BY <1>1, <1>3 DEF TreeInv
  <2>2. PICK a : a = Ancestors(parents, i)
    OBVIOUS
  <2>3. a = Append(<< >>, i)
    BY <1>2, <2>1, <2>2
  <2>4. a \in Seq(0 .. (N - 1)) /\ Len(a) = 1 /\ a[1] = i
    BY <2>1, <2>3
  <2> QED BY <2>1, <2>2, <2>4 DEF PathOf
<1>5. ASSUME NEW l \in 0 .. ((level - 1) - 1), l \in G PROVE l + 1 \in G
  <2> SUFFICES ASSUME NEW i \in Node(l + 1) PROVE PathOf(Ancestors(parents, i), i, l + 1)
    BY <1>1
  <2>1. /\ l + 1 \in 1 .. (level - 1) /\ l + 1 \in 0 .. (level - 1) /\ l \in Nat
        /\ (l + 1) - 1 = l
    BY <1>1
  <2>2. i \in 0 .. (N - 1) /\ parents[i] \in Node(l)
    BY <1>3, <2>1 DEF TreeInv
  <2>3. PICK b : b = Ancestors(parents, parents[i])
    OBVIOUS
  <2>4. PathOf(b, parents[i], l)
    BY <1>5, <2>2, <2>3
  <2>5. PICK a : a = Append(b, i)
    OBVIOUS
  <2>6. b \in Seq(0 .. (N - 1)) /\ Len(b) = l + 1
    BY <2>4 DEF PathOf
  <2>7. /\ a \in Seq(0 .. (N - 1)) /\ Len(a) = (l + 1) + 1 /\ a[(l + 1) + 1] = i
        /\ \A k \in 1 .. (l + 1) : a[k] = b[k]
    BY <2>1, <2>2, <2>5, <2>6
  <2>8. \A k \in 1 .. ((l + 1) + 1) : a[k] \in Node(k - 1)
    <3> SUFFICES ASSUME NEW k \in 1 .. ((l + 1) + 1) PROVE a[k] \in Node(k - 1)
      OBVIOUS
    <3>1. CASE k = (l + 1) + 1
      <4>1. k - 1 = l + 1
        BY <2>1, <3>1
      <4> QED BY <2>7, <3>1, <4>1
    <3>2. CASE k # (l + 1) + 1
      <4>1. k \in 1 .. (l + 1)
        BY <2>1, <3>2
      <4> QED BY <2>4, <2>7, <4>1 DEF PathOf
    <3> QED BY <3>1, <3>2
  <2>9. parents[a[1]] = Root
    <3>1. 1 \in 1 .. (l + 1)
      BY <2>1
    <3> QED BY <2>4, <2>7, <3>1 DEF PathOf
  <2>10. \A k \in 2 .. ((l + 1) + 1) : parents[a[k]] = a[k - 1]
    <3> SUFFICES ASSUME NEW k \in 2 .. ((l + 1) + 1) PROVE parents[a[k]] = a[k - 1]
      OBVIOUS
    <3>1. k - 1 \in 1 .. (l + 1) /\ a[k - 1] = b[k - 1]
      BY <2>1, <2>7
    <3>2. CASE k = (l + 1) + 1
      <4>1. k - 1 = l + 1
        BY <2>1, <3>2
      <4> QED BY <2>4, <2>7, <3>1, <3>2, <4>1 DEF PathOf
    <3>3. CASE k # (l + 1) + 1
      <4>1. k \in 2 .. (l + 1) /\ a[k] = b[k]
        BY <2>1, <2>7, <3>3
      <4> QED BY <2>4, <3>1, <4>1 DEF PathOf
    <3> QED BY <3>2, <3>3
  <2>11. a = Ancestors(parents, i)
    BY <1>2, <2>2, <2>3, <2>5
  <2> QED BY <2>7, <2>8, <2>9, <2>10, <2>11 DEF PathOf
<1> HIDE DEF G
<1>6. \A l \in 0 .. (level - 1) : l \in G
  BY <1>1, <1>4, <1>5, Induct
<1> QED BY <1>6 DEF G

\* A node's rotary position, 1 + its level, is its distance from the root (tree.py:20-34 and
\* engine.py's depths), and an accepted path is moved to the left, keeping its order, whatever
\* the drafter grew: no copy reads a slot an earlier one wrote.
THEOREM PathsForward == Spec => []PathsRunForward
<1>1. ASSUME TreeInv PROVE PathsRunForward
  <2> SUFFICES ASSUME NEW i \in Grown
               PROVE  /\ Len(Ancestors(parents, i)) = DepthOf(i)
                      /\ \A k \in DOMAIN Ancestors(parents, i) : Ancestors(parents, i)[k] >= k - 1
                      /\ \A k \in 1 .. (Len(Ancestors(parents, i)) - 1) :
                             Ancestors(parents, i)[k] < Ancestors(parents, i)[k + 1]
    BY Zenon DEF PathsRunForward
  <2>1. /\ K \in Nat \ {0} /\ level \in Nat /\ At(level) \in Nat /\ N \in Nat
        /\ i \in 0 .. (At(level) - 1)
    BY <1>1, Levels DEF Grown
  <2>2. PICK l \in 0 .. (level - 1) : l = i \div K /\ i \in Node(l)
    BY <1>1, <2>1, Levels
  <2>3. PICK a : a = Ancestors(parents, i)
    OBVIOUS
  <2>4. PathOf(a, i, l)
    BY <1>1, <2>2, <2>3, Paths
  <2>5. /\ a \in Seq(0 .. (N - 1)) /\ Len(a) = l + 1 /\ l \in Nat
        /\ \A k \in 1 .. (l + 1) : a[k] \in Node(k - 1)
    BY <2>1, <2>2, <2>4 DEF PathOf
  <2>6. Len(a) = DepthOf(i)
    BY <2>2, <2>5 DEF DepthOf
  <2>7. ASSUME NEW k \in 1 .. (l + 1) PROVE a[k] >= k - 1
    <3>1. k - 1 \in Nat /\ a[k] \in Node(k - 1)
      BY <2>5
    <3>2. k - 1 <= At(k - 1) /\ At(k - 1) \in Nat
      BY <3>1, LevelOrder
    <3> QED BY <2>1, <3>1, <3>2 DEF Node
  <2>8. ASSUME NEW k \in 1 .. l PROVE a[k] < a[k + 1]
    <3>1. k - 1 \in Nat /\ (k + 1) - 1 = (k - 1) + 1 /\ k \in 1 .. (l + 1) /\ k + 1 \in 1 .. (l + 1)
      BY <2>5
    <3>2. a[k] \in Node(k - 1) /\ a[k + 1] \in Node((k - 1) + 1)
      BY <2>5, <3>1
    <3>3. At((k - 1) + 1) = At(k - 1) + K /\ At(k - 1) \in Nat
      BY <3>1, LevelOrder
    <3>4. a[k] \in At(k - 1) .. (At(k - 1) + K - 1) /\ a[k + 1] >= At(k - 1) + K
      BY <2>1, <3>2, <3>3 DEF Node
    <3>5. a[k] \in Int /\ a[k + 1] \in Int
      BY <2>1, <3>2, <3>3 DEF Node
    <3> QED BY <2>1, <3>3, <3>4, <3>5
  <2>9. DOMAIN a = 1 .. (l + 1) /\ Len(a) - 1 = l
    BY <2>5
  <2> QED BY <2>3, <2>6, <2>7, <2>8, <2>9
<1> QED BY <1>1, TreeInvariant, PTL

----------------------------------------------------------------------------
(***************************************************************************)
(* Masks.                                                                  *)
(***************************************************************************)
\* Chased as many times as levels are filled, or more, every grown node sees its path.
LEMMA GrownSees ==
    ASSUME TreeInv, NEW depth \in level .. D, NEW i \in Grown
    PROVE  SeesPath(parents, depth, i)
<1>1. /\ N \in Nat /\ level \in Nat /\ D \in Nat /\ i \in 0 .. (At(level) - 1)
  BY Levels DEF TreeInv, Grown
<1>2. PICK l \in 0 .. (level - 1) : i \in Node(l)
  BY <1>1, Levels
<1>3. PathOf(Ancestors(parents, i), i, l) /\ i \in 0 .. (N - 1)
  BY <1>1, <1>2, Paths, Levels
<1>4. depth \in Nat /\ Len(Ancestors(parents, i)) <= depth
  BY <1>1, <1>3 DEF PathOf
<1> QED BY <1>1, <1>3, <1>4, TreeOrdered, MaskIsPath

\* Every row of every forward, over the level just grown or over the whole tree, sees the path
\* from the root to its node and nothing else, although the pointers are chased only as many
\* times as levels are filled (tree.py:56-69).
THEOREM MasksExact == Spec => []MasksAreAncestry
<1>1. ASSUME TreeInv PROVE MasksAreAncestry
  <2>1. /\ K \in Nat \ {0} /\ D \in Nat /\ N \in Nat /\ level \in 1 .. D /\ level \in Nat
        /\ level - 1 \in Nat /\ At(level) <= N /\ At(level) \in Nat
        /\ At(level) = level * K
    BY <1>1, Levels DEF TreeInv
  <2>2. level \in level .. D
    BY <2>1
  <2>3. ASSUME NEW r \in 1 .. K PROVE LevelRows[r] = ToSet(Ancestors(parents, lo + r - 1))
    <3>1. LevelRows[r] = AncestorMask(parents, level)[lo + r - 1]
      BY DEF LevelRows
    <3>2. lo = At(level - 1) /\ At(level - 1) \in Nat
      BY <2>1, LevelOrder DEF lo, At
    <3>3. lo + r - 1 \in Node(level - 1)
      BY <2>1, <3>2 DEF Node
    <3>4. lo + r - 1 \in Grown
      <4>1. level - 1 \in 0 .. (level - 1)
        BY <2>1
      <4> QED BY <1>1, <2>1, <3>3, <4>1, Levels DEF Grown
    <3> QED BY <1>1, <2>2, <3>1, <3>4, GrownSees DEF SeesPath
  <2>4. ASSUME level = D, NEW i \in Grown PROVE VerifyRows[i + 2] = ToSet(Ancestors(parents, i))
    <3>1. i \in 0 .. (N - 1)
      BY <2>1 DEF Grown
    <3>2. i + 2 \in 1 .. (N + 1) /\ i + 2 # 1 /\ (i + 2) - 2 = i
      BY <2>1, <3>1
    <3>3. VerifyRows[i + 2] = AncestorMask(parents, D)[i]
      BY <3>2 DEF VerifyRows
    <3>4. D \in level .. D
      BY <2>1
    <3> QED BY <1>1, <3>3, <3>4, GrownSees DEF SeesPath
  <2> QED BY <2>3, <2>4 DEF MasksAreAncestry
<1> QED BY <1>1, TreeInvariant, PTL

----------------------------------------------------------------------------
(***************************************************************************)
(* Flat masks of batches.                                                  *)
(***************************************************************************)
\* A batch of requests of the given rows keeps every row's columns.
BatchRows(rows, B) == [b \in 1 .. B |-> IF b = B THEN rows ELSE Reverse(rows)]
BatchKept(flat, masks, kv, B, R) ==
    /\ \A b \in 1 .. B : MaskOf(flat, Even(R, B), kv, b) = masks[b]
    /\ PadFlat(flat, 2, R) = FlatOf(PadMasks(masks, 2, R), kv \o <<1, 1>>)
Verified(prefix, extra, rows) ==
    BatchKept(FlatMask(prefix, BatchRows(rows, Len(prefix)), extra, N),
              MasksSeen(prefix, BatchRows(rows, Len(prefix)), extra, Len(prefix), Len(rows)),
              Widths(prefix, extra, N, Len(prefix)), Len(prefix), Len(rows))

\* FlatMasksReadBack verifies the rows of two forwards.
ReadsBack(prefix, extra, rows) ==
    LET B     == Len(prefix)
        R     == Len(rows)
        tree  == [b \in 1 .. B |-> IF b = B THEN rows ELSE Reverse(rows)]
        flat  == FlatMask(prefix, tree, extra, N)
        kv    == [b \in 1 .. B |-> prefix[b] + extra + N]
        masks == [b \in 1 .. B |-> [r \in 1 .. R |->
                     (0 .. (prefix[b] + extra - 1)) \cup {prefix[b] + extra + i : i \in tree[b][r]}]]
    IN  /\ \A b \in 1 .. B : MaskOf(flat, [c \in 1 .. B |-> R], kv, b) = masks[b]
        /\ PadFlat(flat, 2, R) = FlatOf(PadMasks(masks, 2, R), kv \o <<1, 1>>)

\* The forward that grows a level, and the verify forward.
LEMMA BothForwards ==
    ASSUME NEW prefix
    PROVE  FlatMasksReadBack(prefix)
               = (ReadsBack(prefix, 0, LevelRows) /\ ReadsBack(prefix, 1, VerifyRows))
  BY DEF FlatMasksReadBack, ReadsBack

\* Reading a batch back is keeping it.
LEMMA VerifiedReadsBack ==
    ASSUME NEW prefix \in Seq(Nat), NEW extra \in Nat, NEW rows
    PROVE  ReadsBack(prefix, extra, rows) <=> Verified(prefix, extra, rows)
<1> DEFINE B     == Len(prefix)
           tree  == [b \in 1 .. B |-> IF b = B THEN rows ELSE Reverse(rows)]
           masks == [b \in 1 .. B |-> [r \in 1 .. Len(rows) |->
                        (0 .. (prefix[b] + extra - 1)) \cup {prefix[b] + extra + i : i \in tree[b][r]}]]
           kv    == [b \in 1 .. B |-> prefix[b] + extra + N]
<1>1. ReadsBack(prefix, extra, rows)
          = BatchKept(FlatMask(prefix, tree, extra, N), masks, kv, B, Len(rows))
  BY DEF ReadsBack, BatchKept, Even
<1>2. tree = BatchRows(rows, B)
  BY DEF BatchRows
<1>3. kv = Widths(prefix, extra, N, B)
  BY DEF Widths
<1>4. \A t : [b \in 1 .. B |-> [r \in 1 .. Len(rows) |->
                (0 .. (prefix[b] + extra - 1)) \cup {prefix[b] + extra + i : i \in t[b][r]}]]
              = MasksSeen(prefix, t, extra, B, Len(rows))
  <2> SUFFICES ASSUME NEW t
               PROVE  [b \in 1 .. B |-> [r \in 1 .. Len(rows) |->
                           (0 .. (prefix[b] + extra - 1)) \cup {prefix[b] + extra + i : i \in t[b][r]}]]
                          = MasksSeen(prefix, t, extra, B, Len(rows))
    OBVIOUS
  <2>1. ASSUME NEW b \in 1 .. B
        PROVE  [r \in 1 .. Len(rows) |->
                    (0 .. (prefix[b] + extra - 1)) \cup {prefix[b] + extra + i : i \in t[b][r]}]
                   = [r \in 1 .. Len(rows) |-> Seen(prefix[b] + extra, t[b][r])]
    <3>1. ASSUME NEW r
          PROVE  (0 .. (prefix[b] + extra - 1)) \cup {prefix[b] + extra + i : i \in t[b][r]}
                     = Seen(prefix[b] + extra, t[b][r])
      <4>1. PICK p \in Nat : p = prefix[b]
        OBVIOUS
      <4>2. p + extra - 1 = (p + extra) - 1
        OBVIOUS
      <4> QED BY <4>1, <4>2 DEF Seen
    <3> QED BY <3>1
  <2> QED BY <2>1, Zenon DEF MasksSeen
<1>5. masks = MasksSeen(prefix, tree, extra, B, Len(rows))
  <2> HIDE DEF tree
  <2> QED BY <1>4
<1> HIDE DEF tree, masks, kv
<1> QED BY <1>1, <1>2, <1>3, <1>5 DEF Verified

\* Whatever the batch, and whatever nodes the rows see.
LEMMA BatchVerified ==
    ASSUME NEW prefix \in Seq(Nat), prefix # << >>, NEW extra \in Nat, NEW R \in Nat \ {0},
           NEW rows \in [1 .. R -> SUBSET (0 .. (N - 1))]
    PROVE  Verified(prefix, extra, rows)
<1>1. N \in Nat \ {0}
  BY DraftTreeAssumption DEF N
<1>2. PICK B \in Nat \ {0} : B = Len(prefix) /\ prefix \in [1 .. B -> Nat]
  OBVIOUS
<1>3. Len(rows) = R
  OBVIOUS
<1>4. PICK tree : tree = BatchRows(rows, B)
  OBVIOUS
<1>5. Reverse(rows) \in [1 .. R -> SUBSET (0 .. (N - 1))]
  <2>1. \A i \in 1 .. R : (R - i) + 1 \in 1 .. R
    OBVIOUS
  <2> QED BY <1>3, <2>1 DEF Reverse
<1>6. \A b \in 1 .. B : tree[b] \in [1 .. R -> SUBSET (0 .. (N - 1))]
  BY <1>4, <1>5 DEF BatchRows
<1>7. InTree(tree, N, R, B)
  BY <1>6 DEF InTree
<1>8. 1 \in 1 .. B /\ Len(tree[1]) = R
  <2>1. 1 \in 1 .. B
    OBVIOUS
  <2> QED BY <1>6, <2>1
<1>9. PICK size : Wide(size, prefix, extra, N, R, B)
  BY DEF Wide
<1>10. PICK flat : flat = FlatMask(prefix, tree, extra, N)
  OBVIOUS
<1>11. FlatLaid(flat, prefix, tree, extra, N, size)
  BY ZenonT(30), <1>1, <1>2, <1>8, <1>9, <1>10, FlatPlaces DEF Wide
<1>12. PICK kv : kv = Widths(prefix, extra, N, B)
  OBVIOUS
<1>13. PICK masks : masks = MasksSeen(prefix, tree, extra, B, R)
  OBVIOUS
<1>14. ASSUME NEW b \in 1 .. B PROVE MaskOf(flat, Even(R, B), kv, b) = masks[b]
  BY <1>1, <1>2, <1>7, <1>9, <1>11, <1>12, <1>13, ReadBack
<1>15. PadFlat(flat, 2, R) = FlatOf(PadMasks(masks, 2, R), kv \o <<1, 1>>)
  <2>1. PICK m \in Nat : m = B + 2
    OBVIOUS
  <2>2. PICK all : all = kv \o <<1, 1>>
    OBVIOUS
  <2>3. kv \in Seq(Nat) /\ Len(kv) = B
    <3>1. \A b \in 1 .. B : prefix[b] + extra + N \in Nat
      BY <1>1, <1>2
    <3>2. kv \in [1 .. B -> Nat]
      BY <1>12, <3>1 DEF Widths
    <3> QED BY <3>2
  <2>4. \A z \in 1 .. m : all[z] = IF z <= B THEN kv[z] ELSE <<1, 1>>[z - B]
    <3>1. <<1, 1>> \in Seq(Nat) /\ Len(<<1, 1>>) = 2
      OBVIOUS
    <3>2. PICK ones \in Seq(Nat) : ones = <<1, 1>> /\ Len(ones) = 2
      BY <3>1
    <3>3. \A z \in 1 .. (Len(kv) + Len(ones)) :
              (kv \o ones)[z] = IF z <= Len(kv) THEN kv[z] ELSE ones[z - Len(kv)]
      BY SMTT(30), <2>3
    <3> QED BY <2>1, <2>2, <2>3, <3>2, <3>3
  <2>5. KvColumns(all, prefix, extra, N, B, m)
    <3>1. ASSUME NEW b \in 1 .. B PROVE all[b] = prefix[b] + extra + N
      BY <1>12, <2>1, <2>4 DEF Widths
    <3>2. ASSUME NEW b \in (B + 1) .. m PROVE all[b] = 1
      <4>1. b - B \in 1 .. 2 /\ ~ (b <= B) /\ b \in 1 .. m
        BY <2>1
      <4>2. <<1, 1>>[b - B] = 1
        BY <4>1
      <4> QED BY <2>4, <4>1, <4>2
    <3> QED BY <3>1, <3>2 DEF KvColumns
  <2>6. PICK P \in Nat : P = 2
    OBVIOUS
  <2>7. PICK n \in Nat \ {0} : n = N
    BY <1>1
  <2>8. PadsAlike(flat, masks, all, P, R)
    <3>1. m = B + P /\ R \in Nat
      BY <2>1, <2>6
    <3> QED BY <1>2, <1>7, <1>9, <1>11, <1>13, <2>5, <2>6, <2>7, <3>1, PaddedAlike
  <2> QED BY <2>2, <2>6, <2>8 DEF PadsAlike
<1>16. BatchKept(flat, masks, kv, B, R)
  BY <1>14, <1>15 DEF BatchKept
<1> QED BY <1>2, <1>3, <1>4, <1>10, <1>12, <1>13, <1>16 DEF Verified

\* The rows of a forward see nodes of the tree.
LEMMA RowsInTree ==
    ASSUME TreeInv
    PROVE  /\ LevelRows \in [1 .. K -> SUBSET (0 .. (N - 1))]
           /\ VerifyRows \in [1 .. (N + 1) -> SUBSET (0 .. (N - 1))]
<1>1. /\ K \in Nat \ {0} /\ D \in Nat \ {0} /\ N \in Nat /\ level \in 1 .. D /\ level \in Nat \ {0}
      /\ parents \in [0 .. (N - 1) -> Root .. (N - 1)]
  BY Levels, DraftTreeAssumption DEF TreeInv
<1>2. ASSUME NEW depth \in Nat \ {0}
      PROVE  AncestorMask(parents, depth) \in [0 .. (N - 1) -> SUBSET (0 .. (N - 1))]
  <2>1. PICK f \in [0 .. (depth - 1) -> Chased(N)] : MaskRounds(f, parents, depth)
    BY <1>1, Rounds
  <2>2. depth - 1 \in 0 .. (depth - 1)
    OBVIOUS
  <2>3. f[depth - 1] \in Chased(N) /\ AncestorMask(parents, depth) = f[depth - 1].see
    BY <2>1, <2>2 DEF MaskRounds
  <2> QED BY <2>3 DEF Chased
<1>3. LevelRows \in [1 .. K -> SUBSET (0 .. (N - 1))]
  <2>1. PICK A : A = AncestorMask(parents, level)
    OBVIOUS
  <2>2. A \in [0 .. (N - 1) -> SUBSET (0 .. (N - 1))]
    BY <1>1, <1>2, <2>1
  <2>3. \A r \in 1 .. K : lo + r - 1 \in 0 .. (N - 1)
    <3>1. level - 1 \in 0 .. (D - 1) /\ level - 1 \in Nat
      BY <1>1
    <3>2. lo = At(level - 1) /\ At(level - 1) \in Nat /\ At(level - 1) + K <= N
      BY <3>1, LevelOrder, LevelFits DEF lo, At
    <3> QED BY <1>1, <3>2
  <2>4. LevelRows = [r \in 1 .. K |-> A[lo + r - 1]]
    BY <2>1 DEF LevelRows
  <2> QED BY <2>2, <2>3, <2>4
<1>4. VerifyRows \in [1 .. (N + 1) -> SUBSET (0 .. (N - 1))]
  <2>1. PICK A : A = AncestorMask(parents, D)
    OBVIOUS
  <2>2. A \in [0 .. (N - 1) -> SUBSET (0 .. (N - 1))]
    BY <1>1, <1>2, <2>1
  <2>3. \A r \in 1 .. (N + 1) : r = 1 \/ r - 2 \in 0 .. (N - 1)
    BY <1>1
  <2>4. VerifyRows = [r \in 1 .. (N + 1) |-> IF r = 1 THEN {} ELSE A[r - 2]]
    BY <2>1 DEF VerifyRows
  <2> QED BY <2>2, <2>3, <2>4
<1> QED BY <1>3, <1>4

\* A batch of any number of requests with any prefixes, its masks flattened into one list
\* (flat_masks, tree.py:72-85) and read back per request (AttnMeta.mask), keeps every row's
\* columns, and padded to a graph's bucket it is the mask made of the requests' masks.
THEOREM FlatMasks == Spec => []FlatMasksExact
<1>1. ASSUME TreeInv PROVE FlatMasksExact
  <2> SUFFICES ASSUME NEW prefix \in Batches PROVE FlatMasksReadBack(prefix)
    BY DEF FlatMasksExact
  <2>1. prefix \in Seq(Nat) /\ prefix # << >>
    BY DraftTreeAssumption
  <2>2. K \in Nat \ {0} /\ N + 1 \in Nat \ {0} /\ 0 \in Nat /\ 1 \in Nat
    BY DraftTreeAssumption DEF N
  <2>3. Verified(prefix, 0, LevelRows)
    BY <1>1, <2>1, <2>2, RowsInTree, BatchVerified
  <2>4. Verified(prefix, 1, VerifyRows)
    BY <1>1, <2>1, <2>2, RowsInTree, BatchVerified
  <2> QED BY <2>1, <2>2, <2>3, <2>4, BothForwards, VerifiedReadsBack
<1> QED BY <1>1, TreeInvariant, PTL
=============================================================================
