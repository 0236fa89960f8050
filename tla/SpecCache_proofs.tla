-------------------------- MODULE SpecCache_proofs --------------------------
(***************************************************************************)
(* Theorems about SpecCache: it is Engine with the contents of the caches  *)
(* beside it, so that what holds of every engine holds of it; the moves    *)
(* that compaction notes may be applied in one copy; and the caches hold   *)
(* the running requests' texts.                                            *)
(***************************************************************************)
EXTENDS SpecCache, Engine_proofs, Trees_proofs

\* Every step that moves contents is one step of the engine: the contents never force an
\* order on it, and no step of theirs happens between two of its own.
LEMMA CacheStepIsAStep ==
    ASSUME [CacheNext]_<<vars, contents>>
    PROVE  [Next]_vars
<1>1. CASE AddText
  BY <1>1 DEF AddText, Next
<1>2. CASE RunForward \/ FinishPath \/ PlainPath \/ SpecPath \/ DraftTrees \/ EndWithoutDraft
  BY <1>2 DEF RunForward, FinishPath, PlainPath, SpecPath, DraftTrees, EndWithoutDraft, Next,
     StepAction
<1>3. CASE NewWeights
  BY <1>3 DEF NewWeights, Next
<1>4. CASE RestartText
  BY <1>4 DEF RestartText, Next, UpdateAction
<1>5. CASE Bookkeeping
  BY <1>5 DEF Bookkeeping, Next, StepAction, UpdateAction
<1>6. CASE UNCHANGED <<vars, contents>>
  BY <1>6
<1> QED BY <1>1, <1>2, <1>3, <1>4, <1>5, <1>6 DEF CacheNext

\* SpecCache implements Engine under the identity: the two caches and the token sequences
\* are beside the state the scheduler and the pool decide on.
THEOREM CacheImplementsEngine == CacheSpec => Spec
<1>1. CacheInit => Init
  BY DEF CacheInit
<1>2. [CacheNext]_<<vars, contents>> => [Next]_vars
  BY CacheStepIsAStep
<1> QED BY <1>1, <1>2, PTL DEF CacheSpec, Spec

\* What is proved of the engine is true of it with its caches: the queues and the pool agree,
\* every row of a verify and of a draft has a reserved slot, and no call to the pool is
\* refused but beside a running request that may emit no token.
THEOREM CacheIsSafe ==
    CacheSpec => [](QueuesConsistent /\ OnlyZeroTokensExhaust /\ RowsFit /\ DraftRowsFit)
<1> QED BY CacheImplementsEngine, QueuesAgree, HeadroomSuffices, RowsAlwaysFit,
           DraftRowsAlwaysFit, PTL

\* The slots the caches are addressed through do not move under committed positions.
THEOREM CacheSlotsStay == CacheSpec => CommittedStays
<1> QED BY CacheImplementsEngine, CommittedNeverMoves
----------------------------------------------------------------------------
(***************************************************************************)
(* Compaction.                                                             *)
(***************************************************************************)
\* A position of r and its slot.
PlacedAt(r, p, s) ==
    /\ s \in Nat /\ p \div BlockSize + 1 \in DOMAIN blocks[r]
    /\ s \div BlockSize = blocks[r][p \div BlockSize + 1] /\ s % BlockSize = p % BlockSize
    /\ s \div BlockSize \in ToSet(blocks[r])

\* A reserved position lies in a block of its request's table.
LEMMA PhysPlace ==
    ASSUME PoolInv, NEW r \in Id, NEW p \in 0 .. (seq_len[r] - 1)
    PROVE  PlacedAt(r, p, Phys(r, p))
<1>1. /\ BlockSize \in Nat \ {0} /\ NumBlocks \in Nat \ {0} /\ p \in Nat /\ seq_len[r] \in Nat
      /\ p + 1 <= seq_len[r] /\ blocks[r] \in Seq(Block)
  BY PoolAssumption DEF PoolInv, PoolTypeOK
<1>2. PICK n \in Nat : n = Len(blocks[r])
  BY <1>1
<1>3. seq_len[r] <= BlockSize * n
  BY <1>1, <1>2, BlocksForCeiling DEF PoolInv, TablesSized
<1>4. PICK k, c : k = p \div BlockSize /\ c = p % BlockSize
  OBVIOUS
<1>5. k \in Nat /\ c \in 0 .. (BlockSize - 1) /\ BlockSize * k <= p
  BY <1>1, <1>4
<1>6. k < n
  <2> SUFFICES ASSUME n <= k PROVE FALSE
    BY <1>2, <1>5
  <2>1. CASE n = k
    BY <1>1, <1>3, <1>5, <2>1
  <2>2. CASE n < k
    <3>1. BlockSize * n + BlockSize <= BlockSize * k
      BY <1>1, <1>2, <1>5, <2>2, MulStep
    <3> QED BY <1>1, <1>2, <1>3, <1>5, <3>1
  <2> QED BY <1>2, <1>5, <2>1, <2>2
<1>7. k + 1 \in DOMAIN blocks[r] /\ blocks[r][k + 1] \in Block
  BY <1>1, <1>2, <1>5, <1>6
<1>8. PICK b \in Nat : b = blocks[r][k + 1]
  BY <1>1, <1>7 DEF Block
<1>9. PICK x : x = b * BlockSize + c
  OBVIOUS
<1>10. x = ((b + 1) - 1) * BlockSize + c
  BY <1>8, <1>9
<1>11. IsCell(b + 1, BlockSize, b + 1, c, x, 0)
  <2>1. PICK R \in Nat : R = b + 1
    BY <1>8
  <2>2. R \in 1 .. R /\ 0 \in Nat /\ x = (R - 1) * BlockSize + c
    BY <1>8, <1>10, <2>1
  <2> QED BY <1>1, <1>5, <2>1, <2>2, PlaceIn
<1>12. x \in Nat /\ x \div BlockSize = b /\ x % BlockSize = c
  BY <1>8, <1>11 DEF IsCell
<1>13. Phys(r, p) = x
  BY <1>4, <1>8, <1>9 DEF Phys
<1>14. b \in ToSet(blocks[r])
  BY <1>7, <1>8 DEF ToSet
<1> QED BY <1>4, <1>7, <1>8, <1>12, <1>13, <1>14 DEF PlacedAt

\* Two reserved positions of one request have two slots.
LEMMA PhysInjective ==
    ASSUME PoolInv, NEW r \in Id, NEW p \in 0 .. (seq_len[r] - 1), NEW q \in 0 .. (seq_len[r] - 1),
           Phys(r, p) = Phys(r, q)
    PROVE  p = q
<1>1. PlacedAt(r, p, Phys(r, p)) /\ PlacedAt(r, q, Phys(r, q))
  BY PhysPlace
<1>2. /\ BlockSize \in Nat \ {0} /\ p \in Nat /\ q \in Nat /\ blocks[r] \in Seq(Block)
  BY PoolAssumption DEF PoolInv, PoolTypeOK
<1>3. PICK k, l : k = p \div BlockSize /\ l = q \div BlockSize
  OBVIOUS
<1>4. /\ k + 1 \in DOMAIN blocks[r] /\ l + 1 \in DOMAIN blocks[r]
      /\ blocks[r][k + 1] = blocks[r][l + 1] /\ p % BlockSize = q % BlockSize
  BY <1>1, <1>3 DEF PlacedAt
<1>5. k \in Nat /\ l \in Nat
  BY <1>2, <1>3
<1>6. k + 1 = l + 1
  BY <1>2, <1>4 DEF PoolInv, EveryBlockOnce, OwnedOnce
<1>7. k = l
  BY <1>5, <1>6
<1>8. p = BlockSize * (p \div BlockSize) + (p % BlockSize)
  BY SMTT(30), <1>2
<1>9. q = BlockSize * (q \div BlockSize) + (q % BlockSize)
  BY <1>2
<1> QED BY <1>3, <1>4, <1>7, <1>8, <1>9

\* The tree of a request that may run is the drafter's, or none.
Shaped == pc # "exhausted" =>
              /\ DOMAIN parents = Request
              /\ \A r \in Request : state[r] # "done" => Ordered(parents[r], tree[r])

\* Applied front to back, the moves m read what was there before the first.
FrontToBack(m) == \A i, j \in DOMAIN m : /\ m[i][2] = m[j][2] => i = j
                                         /\ m[i][2] = m[j][1] => i >= j

\* A slot of no request of S.
Beside(s, S) == \A r \in S : s \div BlockSize \notin ToSet(blocks[r])

\* The moves m are between slots of no request of S.
Outside(m, S) == \A i \in DOMAIN m : Beside(m[i][1], S) /\ Beside(m[i][2], S)

\* Requests whose rows are still to be accepted.
Unvisited == ToSet(IF pc = "regrow" THEN Tail(todo) ELSE todo)

\* The moves noted so far are in order, and in blocks that those still to be accepted do
\* not have: a finished request's, too, which another may have taken since.
Noted == /\ pc # "exhausted" => moves \in Seq(Nat \X Nat)
         /\ pc \notin {"accept", "regrow", "exhausted"} => moves = << >>
         /\ pc \in {"accept", "regrow"} => FrontToBack(moves) /\ Outside(moves, Unvisited)

MoveInv == Shaped /\ Noted

\* What r notes: moves to the front of its own reserved positions.
NotesOf(m, r) ==
    /\ m \in Seq(Nat \X Nat) /\ FrontToBack(m)
    /\ \A i \in DOMAIN m : /\ m[i][1] \div BlockSize \in ToSet(blocks[r])
                           /\ m[i][2] \div BlockSize \in ToSet(blocks[r])

\* Compacting a rising path notes such moves.
LEMMA CompactionNotes ==
    ASSUME PoolInv, NEW r \in Id, NEW n \in Nat, committed[r] \in Nat,
           committed[r] + 1 + n <= seq_len[r], NEW path, Rising(path, n)
    PROVE  NotesOf(Compaction(r, path), r)
<1>1. /\ path \in Seq(0 .. (n - 1)) /\ \A k, l \in DOMAIN path : k < l => path[k] < path[l]
      /\ \A k \in DOMAIN path : path[k] \in 0 .. (n - 1) /\ path[k] >= k - 1
  BY RisingAhead DEF Rising
<1>2. PICK m : m = Compaction(r, path)
  OBVIOUS
<1>3. PICK L \in Nat : L = Len(path) /\ DOMAIN path = 1 .. L
  BY <1>1
<1>4. PICK c \in Nat : c = committed[r]
  OBVIOUS
<1>5. seq_len[r] \in Nat
  BY DEF PoolInv, PoolTypeOK
<1>6. \A k \in 1 .. L : /\ c + 1 + path[k] \in 0 .. (seq_len[r] - 1)
                        /\ c + k \in 0 .. (seq_len[r] - 1) /\ c + 1 + path[k] >= c + k
  <2>1. PICK q \in Nat : q = seq_len[r] /\ c + 1 + n <= q
    BY <1>4, <1>5
  <2> SUFFICES ASSUME NEW k \in 1 .. L
               PROVE  /\ c + 1 + path[k] \in 0 .. (q - 1) /\ c + k \in 0 .. (q - 1)
                      /\ c + 1 + path[k] >= c + k
    BY <2>1
  <2>2. PICK y \in 0 .. (n - 1) : y = path[k] /\ y >= k - 1
    BY <1>1, <1>3
  <2> QED BY <2>1, <2>2
<1>7. /\ DOMAIN m = 1 .. L
      /\ \A k \in 1 .. L : m[k] = <<Phys(r, c + 1 + path[k]), Phys(r, c + k)>>
      /\ m = [k \in 1 .. L |-> <<Phys(r, c + 1 + path[k]), Phys(r, c + k)>>]
  BY <1>2, <1>3, <1>4 DEF Compaction
<1>8. ASSUME NEW k \in 1 .. L
      PROVE  /\ m[k] \in Nat \X Nat /\ m[k][1] = Phys(r, c + 1 + path[k]) /\ m[k][2] = Phys(r, c + k)
             /\ m[k][1] \div BlockSize \in ToSet(blocks[r])
             /\ m[k][2] \div BlockSize \in ToSet(blocks[r])
  <2>1. PICK x, y : x = c + 1 + path[k] /\ y = c + k
    OBVIOUS
  <2>2. x \in 0 .. (seq_len[r] - 1) /\ y \in 0 .. (seq_len[r] - 1)
    BY <1>6, <2>1
  <2>3. PlacedAt(r, x, Phys(r, x)) /\ PlacedAt(r, y, Phys(r, y))
    BY <2>2, PhysPlace
  <2>4. m[k] = <<Phys(r, x), Phys(r, y)>>
    BY <1>7, <2>1
  <2> QED BY <2>1, <2>3, <2>4 DEF PlacedAt
<1>9. m \in Seq(Nat \X Nat)
  BY <1>7, <1>8
<1>10. ASSUME NEW i \in 1 .. L, NEW j \in 1 .. L
       PROVE  (m[i][2] = m[j][2] => i = j) /\ (m[i][2] = m[j][1] => i >= j)
  <2>1. PICK x, y, z : x = c + i /\ y = c + j /\ z = c + 1 + path[j]
    OBVIOUS
  <2>2. /\ x \in 0 .. (seq_len[r] - 1) /\ y \in 0 .. (seq_len[r] - 1) /\ z \in 0 .. (seq_len[r] - 1)
        /\ z >= y
    BY <1>6, <2>1
  <2>3. m[i][2] = Phys(r, x) /\ m[j][2] = Phys(r, y) /\ m[j][1] = Phys(r, z)
    BY <1>8, <2>1
  <2>4. m[i][2] = m[j][2] => x = y
    BY <2>2, <2>3, PhysInjective
  <2>5. m[i][2] = m[j][1] => x = z
    BY <2>2, <2>3, PhysInjective
  <2> QED BY <1>5, <2>1, <2>2, <2>4, <2>5
<1>11. FrontToBack(m)
  BY <1>7, <1>10 DEF FrontToBack
<1> QED BY <1>2, <1>7, <1>8, <1>9, <1>11 DEF NotesOf

\* So does accepting any path of r's tree.
LEMMA AcceptingNotes ==
    ASSUME PoolInv, NEW r \in Id, tree[r] \in Nat, committed[r] \in Nat,
           tree[r] # NoTree => committed[r] + 1 + tree[r] <= seq_len[r],
           Ordered(parents[r], tree[r]), NEW path \in Paths(parents[r])
    PROVE  NotesOf(NotedMoves(r, path), r)
<1>0. NotesOf(<< >>, r)
  BY DEF NotesOf, FrontToBack
<1>1. CASE path = << >>
  <2>1. NotedMoves(r, path) = << >>
    BY <1>1 DEF NotedMoves
  <2> QED BY <1>0, <2>1
<1>2. CASE path # << >>
  <2>1. PICK i \in DOMAIN parents[r] : path = Ancestors(parents[r], i)
    BY <1>2 DEF Paths
  <2>2. Rising(path, tree[r])
    BY <2>1, PathRises
  <2>3. tree[r] # NoTree
    BY <2>1 DEF Ordered, NoTree
  <2>4. NotesOf(Compaction(r, path), r)
    BY <2>2, <2>3, CompactionNotes
  <2> QED BY <1>0, <2>4 DEF NotedMoves
<1> QED BY <1>1, <1>2

\* What one request notes goes behind what those before it noted.
LEMMA NotesAppended ==
    ASSUME PoolInv, NEW r \in Id, NEW m, NotesOf(m, r), NEW S, S \subseteq Id, r \in S,
           moves \in Seq(Nat \X Nat), FrontToBack(moves), Outside(moves, S)
    PROVE  /\ moves \o m \in Seq(Nat \X Nat) /\ FrontToBack(moves \o m)
           /\ Outside(moves \o m, S \ {r})
<1>1. PICK w : w = moves \o m
  OBVIOUS
<1>0. m \in Seq(Nat \X Nat)
  BY DEF NotesOf
<1>2. PICK M, L : /\ M \in Nat /\ L \in Nat /\ M = Len(moves) /\ L = Len(m)
                  /\ DOMAIN moves = 1 .. M /\ DOMAIN m = 1 .. L
  <2>1. Len(moves) \in Nat /\ DOMAIN moves = 1 .. Len(moves)
    OBVIOUS
  <2>2. Len(m) \in Nat /\ DOMAIN m = 1 .. Len(m)
    BY <1>0
  <2> QED BY <2>1, <2>2
<1>3. /\ w \in Seq(Nat \X Nat) /\ DOMAIN w = 1 .. (M + L)
      /\ \A i \in 1 .. M : w[i] = moves[i]
      /\ \A i \in (M + 1) .. (M + L) : w[i] = m[i - M]
  <2>1. /\ w \in Seq(Nat \X Nat) /\ Len(w) = M + L
        /\ \A i \in 1 .. M : w[i] = moves[i]
        /\ \A i \in (M + 1) .. (M + L) : w[i] = m[i - M]
    BY <1>0, <1>1, <1>2, ConcatPositions
  <2> QED BY <1>2, <2>1
<1>4. \A i \in 1 .. M : /\ moves[i][1] \div BlockSize \notin ToSet(blocks[r])
                        /\ moves[i][2] \div BlockSize \notin ToSet(blocks[r])
  BY <1>2 DEF Outside, Beside
<1>5. \A i \in 1 .. L : /\ m[i][1] \div BlockSize \in ToSet(blocks[r])
                        /\ m[i][2] \div BlockSize \in ToSet(blocks[r])
  BY <1>2 DEF NotesOf
<1>6. ASSUME NEW i \in DOMAIN w, NEW j \in DOMAIN w
      PROVE  (w[i][2] = w[j][2] => i = j) /\ (w[i][2] = w[j][1] => i >= j)
  <2>0. M \in Nat /\ L \in Nat /\ i \in 1 .. (M + L) /\ j \in 1 .. (M + L)
    BY <1>2, <1>3
  <2>1. CASE i <= M /\ j <= M
    <3>1. i \in 1 .. M /\ j \in 1 .. M
      BY <2>0, <2>1
    <3>2. w[i] = moves[i] /\ w[j] = moves[j] /\ i \in DOMAIN moves /\ j \in DOMAIN moves
      BY <1>2, <1>3, <3>1
    <3> QED BY <3>2 DEF FrontToBack
  <2>2. CASE i <= M /\ j > M
    <3>1. i \in 1 .. M /\ j \in (M + 1) .. (M + L) /\ j - M \in 1 .. L
      BY <2>0, <2>2
    <3>2. w[i] = moves[i] /\ w[j] = m[j - M]
      BY <1>3, <3>1
    <3>3. w[i][2] # w[j][2] /\ w[i][2] # w[j][1]
      BY <1>4, <1>5, <3>1, <3>2
    <3> QED BY <3>3
  <2>3. CASE i > M /\ j <= M
    <3>1. j \in 1 .. M /\ i \in (M + 1) .. (M + L) /\ i - M \in 1 .. L
      BY <2>0, <2>3
    <3>2. w[j] = moves[j] /\ w[i] = m[i - M]
      BY <1>3, <3>1
    <3>3. w[i][2] # w[j][2] /\ w[i][2] # w[j][1]
      BY <1>4, <1>5, <3>1, <3>2
    <3> QED BY <3>3
  <2>4. CASE i > M /\ j > M
    <3>1. PICK k, l : k \in 1 .. L /\ l \in 1 .. L /\ k = i - M /\ l = j - M
      <4>1. i - M \in 1 .. L
        BY <2>0, <2>4
      <4>2. j - M \in 1 .. L
        BY <2>0, <2>4
      <4> QED BY <4>1, <4>2
    <3>2. w[i] = m[k] /\ w[j] = m[l] /\ i \in Int /\ j \in Int
      <4>1. i \in (M + 1) .. (M + L) /\ j \in (M + 1) .. (M + L)
        BY <2>0, <2>4
      <4> QED BY <1>3, <3>1, <4>1
    <3>3. (m[k][2] = m[l][2] => k = l) /\ (m[k][2] = m[l][1] => k >= l)
      <4>1. k \in DOMAIN m /\ l \in DOMAIN m
        BY <1>2, <3>1
      <4> QED BY <4>1 DEF NotesOf, FrontToBack
    <3> QED BY <2>0, <3>1, <3>2, <3>3
  <2> QED BY <2>0, <2>1, <2>2, <2>3, <2>4
<1>7. \A s \in S \ {r} : \A b \in ToSet(blocks[r]) : b \notin ToSet(blocks[s])
  <2> SUFFICES ASSUME NEW s \in S \ {r}, NEW b \in ToSet(blocks[r]), b \in ToSet(blocks[s])
               PROVE  FALSE
    OBVIOUS
  <2>1. blocks[r] \in Seq(Block) /\ blocks[s] \in Seq(Block) /\ s \in Id /\ s # r
    BY DEF PoolInv, PoolTypeOK
  <2>2. PICK i \in 1 .. Len(blocks[r]) : blocks[r][i] = b
    BY <2>1, InToSet
  <2>3. PICK j \in 1 .. Len(blocks[s]) : blocks[s][j] = b
    BY <2>1, InToSet
  <2> QED BY <2>1, <2>2, <2>3 DEF PoolInv, EveryBlockOnce, OwnedOnce
<1>8. ASSUME NEW i \in DOMAIN w PROVE Beside(w[i][1], S \ {r}) /\ Beside(w[i][2], S \ {r})
  <2>0. M \in Nat /\ L \in Nat /\ i \in 1 .. (M + L)
    BY <1>2, <1>3
  <2>1. CASE i <= M
    <3>1. i \in 1 .. M
      BY <2>0, <2>1
    <3> QED BY <1>2, <1>3, <3>1 DEF Outside, Beside
  <2>2. CASE i > M
    <3>1. i \in (M + 1) .. (M + L) /\ i - M \in 1 .. L
      BY <2>0, <2>2
    <3>2. w[i] = m[i - M]
      BY <1>3, <3>1
    <3> QED BY <1>5, <1>7, <3>1, <3>2 DEF Beside
  <2> QED BY <2>0, <2>1, <2>2
<1> QED BY <1>1, <1>3, <1>6, <1>8 DEF FrontToBack, Outside

\* Nothing hangs off a request without a tree.
LEMMA NoParentsOrdered == Ordered(NoParents, NoTree)
<1>1. PICK p : p = NoParents
  OBVIOUS
<1>2. p = << >> /\ DOMAIN p = {} /\ 0 .. (NoTree - 1) = {}
  BY <1>1 DEF NoParents, NoTree
<1>3. p \in [0 .. (NoTree - 1) -> Root .. (NoTree - 1)]
  BY <1>2
<1> QED BY <1>1, <1>2, <1>3 DEF Ordered

\* The trees the levels grow are ordered.
LEMMA TreesOrdered ==
    ASSUME NEW d \in Nat, NEW p \in TreesOf(d)
    PROVE  Ordered(p, d * TopK) /\ d * TopK \in Nat
<1>1. TopK \in Nat \ {0}
  BY EngineAssumption
<1>2. PICK n \in Nat : n = d * TopK
  BY <1>1
<1>3. CASE TopK = 1
  <2>1. p = [i \in 0 .. (d - 1) |-> i - 1] /\ n = d
    BY <1>2, <1>3 DEF TreesOf, Chain
  <2> QED BY <1>2, <2>1 DEF Ordered, Root
<1>4. CASE TopK # 1
  <2>1. PICK pl \in [TopK .. (n - 1) -> 0 .. (TopK - 1)] :
            p = [i \in 0 .. (n - 1) |->
                     IF i < TopK THEN -1 ELSE ((i \div TopK) - 1) * TopK + pl[i]]
    BY <1>2, <1>4 DEF TreesOf
  <2>2. ASSUME NEW i \in 0 .. (n - 1) PROVE p[i] \in Root .. (n - 1) /\ p[i] < i
    <3>1. CASE i < TopK
      BY <1>2, <2>1, <2>2, <3>1 DEF Root
    <3>2. CASE i >= TopK
      <4>1. i \in TopK .. (n - 1) /\ i \in Nat
        BY <1>1, <1>2, <3>2
      <4>2. PICK x \in 0 .. (TopK - 1) : x = pl[i]
        BY <2>1, <4>1
      <4>3. PICK q \in Int : q = i \div TopK /\ TopK * q <= i /\ i < TopK * q + TopK
        BY <1>1, <4>1, FloorDiv
      <4>4. q >= 1
        <5> SUFFICES ASSUME q < 1 PROVE FALSE
          BY <4>3
        <5>1. CASE q = 0
          BY <1>1, <3>2, <4>1, <4>3, <5>1
        <5>2. CASE q < 0
          <6>1. TopK * q + TopK <= TopK * 0
            BY <1>1, <4>3, <5>2, MulStep
          <6> QED BY <1>1, <4>1, <4>3, <6>1
        <5> QED BY <4>3, <5>1, <5>2
      <4>5. PICK e \in Nat : e = q - 1
        BY <4>3, <4>4
      <4>6. PICK y \in Nat : y = e * TopK
        BY <1>1, <4>5
      <4>7. TopK * q = y + TopK
        BY <1>1, <4>3, <4>5, <4>6
      <4>8. p[i] = y + x
        <5>1. p[i] = ((i \div TopK) - 1) * TopK + pl[i]
          BY <1>1, <2>1, <2>2, <3>2, <4>1
        <5>2. (i \div TopK) - 1 = e
          BY <4>3, <4>5
        <5> QED BY <4>2, <4>6, <5>1, <5>2
      <4> QED BY <1>1, <1>2, <4>1, <4>2, <4>3, <4>6, <4>7, <4>8 DEF Root
    <3> QED BY <1>1, <1>2, <3>1, <3>2
  <2> QED BY <1>2, <2>1, <2>2 DEF Ordered
<1> QED BY <1>2, <1>3, <1>4

\* The drafter grows some number of levels.
LEMMA DraftDepthType == ASSUME NEW b \in Nat \ {0} PROVE DraftDepth(b) \in Nat
<1>1. Depth \in Nat /\ RowBudget \in Nat /\ RowBudget \div b \in Nat
  BY EngineAssumption
<1> QED BY <1>1 DEF DraftDepth

\* Steps that draft no tree and drop none.
LEMMA ShapeStays ==
    ASSUME Shaped, pc # "exhausted", parents' = parents, tree' = tree,
           \A r \in Request : state'[r] # "done" => state[r] # "done"
    PROVE  Shaped'
  BY DEF Shaped

\* The head of the accept loop: it runs, and its rows are reserved.
LEMMA HeadReserved ==
    ASSUME IInv, Shaped, pc = "accept", todo # << >>, NEW h, h = Head(todo)
    PROVE  /\ h \in Request /\ h \in Id /\ h \in Todo /\ state[h] = "running"
           /\ tree[h] \in Nat /\ committed[h] \in Nat /\ Ordered(parents[h], tree[h])
           /\ tree[h] # NoTree => committed[h] + 1 + tree[h] <= seq_len[h]
           /\ ToSet(Tail(todo)) = Todo \ {h} /\ Todo \subseteq Id
<1>1. TypeOK /\ PoolInv /\ Queued /\ Locals /\ Counted /\ Treed /\ Reserved
  BY DEF IInv, InCall
<1>2. /\ h \in Request /\ h \in Running /\ h \in Todo /\ h \in Id
      /\ ToSet(Tail(todo)) = Todo \ {h}
  BY <1>1, Visits
<1>3. Todo \subseteq Id
  BY <1>1, Members
<1>4. state[h] = "running" /\ tree[h] \in Nat /\ committed[h] \in Nat
  BY <1>1, <1>2 DEF Queued, TypeOK, SchedTypeOK
<1>5. Ordered(parents[h], tree[h])
  BY <1>2, <1>4 DEF Shaped
<1>6. ASSUME tree[h] # NoTree PROVE committed[h] + 1 + tree[h] <= seq_len[h]
  <2>1. h \in Pending \ Newly
    BY <1>1, <1>2, <1>6 DEF Pending, Counted, CountedFor
  <2>2. Taken(h) = Slots
    BY <2>1 DEF Taken
  <2>3. seq_len[h] = committed[h] + Slots
    BY <1>1, <1>2, <2>1, <2>2 DEF Reserved
  <2>4. tree[h] <= NumDraft /\ NumDraft \in Nat
    BY <1>1, <1>2, SlotsType DEF Treed
  <2> QED BY <1>4, <2>3, <2>4 DEF Slots
<1> QED BY <1>2, <1>3, <1>4, <1>5, <1>6

\* Every request of the accept loop notes its moves, or has none to note.
LEMMA HeadNotes ==
    ASSUME IInv, MoveInv, pc = "accept", todo # << >>, NEW h, h = Head(todo),
           NEW path \in Paths(parents[h]), moves' = moves \o NotedMoves(h, path)
    PROVE  /\ moves' \in Seq(Nat \X Nat) /\ FrontToBack(moves')
           /\ Outside(moves', Todo \ {h})
<1>1. /\ h \in Id /\ h \in Todo /\ tree[h] \in Nat /\ committed[h] \in Nat
      /\ Ordered(parents[h], tree[h])
      /\ tree[h] # NoTree => committed[h] + 1 + tree[h] <= seq_len[h]
      /\ Todo \subseteq Id
  BY HeadReserved DEF MoveInv
<1>2. PoolInv
  BY DEF IInv
<1>3. NotesOf(NotedMoves(h, path), h)
  BY <1>1, <1>2, AcceptingNotes
<1>4. moves \in Seq(Nat \X Nat) /\ FrontToBack(moves) /\ Outside(moves, Todo)
  BY DEF MoveInv, Noted, Unvisited, Todo
<1>5. PICK m : m = NotedMoves(h, path)
  OBVIOUS
<1> QED BY <1>1, <1>2, <1>3, <1>4, <1>5, NotesAppended

\* In an accept loop nobody visits but its head, the moves stay noted.
LEMMA NotesStay ==
    ASSUME pc' \in {"accept", "regrow"}, moves' \in Seq(Nat \X Nat), FrontToBack(moves'),
           NEW S, Outside(moves', S), Unvisited' \subseteq S,
           \A s \in S : blocks'[s] = blocks[s]
    PROVE  Noted'
<1>1. \A i \in DOMAIN moves' : \A s \in Unvisited' :
          /\ moves'[i][1] \div BlockSize \notin ToSet(blocks'[s])
          /\ moves'[i][2] \div BlockSize \notin ToSet(blocks'[s])
  BY DEF Outside, Beside
<1> QED BY <1>1 DEF Noted, Outside, Beside, FrontToBack

\* Outside the loop nothing is noted.
LEMMA NothingNoted ==
    ASSUME moves' = << >>, pc' \notin {"accept", "regrow"}
    PROVE  Noted'
  BY DEF Noted

\* The acceptance of one request keeps what is noted in order.
LEMMA AcceptsNote ==
    ASSUME IInv, MoveInv, FinishPath \/ PlainPath \/ SpecPath
    PROVE  Noted'
<1>1. /\ pc = "accept" /\ todo # << >> /\ pc' \in {"accept", "regrow"}
      /\ pc' = "accept" => todo' = Tail(todo)
      /\ pc' = "regrow" => todo' = todo
  BY DEF FinishPath, PlainPath, SpecPath, AcceptDone, AcceptPlain, AcceptSpec, InAccept
<1>2. PICK h : h = Head(todo)
  OBVIOUS
<1>3. PICK path \in Paths(parents[h]) : moves' = moves \o NotedMoves(h, path)
  <2>1. << >> \in Paths(parents[h])
    BY DEF Paths
  <2> QED BY <1>2, <2>1 DEF FinishPath, PlainPath, SpecPath, AcceptPath
<1>4. moves' \in Seq(Nat \X Nat) /\ FrontToBack(moves') /\ Outside(moves', Todo \ {h})
  BY <1>1, <1>2, <1>3, HeadNotes
<1>5. /\ h \in Id /\ ToSet(Tail(todo)) = Todo \ {h} /\ Todo \subseteq Id
  BY <1>1, <1>2, HeadReserved DEF MoveInv
<1>6. Unvisited' = Todo \ {h}
  BY <1>1, <1>5 DEF Unvisited
<1>7. blocks \in [Id -> Seq(Block)]
  BY DEF IInv, PoolInv, PoolTypeOK
<1>8. \A s \in Todo \ {h} : blocks'[s] = blocks[s]
  <2>1. CASE FinishPath
    BY <1>2, <1>5, <1>7, <2>1 DEF FinishPath, AcceptDone, Finish, FreeTable
  <2>2. CASE PlainPath
    BY <2>2 DEF PlainPath, AcceptPlain, pool
  <2>3. CASE SpecPath
    BY <1>2, <1>5, <1>7, <2>3 DEF SpecPath, AcceptSpec, Rollback
  <2> QED BY <2>1, <2>2, <2>3
<1> QED BY <1>1, <1>4, <1>6, <1>8, NotesStay

\* The next verify's slots are appended to a table that no move waits for.
LEMMA RegrowNotes ==
    ASSUME IInv, MoveInv, Regrow, UNCHANGED contents
    PROVE  Noted'
<1>1. /\ pc = "regrow" /\ pc' = "accept" /\ todo' = Tail(todo) /\ AppendTokens(Head(todo), Slots)
      /\ moves' = moves
  BY DEF Regrow, contents, local
<1>2. PICK h : h = Head(todo)
  OBVIOUS
<1>3. /\ moves \in Seq(Nat \X Nat) /\ FrontToBack(moves) /\ Outside(moves, ToSet(Tail(todo)))
  BY <1>1 DEF MoveInv, Noted, Unvisited
<1>4. TypeOK /\ Locals /\ todo # << >>
  BY <1>1 DEF IInv, InCall, Locals
<1>5. h \in Id /\ ToSet(Tail(todo)) = Todo \ {h} /\ Todo \subseteq Id
  BY <1>1, <1>2, <1>4, Visits, Members
<1>6. blocks \in [Id -> Seq(Block)]
  BY DEF IInv, PoolInv, PoolTypeOK
<1>7. \A s \in ToSet(Tail(todo)) : blocks'[s] = blocks[s]
  BY <1>1, <1>2, <1>5, <1>6 DEF AppendTokens
<1>8. Unvisited' = ToSet(Tail(todo))
  BY <1>1 DEF Unvisited
<1> QED BY <1>1, <1>3, <1>7, <1>8, NotesStay

\* Steps that move no contents.
LEMMA BookkeepingMoves ==
    ASSUME IInv, MoveInv, Bookkeeping
    PROVE  MoveInv'
<1>1. UNCHANGED contents /\ parents' = parents /\ moves' = moves
  BY DEF Bookkeeping, contents, texts, local
<1>2. Shaped /\ Noted /\ TypeOK
  BY DEF MoveInv, IInv
<1>3. CASE Raise
  BY <1>3 DEF Raise, MoveInv, Shaped, Noted
<1>4. CASE Rest
  <2>1. /\ pc' = pc /\ tree' = tree /\ state' = state /\ blocks' = blocks /\ todo' = todo
    BY <1>4 DEF Rest, vars, step, pool, sched, request
  <2>2. Unvisited' = Unvisited
    BY <2>1 DEF Unvisited
  <2> QED BY <1>1, <1>2, <2>1, <2>2 DEF MoveInv, Shaped, Noted, FrontToBack, Outside, Beside
<1>5. CASE Regrow
  <2>1. pc # "exhausted" /\ tree' = tree /\ state' = state
    BY <1>5 DEF Regrow, sched, request
  <2> QED BY <1>1, <1>2, <1>5, <2>1, RegrowNotes, ShapeStays DEF MoveInv
<1>6. CASE Admit
  <2>1. pc = "admit" /\ pc' = "admit" /\ tree' = tree
    BY <1>6 DEF Admit, AdmitRequest
  <2>2. PICK h : h = Head(waiting) /\ state' = [state EXCEPT ![h] = "running"]
    BY <1>6 DEF Admit, AdmitRequest
  <2>3. waiting \in Seq(Request) /\ waiting # << >> /\ state \in [Request -> State]
    BY <1>2, <1>6 DEF Admit, HeadFits, MayAdmit, TypeOK, SchedTypeOK
  <2>4. h \in Request /\ h \in ToSet(waiting)
    BY <2>2, <2>3, TailQueue
  <2>5. state[h] = "waiting"
    BY <2>1, <2>4 DEF IInv, InCall, Queued
  <2>6. \A r \in Request : state'[r] # "done" => state[r] # "done"
    BY <2>2, <2>3, <2>5
  <2>7. moves' = << >>
    BY <1>1, <1>2, <2>1 DEF Noted
  <2> QED BY <1>1, <1>2, <2>1, <2>6, <2>7, ShapeStays, NothingNoted DEF MoveInv
<1>7. CASE Capture \/ BeginStep \/ StepIsEmpty \/ BeginRun \/ Reserve \/ EndUpdate
  <2>1. /\ pc \notin {"accept", "regrow", "exhausted"} /\ pc' \notin {"accept", "regrow"}
        /\ UNCHANGED sched
    BY <1>7 DEF Capture, BeginStep, StepIsEmpty, BeginRun, Reserve, EndUpdate, ReturnFromStep
  <2>2. tree' = tree /\ state' = state
    BY <2>1 DEF sched, request
  <2>3. moves' = << >>
    BY <1>1, <1>2, <2>1 DEF Noted
  <2> QED BY <1>1, <1>2, <2>1, <2>2, <2>3, ShapeStays, NothingNoted DEF MoveInv
<1> QED BY <1>3, <1>4, <1>5, <1>6, <1>7 DEF Bookkeeping

\* A request that is done leaves its tree; nobody else's changes.
LEMMA AcceptsShape ==
    ASSUME IInv, MoveInv, FinishPath \/ PlainPath \/ SpecPath
    PROVE  Shaped'
<1>1. /\ pc = "accept" /\ todo # << >> /\ Shaped /\ tree' = tree
  BY DEF FinishPath, PlainPath, SpecPath, AcceptDone, AcceptPlain, AcceptSpec, InAccept, AcceptTokens,
         MoveInv
<1>2. CASE FinishPath
  <2>1. PICK h : h = Head(todo) /\ h \in Request
    BY <1>1, HeadReserved
  <2>2. /\ parents' = [parents EXCEPT ![h] = NoParents] /\ state' = [state EXCEPT ![h] = "done"]
    BY <1>2, <2>1 DEF FinishPath, AcceptDone, Finish
  <2>3. state \in [Request -> State]
    BY DEF IInv, TypeOK, SchedTypeOK
  <2>4. ASSUME NEW r \in Request, state'[r] # "done" PROVE Ordered(parents'[r], tree'[r])
    <3>1. r # h
      BY <2>2, <2>3, <2>4
    <3>2. state[r] # "done" /\ parents'[r] = parents[r]
      BY <2>2, <2>3, <2>4, <3>1
    <3> QED BY <1>1, <3>2 DEF Shaped
  <2> QED BY <1>1, <2>2, <2>4 DEF Shaped
<1>3. CASE PlainPath \/ SpecPath
  <2>1. parents' = parents /\ state' = state
    BY <1>3 DEF PlainPath, SpecPath, AcceptPath, AcceptPlain, AcceptSpec
  <2> QED BY <1>1, <2>1, ShapeStays
<1> QED BY <1>2, <1>3

\* The trees that are grown are ordered.
LEMMA DraftShape ==
    ASSUME IInv, MoveInv, DraftTrees
    PROVE  Shaped'
<1>1. /\ pc = "accept" /\ alive # << >> /\ state' = state /\ Shaped
  BY DEF DraftTrees, Draft, AcceptEnds, MoveInv
<1> DEFINE S == ToSet(alive)
           d == DraftDepth(Len(alive))
<1>3. Len(alive) \in Nat \ {0}
  BY <1>1 DEF IInv, TypeOK
<1>4. d \in Nat
  BY <1>3, DraftDepthType
<1>5. tree' = [r \in Request |-> IF r \in S THEN d * TopK ELSE tree[r]]
  BY DEF DraftTrees, Draft
<1>6. PICK p \in [S -> TreesOf(d)] :
          parents' = [r \in Request |-> IF r \in S THEN p[r] ELSE parents[r]]
  BY Zenon DEF DraftTrees
<1> HIDE DEF S, d
<1>7. ASSUME NEW r \in Request, state'[r] # "done" PROVE Ordered(parents'[r], tree'[r])
  <2>1. CASE r \in S
    <3>1. p[r] \in TreesOf(d) /\ parents'[r] = p[r] /\ tree'[r] = d * TopK
      BY <1>5, <1>6, <2>1
    <3> QED BY <1>4, <3>1, TreesOrdered
  <2>2. CASE r \notin S
    <3>1. parents'[r] = parents[r] /\ tree'[r] = tree[r] /\ state[r] # "done"
      BY <1>1, <1>5, <1>6, <1>7, <2>2
    <3> QED BY <1>1, <3>1 DEF Shaped
  <2> QED BY <2>1, <2>2
<1> QED BY <1>6, <1>7 DEF Shaped

\* A restarted request has no tree.
LEMMA RestartShape ==
    ASSUME IInv, MoveInv, RestartText
    PROVE  Shaped'
<1>1. /\ pc = "restart" /\ todo # << >> /\ Shaped /\ TypeOK /\ Locals /\ Queued
  BY DEF RestartText, RestartHead, MoveInv, IInv, InCall
<1>2. PICK h : h = Head(todo) /\ h \in Request /\ h \in Running
  BY <1>1, Visits
<1>3. /\ parents' = [parents EXCEPT ![h] = NoParents] /\ state' = [state EXCEPT ![h] = "waiting"]
      /\ tree' = [tree EXCEPT ![h] = NoTree]
  BY <1>2 DEF RestartText, RestartHead, Restart
<1>4. state \in [Request -> State] /\ tree \in [Request -> Nat] /\ state[h] # "done"
  BY <1>1, <1>2 DEF TypeOK, SchedTypeOK, Queued
<1>5. ASSUME NEW r \in Request, state'[r] # "done" PROVE Ordered(parents'[r], tree'[r])
  <2>1. CASE r = h
    <3>1. tree'[r] = NoTree /\ Ordered(parents[h], tree[h])
      BY <1>1, <1>2, <1>3, <1>4, <2>1 DEF Shaped
    <3>2. parents'[r] = NoParents
      BY <1>1, <1>2, <1>3, <2>1 DEF Shaped
    <3> QED BY <3>1, <3>2, NoParentsOrdered
  <2>2. CASE r # h
    <3>1. parents'[r] = parents[r] /\ tree'[r] = tree[r] /\ state[r] # "done"
      BY <1>3, <1>4, <1>5, <2>2
    <3> QED BY <1>1, <3>1 DEF Shaped
  <2> QED BY <2>1, <2>2
<1>6. DOMAIN parents' = Request
  BY <1>1, <1>3 DEF Shaped
<1> QED BY <1>5, <1>6 DEF Shaped

\* At first nobody has a tree and nothing is noted.
LEMMA InitMoves == CacheInit => MoveInv
<1> SUFFICES ASSUME CacheInit PROVE MoveInv
  OBVIOUS
<1>1. /\ tree = [r \in Request |-> NoTree] /\ parents = [r \in Request |-> NoParents]
      /\ pc \in {"capture", "idle"} /\ moves = << >>
  BY DEF CacheInit, Init, SchedInit, Nobody
<1>2. Shaped
  BY <1>1, NoParentsOrdered DEF Shaped
<1> QED BY <1>1, <1>2 DEF MoveInv, Noted

\* Every step keeps the trees ordered and the moves in order.
LEMMA StepMoves ==
    ASSUME IInv, MoveInv, [CacheNext]_<<vars, contents>>
    PROVE  MoveInv'
<1>0. Shaped /\ Noted
  BY DEF MoveInv
<1>1. CASE AddText
  <2>1. /\ pc = "idle" /\ pc' = "idle" /\ moves' = moves /\ parents' = parents /\ tree' = tree
        /\ state' = [state EXCEPT ![next_id] = "waiting"] /\ next_id < MaxRequests
    BY <1>1 DEF AddText, Add, AddRequest, step, local
  <2>2. state \in [Request -> State] /\ next_id \in Request /\ state[next_id] = "new"
    BY <2>1, SchedulerAssumption DEF IInv, InCall, TypeOK, SchedTypeOK, Queued, Request
  <2>3. \A r \in Request : state'[r] # "done" => state[r] # "done"
    BY <2>1, <2>2
  <2>4. moves' = << >>
    BY <1>0, <2>1 DEF Noted
  <2> QED BY <1>0, <2>1, <2>3, <2>4, ShapeStays, NothingNoted DEF MoveInv
<1>2. CASE RunForward
  <2>1. /\ pc = "reserve" /\ pc' = "accept" /\ moves' = moves /\ parents' = parents /\ tree' = tree
        /\ state' = state /\ blocks' = blocks
    BY <1>2 DEF RunForward, Forward, texts, sched, request, pool
  <2>2. moves' = << >>
    BY <1>0, <2>1 DEF Noted
  <2>3. FrontToBack(<< >>) /\ << >> \in Seq(Nat \X Nat) /\ DOMAIN << >> = {}
    BY DEF FrontToBack
  <2>4. Noted'
    BY <2>1, <2>2, <2>3 DEF Noted, Outside, FrontToBack
  <2> QED BY <1>0, <2>1, <2>4, ShapeStays DEF MoveInv
<1>3. CASE FinishPath \/ PlainPath \/ SpecPath
  BY <1>3, AcceptsNote, AcceptsShape DEF MoveInv
<1>4. CASE DraftTrees
  <2>1. moves' = << >> /\ pc' = "idle"
    BY <1>4 DEF DraftTrees, Draft, ReturnFromStep, LocalsDead
  <2> QED BY <1>4, <2>1, DraftShape, NothingNoted DEF MoveInv
<1>5. CASE EndWithoutDraft
  <2>1. /\ moves' = << >> /\ pc = "accept" /\ pc' = "idle" /\ parents' = parents /\ tree' = tree
        /\ state' = state
    BY <1>5 DEF EndWithoutDraft, EndStep, AcceptEnds, ReturnFromStep, LocalsDead, texts, sched, request
  <2> QED BY <1>0, <2>1, ShapeStays, NothingNoted DEF MoveInv
<1>6. CASE NewWeights
  <2>1. /\ moves' = moves /\ pc = "idle" /\ pc' = "restart" /\ parents' = parents /\ tree' = tree
        /\ state' = state
    BY <1>6 DEF NewWeights, UpdateWeights, texts, local, sched, request
  <2>2. moves' = << >>
    BY <1>0, <2>1 DEF Noted
  <2> QED BY <1>0, <2>1, <2>2, ShapeStays, NothingNoted DEF MoveInv
<1>7. CASE RestartText
  <2>1. pc = "restart" /\ pc' = "restart" /\ moves' = moves
    BY <1>7 DEF RestartText, RestartHead, local
  <2>2. moves' = << >>
    BY <1>0, <2>1 DEF Noted
  <2> QED BY <1>7, <2>1, <2>2, RestartShape, NothingNoted DEF MoveInv
<1>8. CASE Bookkeeping
  BY <1>8, BookkeepingMoves
<1>9. CASE UNCHANGED <<vars, contents>>
  <2>1. /\ pc' = pc /\ tree' = tree /\ state' = state /\ blocks' = blocks /\ todo' = todo
        /\ moves' = moves /\ parents' = parents
    BY <1>9 DEF vars, step, pool, sched, request, contents, texts, local
  <2>2. Unvisited' = Unvisited
    BY <2>1 DEF Unvisited
  <2> QED BY <1>0, <2>1, <2>2 DEF MoveInv, Shaped, Noted, FrontToBack, Outside, Beside
<1> QED BY <1>1, <1>2, <1>3, <1>4, <1>5, <1>6, <1>7, <1>8, <1>9 DEF CacheNext

\* The trees and the moves of a run.
LEMMA MovesInvariant == CacheSpec => [](IInv /\ MoveInv)
<1>1. CacheSpec => []IInv
  BY CacheImplementsEngine, Invariant, PTL
<1>2. CacheInit => MoveInv
  BY InitMoves
<1>3. IInv /\ MoveInv /\ [CacheNext]_<<vars, contents>> => MoveInv'
  BY StepMoves
<1> QED BY <1>1, <1>2, <1>3, PTL DEF CacheSpec

\* Compaction may run its moves front to back or all at once: no slot is written by two, and
\* none is read after another has written it, though requests finish, and their blocks are
\* taken by others, while the moves are noted. (engine.py _accept, kv/cache.py move)
THEOREM MovesOrdered == CacheSpec => []MovesAreOrderly
<1>1. MoveInv => MovesAreOrderly
  BY DEF MoveInv, Noted, FrontToBack, MovesAreOrderly, AcceptEnds
<1>2. CacheSpec => [](IInv /\ MoveInv)
  BY MovesInvariant
<1> QED BY <1>1, <1>2, PTL
----------------------------------------------------------------------------
(***************************************************************************)
(* The drafter's trees.                                                    *)
(***************************************************************************)
\* Every node of a level after the first hangs off one of the level before.
Leveled(p) ==
    \A i \in DOMAIN p : IF i < TopK THEN p[i] = Root
                        ELSE p[i] \in Nat /\ p[i] \div TopK = (i \div TopK) - 1

\* A path has as many nodes as levels.
LEMMA PathLength ==
    ASSUME NEW n \in Nat, NEW p, Ordered(p, n), Leveled(p), NEW i \in 0 .. (n - 1)
    PROVE  Len(Ancestors(p, i)) = (i \div TopK) + 1
<1>0. TopK \in Nat \ {0}
  BY EngineAssumption
<1>1. p \in [0 .. (n - 1) -> Root .. (n - 1)] /\ \A j \in 0 .. (n - 1) : p[j] < j
  BY DEF Ordered
<1>2. /\ Ancestors(p, Root) = << >>
      /\ \A j \in 0 .. (n - 1) : Ancestors(p, j) = Append(Ancestors(p, p[j]), j)
  BY PathRecursion
<1> DEFINE Long(j) == Len(Ancestors(p, j)) = (j \div TopK) + 1
           G == {m \in 0 .. n : \A j \in 0 .. (m - 1) : Long(j)}
<1>3. 0 \in G
  OBVIOUS
<1>4. ASSUME NEW m \in 0 .. (n - 1), m \in G PROVE m + 1 \in G
  <2>1. p[m] \in Root .. (m - 1) /\ m \in 0 .. (n - 1) /\ m \in Nat
    BY <1>1 DEF Root
  <2>2. Ancestors(p, m) = Append(Ancestors(p, p[m]), m)
    BY <1>2, <2>1
  <2>3. Long(m)
    <3>1. CASE m < TopK
      <4>1. p[m] = Root
        BY <1>1, <2>1, <3>1 DEF Leveled
      <4>2. Len(Append(<< >>, m)) = 1
        OBVIOUS
      <4>3. m \div TopK = 0
        BY <1>0, <2>1, <3>1
      <4> QED BY <1>2, <2>2, <4>1, <4>2, <4>3
    <3>2. CASE ~(m < TopK)
      <4>1. p[m] \in 0 .. (m - 1) /\ p[m] \div TopK = (m \div TopK) - 1
        BY <1>1, <2>1, <3>2 DEF Leveled, Root
      <4>2. PICK b : b = Ancestors(p, p[m])
        OBVIOUS
      <4>3. Climbs(p, n, p[m], b)
        <5>1. p[m] \in 0 .. (n - 1)
          BY <2>1, <4>1
        <5> QED BY <4>2, <5>1, PathClimbs
      <4>4. b \in Seq(0 .. (n - 1)) /\ Len(b) = (p[m] \div TopK) + 1
        BY <1>4, <4>1, <4>2, <4>3 DEF Climbs
      <4>5. Len(Append(b, m)) = Len(b) + 1
        BY <2>1, <4>4
      <4>6. m \div TopK \in Int
        BY <1>0, <2>1
      <4> QED BY <2>2, <4>1, <4>2, <4>4, <4>5, <4>6
    <3> QED BY <3>1, <3>2
  <2>4. ASSUME NEW j \in 0 .. ((m + 1) - 1) PROVE Long(j)
    <3>1. CASE j = m
      BY <2>3, <3>1
    <3>2. CASE j # m
      <4>1. j \in 0 .. (m - 1)
        BY <2>1, <3>2
      <4> QED BY <1>4, <4>1
    <3> QED BY <3>1, <3>2
  <2> HIDE DEF Long
  <2> QED BY <2>1, <2>4
<1>5. \A k \in 0 .. n : k \in G
  <2> HIDE DEF G
  <2> QED BY <1>3, <1>4, Induct
<1>6. n \in G
  BY <1>5
<1> QED BY <1>6

\* A tree grows level by level.
LEMMA TreesLeveled ==
    ASSUME NEW d \in Nat, NEW p \in TreesOf(d)
    PROVE  Leveled(p)
<1>1. TopK \in Nat \ {0}
  BY EngineAssumption
<1>2. PICK n \in Nat : n = d * TopK
  BY <1>1
<1>3. CASE TopK = 1
  <2>1. p = [i \in 0 .. (d - 1) |-> i - 1]
    BY <1>3 DEF TreesOf, Chain
  <2>2. ASSUME NEW i \in 0 .. (d - 1)
        PROVE  IF i < TopK THEN p[i] = Root
               ELSE p[i] \in Nat /\ p[i] \div TopK = (i \div TopK) - 1
    <3>1. p[i] = i - 1 /\ i \in Nat
      BY <2>1
    <3>2. CASE i < 1
      BY <1>3, <3>1, <3>2 DEF Root
    <3>3. CASE ~(i < 1)
      <4>1. i - 1 \in Nat /\ (i - 1) \div 1 = (i \div 1) - 1
        BY <3>1, <3>3
      <4> QED BY <1>3, <3>1, <3>3, <4>1
    <3> QED BY <3>2, <3>3
  <2> QED BY <2>1, <2>2 DEF Leveled
<1>4. CASE TopK # 1
  <2>1. PICK pl \in [TopK .. (n - 1) -> 0 .. (TopK - 1)] :
            p = [i \in 0 .. (n - 1) |->
                     IF i < TopK THEN -1 ELSE ((i \div TopK) - 1) * TopK + pl[i]]
    BY <1>2, <1>4 DEF TreesOf
  <2>2. ASSUME NEW i \in 0 .. (n - 1)
        PROVE  IF i < TopK THEN p[i] = Root
               ELSE p[i] \in Nat /\ p[i] \div TopK = (i \div TopK) - 1
    <3>1. CASE i < TopK
      BY <1>2, <2>1, <2>2, <3>1 DEF Root
    <3>2. CASE ~(i < TopK)
      <4>1. i \in TopK .. (n - 1) /\ i \in Nat
        BY <1>1, <1>2, <3>2
      <4>2. PICK x \in 0 .. (TopK - 1) : x = pl[i]
        BY <2>1, <4>1
      <4>3. PICK q \in Int : q = i \div TopK /\ TopK * q <= i /\ i < TopK * q + TopK
        BY <1>1, <4>1, FloorDiv
      <4>4. q >= 1
        <5> SUFFICES ASSUME q < 1 PROVE FALSE
          BY <4>3
        <5>1. CASE q = 0
          BY <1>1, <3>2, <4>1, <4>3, <5>1
        <5>2. CASE q < 0
          <6>1. TopK * q + TopK <= TopK * 0
            BY <1>1, <4>3, <5>2, MulStep
          <6> QED BY <1>1, <4>1, <4>3, <6>1
        <5> QED BY <4>3, <5>1, <5>2
      <4>5. PICK e \in Nat : e = q - 1
        BY <4>3, <4>4
      <4>6. PICK y : y = e * TopK + x
        OBVIOUS
      <4>7. p[i] = y
        <5>1. p[i] = ((i \div TopK) - 1) * TopK + pl[i]
          BY <1>1, <2>1, <2>2, <3>2, <4>1
        <5>2. (i \div TopK) - 1 = e
          BY <4>3, <4>5
        <5> QED BY <4>2, <4>6, <5>1, <5>2
      <4>8. IsCell(e + 1, TopK, e + 1, x, y, 0)
        <5>1. PICK R \in Nat : R = e + 1
          BY <4>5
        <5>2. R \in 1 .. R /\ 0 \in Nat /\ y = (R - 1) * TopK + x
          BY <4>5, <4>6, <5>1
        <5> QED BY <1>1, <4>2, <5>1, <5>2, PlaceIn
      <4>9. y \in Nat /\ y \div TopK = e
        BY <4>5, <4>8 DEF IsCell
      <4> QED BY <3>2, <4>3, <4>5, <4>7, <4>9
    <3> QED BY <1>1, <3>1, <3>2
  <2> QED BY <1>2, <2>1, <2>2 DEF Leveled
<1> QED BY <1>3, <1>4

\* In a chain the path of node i is everything up to i.
LEMMA ChainPath ==
    ASSUME TopK = 1, NEW n \in Nat, NEW p, Ordered(p, n), Leveled(p), NEW i \in 0 .. (n - 1)
    PROVE  \A j \in 0 .. i : \E k \in DOMAIN Ancestors(p, i) : Ancestors(p, i)[k] = j
<1>1. PICK a : a = Ancestors(p, i)
  OBVIOUS
<1>2. Climbs(p, n, i, a) /\ Len(a) = i + 1
  <2>1. Len(a) = (i \div TopK) + 1
    BY <1>1, PathLength
  <2>2. i \in Nat /\ i \div 1 = i
    OBVIOUS
  <2> QED BY <1>1, <2>1, <2>2, PathClimbs
<1>3. /\ a \in Seq(0 .. (n - 1)) /\ a[i + 1] = i
      /\ \A k \in 2 .. (i + 1) : p[a[k]] = a[k - 1]
  BY <1>2 DEF Climbs
<1>4. DOMAIN p = 0 .. (n - 1)
  BY DEF Ordered
<1> DEFINE G == {m \in 0 .. i : a[i + 1 - m] = i - m}
<1>5. 0 \in G
  BY <1>3
<1>6. ASSUME NEW m \in 0 .. (i - 1), m \in G PROVE m + 1 \in G
  <2>1. /\ m + 1 \in 0 .. i /\ i + 1 - m \in 2 .. (i + 1) /\ (i + 1 - m) - 1 = i + 1 - (m + 1)
        /\ i - m \in 1 .. (n - 1) /\ i - (m + 1) = (i - m) - 1
    OBVIOUS
  <2>2. a[i + 1 - m] = i - m /\ p[a[i + 1 - m]] = a[i + 1 - (m + 1)]
    BY <1>3, <1>6, <2>1
  <2>3. PICK x : x = i - m
    OBVIOUS
  <2>4. p[x] = x - 1
    <3>1. x \in DOMAIN p /\ ~(x < 1) /\ x \in Nat
      BY <1>4, <2>1, <2>3
    <3>2. p[x] \in Nat /\ p[x] \div 1 = (x \div 1) - 1
      BY <3>1 DEF Leveled
    <3>3. \A y \in Nat : y \div 1 = y
      OBVIOUS
    <3> QED BY <3>1, <3>2, <3>3
  <2> QED BY <2>1, <2>2, <2>3, <2>4
<1>7. \A m \in 0 .. i : m \in G
  <2>1. i \in Nat
    OBVIOUS
  <2> HIDE DEF G
  <2> QED BY <1>5, <1>6, <2>1, Induct
<1>8. ASSUME NEW j \in 0 .. i PROVE \E k \in DOMAIN a : a[k] = j
  <2>1. i - j \in 0 .. i /\ j + 1 \in 1 .. (i + 1) /\ i + 1 - (i - j) = j + 1 /\ i - (i - j) = j
    OBVIOUS
  <2>2. a[j + 1] = j
    BY <1>7, <2>1
  <2>3. j + 1 \in DOMAIN a
    BY <1>2, <1>3, <2>1
  <2> QED BY <2>2, <2>3
<1> QED BY <1>1, <1>8

\* The length of a path is at most the depth the masks are chased to.
LEMMA PathFits ==
    ASSUME NEW n \in Nat, n <= Depth * TopK, NEW p, Ordered(p, n), Leveled(p),
           NEW i \in 0 .. (n - 1)
    PROVE  Len(Ancestors(p, i)) <= Depth
<1>1. TopK \in Nat \ {0} /\ Depth \in Nat
  BY EngineAssumption
<1>2. PICK q \in Int : q = i \div TopK /\ TopK * q <= i /\ i < TopK * q + TopK
  BY <1>1, FloorDiv
<1>3. q < Depth
  <2> SUFFICES ASSUME Depth <= q PROVE FALSE
    BY <1>1
  <2>1. CASE Depth = q
    BY <1>1, <1>2, <2>1
  <2>2. CASE Depth < q
    <3>1. TopK * Depth + TopK <= TopK * q
      BY <1>1, <1>2, <2>2, MulStep
    <3>2. TopK * Depth = Depth * TopK /\ Depth * TopK \in Nat
      BY <1>1
    <3> QED BY <1>1, <1>2, <3>1, <3>2
  <2> QED BY <1>1, <1>2, <2>1, <2>2
<1>4. Len(Ancestors(p, i)) = q + 1
  BY <1>2, PathLength
<1> QED BY <1>1, <1>3, <1>4
----------------------------------------------------------------------------
(***************************************************************************)
(* The rows of a verify.                                                   *)
(***************************************************************************)
\* Row j of q unmasked rows over k positions sees everything up to its own.
SeesUpTo(q, k, decode, j) == Attends(Backend, q, k, Unmasked, decode)[j] = 0 .. (k - q + j - 1)

\* Both backends are causal from the last row back: the prompt, one row, rows appended.
LEMMA Causal ==
    ASSUME NEW q \in Nat \ {0}, NEW k \in Nat, q <= k, NEW decode \in BOOLEAN, decode => q = 1,
           NEW j \in 1 .. q
    PROVE  SeesUpTo(q, k, decode, j)
<1>1. PICK e \in Int : e = k - q + j - 1
  OBVIOUS
<1>2. Everything(q, k)[j] = 0 .. (k - 1) /\ TopLeft(q, k)[j] = 0 .. (j - 1)
  BY DEF Everything, TopLeft
<1>3. CausalMask(q, k)[j] = 0 .. e
  <2>1. CausalMask(q, k)[j] = {c \in 0 .. (k - 1) : c <= k - q + j - 1}
    BY DEF CausalMask
  <2>2. \A c \in Int : c \in 0 .. (k - 1) /\ c <= k - q + j - 1 <=> c \in 0 .. e
    BY <1>1
  <2>3. {c \in 0 .. (k - 1) : c <= k - q + j - 1} = 0 .. e
    BY <2>2
  <2> QED BY <2>1, <2>3
<1>4. q = 1 => e = k - 1
  BY <1>1
<1>5. q = k => e = j - 1
  BY <1>1
<1>6. Sdpa(q, k, Unmasked)[j] = 0 .. e
  <2>1. CASE q = 1
    BY <1>2, <1>4, <2>1 DEF Sdpa
  <2>2. CASE q = k /\ q # 1
    BY <1>2, <1>5, <2>2 DEF Sdpa
  <2>3. CASE q # k /\ q # 1
    BY <1>3, <2>3 DEF Sdpa
  <2> QED BY <2>1, <2>2, <2>3
<1>7. FlashInfer(q, k, Unmasked, decode)[j] = 0 .. e
  <2>1. CASE decode
    BY <1>2, <1>4, <2>1 DEF FlashInfer
  <2>2. CASE ~decode
    BY <1>3, <2>2 DEF FlashInfer
  <2> QED BY <2>1, <2>2
<1> QED BY <1>1, <1>6, <1>7 DEF Attends, SeesUpTo

\* Rows that bring a mask see what it says.
LEMMA Masked ==
    ASSUME NEW q, NEW k, NEW mask, mask # Unmasked, NEW decode
    PROVE  Attends(Backend, q, k, mask, decode) = mask
<1>1. Sdpa(q, k, mask) = mask
  BY DEF Sdpa
<1>2. FlashInfer(q, k, mask, decode) = mask
  BY DEF FlashInfer
<1> QED BY <1>1, <1>2 DEF Attends

\* What row k of r stands for: the prompt so far, the text, or the text and a path.
RowOf(r, k) ==
    IF r \in Admitted THEN Opening(Text(r), k)
    ELSE IF k = 1 THEN Text(r)
    ELSE Text(r) \o Words(parents[r], k - 2)

RowsOf(r) == [k \in 1 .. Queries(r) |-> RowOf(r, k)]

\* The positions row k of r attends besides its own.
Others(r) == [k \in 1 .. Queries(r) |-> Attended(r)[k] \ {VerifyRows(r)[k].slot}]

\* A request whose tree is verified: a prompt and output of one token more than is committed.
Verifiable(r) ==
    /\ r \notin Admitted /\ r \in Batch
    /\ committed[r] \in Nat /\ tree[r] \in Nat /\ tree[r] <= Depth * TopK
    /\ Ordered(parents[r], tree[r]) /\ Leveled(parents[r])
    /\ prompt_ids[r] \in Seq(Nat) /\ out_tokens[r] \in Seq(Nat) /\ out_tokens[r] # << >>
    /\ asked[r] \in 0 .. Len(prompt_ids[r])
    /\ Text(r) \in Seq(Nat) /\ Len(Text(r)) = committed[r] + 1
    /\ Last(out_tokens[r]) = Text(r)[committed[r] + 1]

\* Row k of a verify: the root, or node k - 2.
VerifiesRow(r, k) ==
    /\ VerifyRows(r)[k].slot = committed[r] + k - 1
    /\ k = 1 => VerifyRows(r)[k].tok = Last(out_tokens[r]) /\ VerifyRows(r)[k].pos = committed[r]
    /\ k # 1 => /\ VerifyRows(r)[k].tok = NodeToken(parents[r], k - 2)
                /\ VerifyRows(r)[k].pos = committed[r] + 1 + ((k - 2) \div TopK)

\* The root comes first, the nodes behind it.
LEMMA RowsInTurn ==
    ASSUME NEW r, Verifiable(r)
    PROVE  /\ Len(VerifyRows(r)) = tree[r] + 1
           /\ \A k \in 1 .. (tree[r] + 1) : VerifiesRow(r, k)
<1>1. PICK n \in Nat : n = tree[r]
  BY DEF Verifiable
<1>2. PICK a, b, c : a = RootRow(r) /\ b = NodeRows(r) /\ c = VerifyRows(r)
  OBVIOUS
<1>3. c = <<a>> \o b
  BY <1>2 DEF VerifyRows, Verifiable, Admitted
<1>4. b = [k \in 1 .. n |-> [tok  |-> NodeToken(parents[r], k - 1),
                             pos  |-> committed[r] + 1 + ((k - 1) \div TopK),
                             slot |-> committed[r] + k]]
  BY <1>1, <1>2 DEF NodeRows
<1>5. PICK S : S = {a} \cup {b[k] : k \in 1 .. n}
  OBVIOUS
<1>6. <<a>> \in Seq(S) /\ Len(<<a>>) = 1 /\ <<a>>[1] = a
  BY <1>5
<1>7. b \in Seq(S) /\ Len(b) = n
  <2>1. b = [k \in 1 .. n |-> b[k]]
    BY <1>4
  <2>2. \A k \in 1 .. n : b[k] \in S
    BY <1>5
  <2>3. b \in [1 .. n -> S]
    BY <2>1, <2>2
  <2> QED BY <1>1, <2>3
<1>8. Len(c) = n + 1 /\ c[1] = a /\ \A k \in 2 .. (n + 1) : c[k] = b[k - 1]
  <2>1. Len(c) = Len(<<a>>) + Len(b)
        /\ \A i \in 1 .. Len(<<a>>) + Len(b) :
               c[i] = IF i <= Len(<<a>>) THEN <<a>>[i] ELSE b[i - Len(<<a>>)]
    BY <1>3, <1>6, <1>7, ConcatProperties
  <2>2. Len(c) = 1 + n /\ \A i \in 1 .. 1 + n : c[i] = IF i <= 1 THEN <<a>>[i] ELSE b[i - 1]
    BY <1>6, <1>7, <2>1
  <2> QED BY <1>1, <1>6, <2>2
<1>9. ASSUME NEW k \in 1 .. (n + 1) PROVE VerifiesRow(r, k)
  <2>1. CASE k = 1
    <3>1. committed[r] + k - 1 = committed[r]
      BY <2>1 DEF Verifiable
    <3> QED BY <1>2, <1>8, <2>1, <3>1 DEF VerifiesRow, RootRow
  <2>2. CASE k # 1
    <3>1. k \in 2 .. (n + 1) /\ k - 1 \in 1 .. n /\ (k - 1) - 1 = k - 2
      BY <1>1, <2>2
    <3>2. committed[r] + (k - 1) = committed[r] + k - 1
      BY <3>1 DEF Verifiable
    <3> QED BY <1>2, <1>4, <1>8, <2>2, <3>1, <3>2 DEF VerifiesRow
  <2> QED BY <2>1, <2>2
<1> QED BY <1>1, <1>2, <1>8, <1>9

\* Besides itself the root attends what is committed, a node the root and its path too.
AttendsPath(r, k) ==
    Others(r)[k] = IF k = 1 THEN 0 .. (committed[r] - 1)
                   ELSE (0 .. committed[r]) \cup NodesAbove(parents[r], committed[r] + 1, k - 2)

\* A chain's rows are causal, and the path of a node is all nodes before it.
LEMMA ChainAttends ==
    ASSUME NEW r, Verifiable(r), TopK = 1, NEW k \in 1 .. (tree[r] + 1)
    PROVE  AttendsPath(r, k)
<1>1. PICK n, L : n \in Nat /\ n = tree[r] /\ L \in Nat /\ L = committed[r]
  BY DEF Verifiable
<1>2. VerifyRows(r)[k].slot = L + k - 1
  BY <1>1, RowsInTurn DEF VerifiesRow
<1>3. Queries(r) = n + 1 /\ Cached(r) = L + 1 + n /\ Together(r) = batch /\ VerifyMask(r) = Unmasked
  BY <1>1 DEF Verifiable, Queries, Cached, Together, VerifyMask, Admitted
<1>4. PICK decode \in BOOLEAN : decode = \A s \in ToSet(Together(r)) : Queries(s) = 1
  OBVIOUS
<1>5. decode => n + 1 = 1
  BY <1>3, <1>4 DEF Verifiable, Batch
<1>6. Attended(r)[k] = 0 .. (L + k - 1)
  <2>1. n + 1 \in Nat \ {0} /\ L + 1 + n \in Nat /\ n + 1 <= L + 1 + n /\ k \in 1 .. (n + 1)
    BY <1>1
  <2>2. SeesUpTo(n + 1, L + 1 + n, decode, k)
    BY <1>5, <2>1, Causal
  <2>3. (L + 1 + n) - (n + 1) + k - 1 = L + k - 1
    BY <1>1
  <2> QED BY <1>3, <1>4, <2>2, <2>3 DEF Attended, SeesUpTo
<1>7. Others(r)[k] = 0 .. (L + k - 2)
  <2>1. Others(r)[k] = (0 .. (L + k - 1)) \ {L + k - 1}
    BY <1>1, <1>2, <1>3, <1>6 DEF Others
  <2>2. k \in Nat /\ (0 .. (L + k - 1)) \ {L + k - 1} = 0 .. (L + k - 2)
    BY <1>1
  <2> QED BY <2>1, <2>2
<1>8. CASE k = 1
  BY <1>1, <1>7, <1>8 DEF AttendsPath
<1>9. CASE k # 1
  <2>1. PICK i \in 0 .. (n - 1) : i = k - 2 /\ L + k - 2 = L + i
    <3>1. k - 2 \in 0 .. (n - 1) /\ L + k - 2 = L + (k - 2)
      BY <1>1, <1>9
    <3> QED BY <3>1
  <2>2. PICK p, a : p = parents[r] /\ a = Ancestors(p, i)
    OBVIOUS
  <2>3. Ordered(p, n) /\ Leveled(p) /\ i \in DOMAIN p
    BY <1>1, <2>2 DEF Verifiable, Ordered
  <2>5. ToSet(a) \subseteq 0 .. i
    BY <1>1, <2>2, <2>3, PathBelow
  <2>6. ASSUME NEW x \in 0 .. i PROVE x \in ToSet(a)
    <3>1. \A j \in 0 .. i : \E h \in DOMAIN a : a[h] = j
      BY <1>1, <2>2, <2>3, ChainPath
    <3> QED BY <3>1 DEF ToSet
  <2>7. ToSet(a) \ {i} = 0 .. (i - 1)
    BY <2>5, <2>6
  <2>8. NodesAbove(p, L + 1, i) = {L + 1 + x : x \in 0 .. (i - 1)}
    BY <2>2, <2>7 DEF NodesAbove
  <2>9. (0 .. L) \cup {L + 1 + x : x \in 0 .. (i - 1)} = 0 .. (L + i)
    <3>1. ASSUME NEW q \in 0 .. (L + i), q \notin 0 .. L PROVE \E x \in 0 .. (i - 1) : q = L + 1 + x
      <4>1. q - (L + 1) \in 0 .. (i - 1) /\ q = L + 1 + (q - (L + 1))
        BY <1>1, <3>1
      <4> QED BY <4>1
    <3>2. ASSUME NEW x \in 0 .. (i - 1) PROVE L + 1 + x \in 0 .. (L + i)
      BY <1>1
    <3>3. 0 .. L \subseteq 0 .. (L + i)
      BY <1>1
    <3> QED BY <3>1, <3>2, <3>3
  <2> QED BY <1>1, <1>7, <1>9, <2>1, <2>2, <2>8, <2>9 DEF AttendsPath
<1> QED BY <1>8, <1>9

\* A tree's rows bring the mask of their paths.
LEMMA TreeAttends ==
    ASSUME NEW r, Verifiable(r), TopK # 1, NEW k \in 1 .. (tree[r] + 1)
    PROVE  AttendsPath(r, k)
<1>1. PICK n, L : n \in Nat /\ n = tree[r] /\ L \in Nat /\ L = committed[r]
  BY DEF Verifiable
<1>2. VerifyRows(r)[k].slot = L + k - 1
  BY <1>1, RowsInTurn DEF VerifiesRow
<1>3. PICK p, see : p = parents[r] /\ see = AncestorMask(p, Depth)
  OBVIOUS
<1>4. PICK mask : mask = VerifyMask(r)
  OBVIOUS
<1>5. mask = [j \in 1 .. (1 + n) |->
                 (0 .. L) \cup IF j = 1 THEN {} ELSE {L + 1 + i : i \in see[j - 2]}]
  BY <1>1, <1>3, <1>4 DEF VerifyMask, Verifiable, Admitted
<1>6. mask # Unmasked
  <2>1. 1 \in DOMAIN mask
    BY <1>1, <1>5
  <2>2. DOMAIN Unmasked = {}
    BY DEF Unmasked
  <2> QED BY <2>1, <2>2
<1>7. Attended(r) = mask
  <2>1. PICK decode : decode = \A s \in ToSet(Together(r)) : Queries(s) = 1
    OBVIOUS
  <2>2. Attended(r) = Attends(Backend, Queries(r), Cached(r), mask, decode)
    BY <1>4, <2>1 DEF Attended
  <2> QED BY <1>6, <2>2, Masked
<1>8. k \in 1 .. (1 + n) /\ k \in 1 .. Queries(r)
  BY <1>1 DEF Queries, Verifiable, Admitted
<1>9. Others(r)[k] = ((0 .. L) \cup IF k = 1 THEN {} ELSE {L + 1 + i : i \in see[k - 2]}) \ {L + k - 1}
  BY <1>2, <1>5, <1>7, <1>8 DEF Others
<1>10. CASE k = 1
  <2>1. (0 .. L) \ {L + k - 1} = 0 .. (L - 1)
    BY <1>1, <1>10
  <2> QED BY <1>1, <1>9, <1>10, <2>1 DEF AttendsPath
<1>11. CASE k # 1
  <2>1. PICK i \in 0 .. (n - 1) : i = k - 2 /\ L + k - 1 = L + 1 + i
    <3>1. k - 2 \in 0 .. (n - 1) /\ L + k - 1 = L + 1 + (k - 2)
      BY <1>1, <1>11
    <3> QED BY <3>1
  <2>2. Ordered(p, n) /\ Leveled(p) /\ n <= Depth * TopK
    BY <1>1, <1>3 DEF Verifiable
  <2>3. see[i] = ToSet(Ancestors(p, i))
    <3>1. Len(Ancestors(p, i)) <= Depth /\ Depth \in Nat
      BY <1>1, <2>2, PathFits, EngineAssumption
    <3>2. SeesPath(p, Depth, i)
      BY <1>1, <2>2, <3>1, MaskIsPath
    <3> QED BY <1>3, <3>2 DEF SeesPath
  <2>4. ToSet(Ancestors(p, i)) \subseteq 0 .. (n - 1)
    <3>1. ToSet(Ancestors(p, i)) \subseteq 0 .. i
      BY <1>1, <2>2, PathBelow
    <3> QED BY <1>1, <3>1
  <2>5. PICK A : A = ToSet(Ancestors(p, i)) /\ A \subseteq 0 .. (n - 1)
    BY <2>4
  <2>6. ((0 .. L) \cup {L + 1 + x : x \in A}) \ {L + 1 + i} = (0 .. L) \cup {L + 1 + x : x \in A \ {i}}
    <3>1. \A x \in A : L + 1 + x = L + 1 + i <=> x = i
      BY <1>1, <2>5
    <3>2. L + 1 + i \notin 0 .. L
      BY <1>1
    <3> QED BY <3>1, <3>2
  <2> QED BY <1>1, <1>3, <1>9, <1>11, <2>1, <2>3, <2>5, <2>6 DEF AttendsPath, NodesAbove
<1> QED BY <1>10, <1>11

\* The verify's rows leave the text and every node's path.
LEMMA VerifyHolds ==
    ASSUME NEW r, Verifiable(r), NEW e, 0 .. (committed[r] + tree[r]) \subseteq DOMAIN e,
           DOMAIN e \subseteq Int, Begins(e, Text(r), committed[r]),
           NEW F, F = Filled(e, committed[r], RowsOf(r), tree[r] + 1)
    PROVE  /\ Begins(F, Text(r), committed[r] + 1)
           /\ Branches(F, Text(r), parents[r], committed[r] + 1, tree[r])
<1>1. PICK n, L : n \in Nat /\ n = tree[r] /\ L \in Nat /\ L = committed[r]
  BY DEF Verifiable
<1>2. PICK t : t = Text(r) /\ t \in Seq(Nat) /\ Len(t) = L + 1
  BY <1>1 DEF Verifiable
<1>3. FilledAt(e, L, RowsOf(r), n + 1)
  <2>1. 0 .. (L + (n + 1) - 1) \subseteq DOMAIN e
    BY <1>1
  <2> QED BY SMTT(30), <1>1, <2>1, Filling
<1>4. /\ \A k \in 1 .. (n + 1) : F[L + k - 1] = RowOf(r, k)
      /\ \A q \in 0 .. (L - 1) : F[q] = e[q]
  <2>1. \A k \in 1 .. (n + 1) : RowsOf(r)[k] = RowOf(r, k)
    BY <1>1 DEF RowsOf, Queries, Verifiable, Admitted
  <2>2. \A q \in 0 .. (L - 1) : q \in DOMAIN e /\ q < L
    BY <1>1
  <2> QED BY <1>1, <1>3, <2>1, <2>2 DEF FilledAt
<1>5. ASSUME NEW k \in 1 .. (L + 1) PROVE F[k - 1] = Opening(t, k)
  <2>1. CASE k = L + 1
    <3>1. 1 \in 1 .. (n + 1) /\ L + 1 - 1 = k - 1
      BY <1>1, <2>1
    <3>2. F[L + 1 - 1] = RowOf(r, 1)
      BY <1>4, <3>1
    <3>3. RowOf(r, 1) = t
      BY <1>2 DEF RowOf, Verifiable
    <3>4. Opening(t, L + 1) = t
      BY <1>2, OpeningsJoined
    <3> QED BY <2>1, <3>1, <3>2, <3>3, <3>4
  <2>2. CASE k # L + 1
    <3>1. k \in 1 .. L /\ k - 1 \in 0 .. (L - 1)
      BY <1>1, <2>2
    <3>2. e[k - 1] = Opening(t, k)
      BY <1>1, <1>2, <3>1 DEF Begins
    <3> QED BY <1>4, <3>1, <3>2
  <2> QED BY <2>1, <2>2
<1>6. ASSUME NEW j \in 0 .. (n - 1) PROVE F[L + 1 + j] = t \o Words(parents[r], j)
  <2>1. PICK k \in 1 .. (n + 1) : k = j + 2 /\ L + k - 1 = L + 1 + j /\ k # 1 /\ k - 2 = j
    <3>1. j + 2 \in 1 .. (n + 1) /\ L + (j + 2) - 1 = L + 1 + j /\ (j + 2) # 1 /\ (j + 2) - 2 = j
      BY <1>1
    <3> QED BY <3>1
  <2>2. RowOf(r, k) = t \o Words(parents[r], j)
    BY <1>2, <2>1 DEF RowOf, Verifiable
  <2> QED BY <1>4, <2>1, <2>2
<1> QED BY <1>1, <1>2, <1>5, <1>6 DEF Begins, Branches

\* So every row of the verify is given what it stands for.
LEMMA VerifyRight ==
    ASSUME NEW r, Verifiable(r), NEW e, 0 .. (committed[r] + tree[r]) \subseteq DOMAIN e,
           DOMAIN e \subseteq Int, Begins(e, Text(r), committed[r]),
           NEW k \in 1 .. (tree[r] + 1)
    PROVE  TargetRight(e, committed[r], RowsOf(r), tree[r] + 1, VerifyRows(r), Others(r), k)
<1>1. PICK n, L : n \in Nat /\ n = tree[r] /\ L \in Nat /\ L = committed[r]
  BY DEF Verifiable
<1>2. PICK t : t = Text(r) /\ t \in Seq(Nat) /\ Len(t) = L + 1
  BY <1>1 DEF Verifiable
<1>3. PICK p : p = parents[r] /\ Ordered(p, n) /\ Leveled(p)
  BY <1>1 DEF Verifiable
<1>4. PICK F : F = Filled(e, L, RowsOf(r), n + 1)
  OBVIOUS
<1>5. Begins(F, t, L + 1) /\ Branches(F, t, p, L + 1, n)
  BY <1>1, <1>2, <1>3, <1>4, VerifyHolds
<1>6. AttendsPath(r, k)
  BY ChainAttends, TreeAttends
<1>7. VerifiesRow(r, k)
  BY RowsInTurn
<1>8. RowsOf(r)[k] = RowOf(r, k)
  BY <1>1 DEF RowsOf, Queries, Verifiable, Admitted
<1>9. CASE k = 1
  <2>1. Others(r)[k] = 0 .. (L - 1)
    BY <1>1, <1>6, <1>9 DEF AttendsPath
  <2>2. /\ VerifyRows(r)[k].slot = L + k - 1 /\ VerifyRows(r)[k].pos = L
        /\ VerifyRows(r)[k].tok = t[L + 1]
    BY <1>1, <1>2, <1>7, <1>9 DEF VerifiesRow, Verifiable
  <2>3. PICK ctx : ctx = Opening(t, L)
    OBVIOUS
  <2>4. ctx \in Seq(Nat) /\ Len(ctx) = L
    <3>1. L \in 0 .. Len(t)
      BY <1>1, <1>2
    <3> QED BY <1>2, <2>3, <3>1, Openings
  <2>5. t = Append(ctx, t[L + 1])
    <3>1. \A j \in 1 .. Len(t) : Opening(t, j) = Append(Opening(t, j - 1), t[j])
      BY <1>2, OpeningsJoined
    <3>2. L + 1 \in 1 .. Len(t) /\ (L + 1) - 1 = L
      BY <1>1, <1>2
    <3>3. Opening(t, L + 1) = t
      BY <1>2, OpeningsJoined
    <3>4. Opening(t, L + 1) = Append(Opening(t, L), t[L + 1])
      BY <3>1, <3>2
    <3> QED BY <2>3, <3>3, <3>4
  <2>6. Begins(F, ctx, L)
    <3>1. ASSUME NEW j \in 1 .. L PROVE F[j - 1] = Opening(ctx, j)
      <4>1. j \in 1 .. (L + 1) /\ L \in 0 .. Len(t) /\ j \in 0 .. L
        BY <1>1, <1>2
      <4>2. \A m \in 0 .. Len(t) : \A l \in 0 .. m : Opening(Opening(t, m), l) = Opening(t, l)
        BY <1>2, OpeningsJoined
      <4>3. Opening(Opening(t, L), j) = Opening(t, j)
        BY <4>1, <4>2
      <4>4. F[j - 1] = Opening(t, j)
        BY <1>5, <4>1 DEF Begins
      <4> QED BY <2>3, <4>3, <4>4
    <3> QED BY <3>1 DEF Begins
  <2>7. Reads(F, 0 .. (L - 1), ctx, 1)
    BY <1>1, <2>4, <2>6, ReadsText
  <2>8. RowOf(r, k) = t
    BY <1>2, <1>9 DEF RowOf, Verifiable
  <2>9. 0 .. (L - 1) \subseteq DOMAIN e \cap (0 .. (L + k - 2))
    BY <1>1, <1>9
  <2> QED BY <1>1, <1>4, <1>8, <2>1, <2>2, <2>4, <2>5, <2>7, <2>8, <2>9 DEF TargetRight
<1>10. CASE k # 1
  <2>1. PICK i \in 0 .. (n - 1) : i = k - 2 /\ L + k - 2 = L + i
    <3>1. k - 2 \in 0 .. (n - 1) /\ L + k - 2 = L + (k - 2)
      BY <1>1, <1>10
    <3> QED BY <3>1
  <2>2. PICK S : S = (0 .. L) \cup NodesAbove(p, L + 1, i)
    OBVIOUS
  <2>3. Others(r)[k] = S
    BY <1>1, <1>3, <1>6, <1>10, <2>1, <2>2 DEF AttendsPath
  <2>4. /\ VerifyRows(r)[k].slot = L + k - 1
        /\ VerifyRows(r)[k].pos = L + 1 + (i \div TopK)
        /\ VerifyRows(r)[k].tok = NodeToken(p, i)
    BY <1>1, <1>3, <1>7, <1>10, <2>1 DEF VerifiesRow
  <2>5. PICK u, v : u = Words(p, i) /\ v = Words(p, p[i])
    OBVIOUS
  <2>6. /\ v \in Seq(Nat) /\ Len(v) = i \div TopK /\ u = Append(v, NodeToken(p, i))
        /\ i \div TopK \in Nat
    <3>1. Spelled(p, i)
      BY <1>1, <1>3, <2>1, Spelling
    <3>2. Len(Ancestors(p, i)) = (i \div TopK) + 1
      BY <1>1, <1>3, <2>1, PathLength
    <3>3. i \div TopK \in Nat
      <4>1. TopK \in Nat \ {0} /\ i \in Nat
        BY <2>1, EngineAssumption
      <4> QED BY <4>1
    <3> QED BY <2>5, <3>1, <3>2, <3>3 DEF Spelled
  <2>7. PICK ctx : ctx = t \o v
    OBVIOUS
  <2>8. ctx \in Seq(Nat) /\ Len(ctx) = L + 1 + (i \div TopK)
    <3>1. t \o v \in Seq(Nat) /\ Len(t \o v) = Len(t) + Len(v)
      BY <1>2, <2>6, OpeningsJoined
    <3> QED BY <1>1, <1>2, <2>6, <2>7, <3>1
  <2>9. t \o u = Append(ctx, NodeToken(p, i))
    <3>1. PICK x \in Nat : x = NodeToken(p, i)
      BY <1>1, <1>3, NodeTokenType
    <3>2. t \o Append(v, x) = Append(t \o v, x)
      BY <1>2, <2>6, <3>1
    <3> QED BY <2>6, <2>7, <3>1, <3>2
  <2>10. Reads(F, S, ctx, 1)
    <3>0. PICK M \in Nat : M = L + 1
      BY <1>1
    <3>1. Reads(F, (0 .. (M - 1)) \cup NodesAbove(p, M, i), t \o Words(p, p[i]), 1)
      BY <1>1, <1>2, <1>3, <1>5, <2>1, <3>0, ReadsPath
    <3>2. M - 1 = L
      BY <1>1, <3>0
    <3>3. S = (0 .. (M - 1)) \cup NodesAbove(p, M, i)
      BY <2>2, <3>0, <3>2
    <3>4. ctx = t \o Words(p, p[i])
      BY <2>5, <2>7
    <3> QED BY <3>1, <3>3, <3>4
  <2>11. RowOf(r, k) = t \o u
    BY <1>2, <1>3, <1>10, <2>1, <2>5 DEF RowOf, Verifiable
  <2>12. S \subseteq DOMAIN e \cap (0 .. (L + k - 2))
    <3>1. 0 .. (L + i) \subseteq DOMAIN e
      BY <1>1, <2>1
    <3>2. S \subseteq 0 .. (L + i)
      <4>1. ASSUME NEW x \in ToSet(Ancestors(p, i)) \ {i} PROVE L + 1 + x \in 0 .. (L + i)
        <5>1. ToSet(Ancestors(p, i)) \subseteq 0 .. i
          BY <1>1, <1>3, <2>1, PathBelow
        <5> QED BY <1>1, <2>1, <5>1
      <4>2. 0 .. L \subseteq 0 .. (L + i)
        BY <1>1, <2>1
      <4> QED BY <2>2, <4>1, <4>2 DEF NodesAbove
    <3> QED BY <2>1, <3>1, <3>2
  <2>13. TargetRight(e, L, RowsOf(r), n + 1, VerifyRows(r), Others(r), k)
    <3>1. /\ VerifyRows(r)[k].slot = L + k - 1 /\ Others(r)[k] \subseteq DOMAIN e \cap (0 .. (L + k - 2))
      BY <2>3, <2>4, <2>12
    <3>2. /\ VerifyRows(r)[k].pos = Len(ctx) /\ RowsOf(r)[k] = Append(ctx, VerifyRows(r)[k].tok)
          /\ Reads(Filled(e, L, RowsOf(r), n + 1), Others(r)[k], ctx, 1)
      BY <1>4, <1>8, <2>3, <2>4, <2>8, <2>9, <2>10, <2>11
    <3> QED BY <2>8, <3>1, <3>2 DEF TargetRight
  <2> QED BY <1>1, <2>13
<1> QED BY <1>9, <1>10

\* A request whose prompt is run: nothing of it is committed.
Prefillable(r) ==
    /\ r \in Admitted
    /\ committed[r] = 0 /\ prompt[r] \in Nat
    /\ prompt_ids[r] \in Seq(Nat) /\ Len(prompt_ids[r]) = prompt[r]
    /\ Text(r) \in Seq(Nat) /\ prompt[r] <= Len(Text(r))
    /\ prompt_ids[r] = Opening(Text(r), prompt[r])

\* A row of the prompt, and what it attends.
PromptsRow(r, k) ==
    /\ VerifyRows(r)[k].slot = k - 1 /\ VerifyRows(r)[k].pos = k - 1
    /\ VerifyRows(r)[k].tok = prompt_ids[r][k]
    /\ Others(r)[k] = 0 .. (k - 2)

LEMMA PromptInTurn ==
    ASSUME NEW r, Prefillable(r), NEW k \in 1 .. prompt[r]
    PROVE  PromptsRow(r, k)
<1>1. PICK q \in Nat : q = prompt[r]
  BY DEF Prefillable
<1>2. /\ Queries(r) = q /\ Cached(r) = q /\ Together(r) = admitted /\ VerifyMask(r) = Unmasked
      /\ VerifyRows(r) = PromptRows(r)
  BY <1>1 DEF Prefillable, Queries, Cached, Together, VerifyMask, VerifyRows, Admitted
<1>3. VerifyRows(r)[k] = [tok |-> prompt_ids[r][k], pos |-> k - 1, slot |-> k - 1]
  BY <1>2 DEF PromptRows
<1>4. PICK decode \in BOOLEAN : decode = \A s \in ToSet(Together(r)) : Queries(s) = 1
  OBVIOUS
<1>5. decode => q = 1
  BY <1>2, <1>4 DEF Prefillable, Admitted
<1>6. Attended(r)[k] = 0 .. (k - 1)
  <2>1. q \in Nat \ {0} /\ k \in 1 .. q
    BY <1>1
  <2>2. SeesUpTo(q, q, decode, k)
    BY <1>5, <2>1, Causal
  <2>3. q - q + k - 1 = k - 1
    BY <2>1
  <2> QED BY <1>2, <1>4, <2>2, <2>3 DEF Attended, SeesUpTo
<1>7. Others(r)[k] = 0 .. (k - 2)
  <2>1. Others(r)[k] = (0 .. (k - 1)) \ {k - 1}
    BY <1>1, <1>2, <1>3, <1>6 DEF Others
  <2>2. (0 .. (k - 1)) \ {k - 1} = 0 .. (k - 2)
    BY <1>1
  <2> QED BY <2>1, <2>2
<1> QED BY <1>3, <1>7 DEF PromptsRow

\* Every row of a prompt is given the prompt up to it.
LEMMA PromptRight ==
    ASSUME NEW r, Prefillable(r), NEW e, 0 .. (prompt[r] - 1) \subseteq DOMAIN e,
           DOMAIN e \subseteq Int, NEW k \in 1 .. prompt[r]
    PROVE  TargetRight(e, 0, RowsOf(r), prompt[r], VerifyRows(r), Others(r), k)
<1>1. PICK q \in Nat : q = prompt[r]
  BY DEF Prefillable
<1>2. PICK t : t = Text(r) /\ t \in Seq(Nat) /\ q <= Len(t) /\ prompt_ids[r] = Opening(t, q)
  BY <1>1 DEF Prefillable
<1>3. PICK F : F = Filled(e, 0, RowsOf(r), q)
  OBVIOUS
<1>4. \A j \in 1 .. q : RowsOf(r)[j] = Opening(t, j)
  BY <1>1, <1>2 DEF RowsOf, RowOf, Queries, Prefillable, Admitted
<1>5. \A j \in 1 .. q : F[j - 1] = Opening(t, j)
  <2>1. 0 .. (0 + q - 1) \subseteq DOMAIN e
    BY <1>1
  <2>2. FilledAt(e, 0, RowsOf(r), q)
    BY <2>1, Filling
  <2>3. \A j \in 1 .. q : F[0 + j - 1] = RowsOf(r)[j] /\ 0 + j - 1 = j - 1
    BY <1>3, <2>2 DEF FilledAt
  <2> QED BY <1>4, <2>3
<1>6. PromptsRow(r, k)
  BY PromptInTurn
<1>7. k \in 1 .. q /\ k - 1 \in Nat /\ k \in 1 .. Len(t) /\ k - 1 \in 0 .. Len(t) /\ k \in 0 .. q
      /\ q \in 0 .. Len(t)
  BY <1>1, <1>2
<1>8. prompt_ids[r][k] = t[k]
  BY <1>2, <1>7, Openings
<1>9. PICK ctx : ctx = Opening(t, k - 1)
  OBVIOUS
<1>10. ctx \in Seq(Nat) /\ Len(ctx) = k - 1
  BY <1>2, <1>7, <1>9, Openings
<1>11. Opening(t, k) = Append(ctx, t[k])
  <2>1. \A j \in 1 .. Len(t) : Opening(t, j) = Append(Opening(t, j - 1), t[j])
    BY <1>2, OpeningsJoined
  <2> QED BY <1>7, <1>9, <2>1
<1>12. Begins(F, ctx, k - 1)
  <2>1. \A m \in 0 .. Len(t) : \A l \in 0 .. m : Opening(Opening(t, m), l) = Opening(t, l)
    BY <1>2, OpeningsJoined
  <2>2. ASSUME NEW j \in 1 .. (k - 1) PROVE F[j - 1] = Opening(ctx, j)
    <3>1. j \in 1 .. q /\ j \in 0 .. (k - 1)
      BY <1>7
    <3> QED BY <1>5, <1>7, <1>9, <2>1, <3>1
  <2> QED BY <2>2 DEF Begins
<1>13. Reads(F, 0 .. (k - 2), ctx, 1)
  <2>1. PICK L \in Nat : L = k - 1
    BY <1>7
  <2>2. Reads(F, 0 .. (L - 1), ctx, 1)
    BY <1>10, <1>12, <2>1, ReadsText
  <2>3. L - 1 = k - 2
    BY <2>1
  <2> QED BY <2>2, <2>3
<1>14. /\ VerifyRows(r)[k].slot = 0 + k - 1
       /\ Others(r)[k] \subseteq DOMAIN e \cap (0 .. (0 + k - 2))
  <2>1. 0 + k - 1 = k - 1 /\ 0 + k - 2 = k - 2 /\ 0 .. (k - 2) \subseteq 0 .. (q - 1)
    BY <1>7
  <2> QED BY <1>1, <1>6, <2>1 DEF PromptsRow
<1>15. /\ VerifyRows(r)[k].pos = Len(ctx) /\ RowsOf(r)[k] = Append(ctx, VerifyRows(r)[k].tok)
       /\ Reads(Filled(e, 0, RowsOf(r), q), Others(r)[k], ctx, 1)
  BY <1>3, <1>4, <1>6, <1>7, <1>8, <1>10, <1>11, <1>13 DEF PromptsRow
<1> QED BY <1>1, <1>10, <1>14, <1>15 DEF TargetRight

\* The verify forward writes what its rows stand for.
LEMMA VerifiedIs ==
    ASSUME NEW r, NEW n \in Nat, n = Len(VerifyRows(r)), NEW base \in Nat,
           base .. (base + n - 1) \subseteq DOMAIN View(kv, r), NEW X, NEW T,
           \A k \in 1 .. n : /\ T[k] = Attended(r)[k] \ {VerifyRows(r)[k].slot}
                             /\ TargetRight(View(kv, r), base, X, n, VerifyRows(r), T, k)
    PROVE  Verified(r) = Filled(View(kv, r), base, X, n)
<1>1. PICK R, see, e0 : R = VerifyRows(r) /\ see = Attended(r) /\ e0 = View(kv, r)
  OBVIOUS
<1>2. e0 = [p \in DOMAIN e0 |-> e0[p]]
  BY <1>1 DEF View
<1>2a. ASSUME NEW k \in 1 .. n
       PROVE  TargetFills(e0, base, X, R, T, k)
  <2>1. base .. (base + n - 1) \subseteq DOMAIN e0
    BY <1>1
  <2>2. TargetRight(e0, base, X, n, R, T, k)
    BY <1>1
  <2> QED BY <2>1, <2>2, TargetStep
<1> DEFINE F == [k \in 0 .. n |-> Filled(e0, base, X, k)]
           Step(e, k) == [e EXCEPT ![R[k].slot] =
                             TargetEntry(e, R[k].tok, R[k].pos, see[k] \ {R[k].slot})]
<1>3. ASSUME NEW k \in 0 .. n PROVE F[k] = IF k = 0 THEN e0 ELSE Step(F[k - 1], k)
  <2>1. CASE k = 0
    BY <1>2, <2>1, FilledNone
  <2>2. CASE k # 0
    <3>1. k \in 1 .. n /\ k - 1 \in 0 .. n
      BY <2>2
    <3>2. T[k] = see[k] \ {R[k].slot} /\ TargetRight(e0, base, X, n, R, T, k)
      BY <1>1, <3>1
    <3>3. PICK f : f = Filled(e0, base, X, k - 1)
      OBVIOUS
    <3>4. Filled(e0, base, X, k) = [f EXCEPT ![R[k].slot] = TargetEntry(f, R[k].tok, R[k].pos, T[k])]
      <4>2. Filled(e0, base, X, k) = TargetRun(Filled(e0, base, X, k - 1), R, T, k)
        BY <1>2a, <3>1 DEF TargetFills
      <4> QED BY <3>3, <4>2 DEF TargetRun
    <3>5. F[k - 1] = f /\ F[k] = Filled(e0, base, X, k)
      BY <3>1, <3>3
    <3> QED BY <2>2, <3>2, <3>4, <3>5
  <2> QED BY <2>1, <2>2
<1> DEFINE run == CHOOSE f : f = [k \in 0 .. n |-> IF k = 0 THEN e0 ELSE Step(f[k - 1], k)]
<1>4. Verified(r) = run[n]
  BY <1>1 DEF Verified
<1>5. F = [k \in 0 .. n |-> IF k = 0 THEN e0 ELSE Step(F[k - 1], k)]
  <2>1. F = [k \in 0 .. n |-> F[k]]
    OBVIOUS
  <2> HIDE DEF F, Step
  <2> QED BY <1>3, <2>1
<1>6. PICK h : h = F
  OBVIOUS
<1>7. PICK g : g = run
  OBVIOUS
<1>8. g = [k \in 0 .. n |-> IF k = 0 THEN e0 ELSE Step(g[k - 1], k)]
  <2>1. h = [k \in 0 .. n |-> IF k = 0 THEN e0 ELSE Step(h[k - 1], k)]
    BY <1>5, <1>6
  <2> HIDE DEF Step, F
  <2> QED BY <1>7, <2>1
<1> HIDE DEF run
<1> DEFINE Same == {k \in 0 .. n : g[k] = F[k]}
<1>9. 0 \in Same
  <2> HIDE DEF Step, F
  <2>1. 0 \in 0 .. n
    OBVIOUS
  <2> QED BY <1>3, <1>8, <2>1
<1>10. ASSUME NEW k \in 0 .. (n - 1), k \in Same PROVE k + 1 \in Same
  <2>1. k + 1 \in 0 .. n /\ k + 1 # 0 /\ (k + 1) - 1 = k /\ g[k] = F[k]
    BY <1>10
  <2> HIDE DEF Step, F
  <2>2. g[k + 1] = Step(g[k], k + 1) /\ F[k + 1] = Step(F[k], k + 1)
    BY <1>3, <1>8, <2>1
  <2> QED BY <2>1, <2>2
<1>11. \A k \in 0 .. n : k \in Same
  <2> HIDE DEF Same
  <2> QED BY <1>9, <1>10, Induct
<1>12. n \in Same
  BY <1>11
<1>13. g[n] = Filled(e0, base, X, n)
  BY <1>12
<1> QED BY <1>1, <1>4, <1>7, <1>13

\* A request of the forward.
Runnable(r) == Verifiable(r) \/ Prefillable(r)

\* The forward writes what r's rows stand for.
FilledIn(r) == Verified(r) = Filled(View(kv, r), committed[r], RowsOf(r), Queries(r))

\* The rows' slots are the positions from committed on.
RowsPlaced(r) ==
    /\ Len(VerifyRows(r)) = Queries(r) /\ DOMAIN VerifyRows(r) = 1 .. Queries(r)
    /\ Queries(r) \in Nat /\ committed[r] \in Nat
    /\ \A k \in 1 .. Queries(r) : VerifyRows(r)[k].slot = committed[r] + k - 1

LEMMA RowsArePlaced ==
    ASSUME NEW r, Runnable(r)
    PROVE  RowsPlaced(r)
<1>1. CASE Verifiable(r)
  <2>1. PICK n \in Nat : n = tree[r]
    BY <1>1 DEF Verifiable
  <2>2. Queries(r) = n + 1 /\ committed[r] \in Nat
    BY <1>1, <2>1 DEF Queries, Verifiable, Admitted
  <2>3. Len(VerifyRows(r)) = n + 1 /\ \A k \in 1 .. (n + 1) : VerifiesRow(r, k)
    BY <1>1, <2>1, RowsInTurn
  <2>4. DOMAIN VerifyRows(r) = 1 .. (n + 1)
    <3>1. PICK a, b : a = RootRow(r) /\ b = NodeRows(r)
      OBVIOUS
    <3>2. VerifyRows(r) = <<a>> \o b
      BY <1>1, <3>1 DEF VerifyRows, Verifiable, Admitted
    <3> QED BY <2>3, <3>2
  <2> QED BY <2>2, <2>3, <2>4 DEF RowsPlaced, VerifiesRow
<1>2. CASE Prefillable(r)
  <2>1. PICK q \in Nat : q = prompt[r]
    BY <1>2 DEF Prefillable
  <2>2. Queries(r) = q /\ committed[r] = 0 /\ VerifyRows(r) = PromptRows(r)
    BY <1>2, <2>1 DEF Queries, Prefillable, VerifyRows, Admitted
  <2>3. DOMAIN PromptRows(r) = 1 .. q /\ Len(PromptRows(r)) = q
    BY <2>1 DEF PromptRows
  <2>4. \A k \in 1 .. q : VerifyRows(r)[k].slot = k - 1 /\ 0 + k - 1 = k - 1
    BY <1>2, <2>1, PromptInTurn DEF PromptsRow
  <2> QED BY <2>1, <2>2, <2>3, <2>4 DEF RowsPlaced
<1> QED BY <1>1, <1>2 DEF Runnable

LEMMA ForwardFills ==
    ASSUME NEW r, Runnable(r), 0 .. (committed[r] + Queries(r) - 1) \subseteq DOMAIN View(kv, r),
           Begins(View(kv, r), Text(r), committed[r])
    PROVE  FilledIn(r)
<1>1. PICK e, base, n, X, T : /\ e = View(kv, r) /\ base = committed[r] /\ n = Queries(r)
                              /\ X = RowsOf(r) /\ T = Others(r)
  OBVIOUS
<1>2. n \in Nat /\ base \in Nat /\ n = Len(VerifyRows(r))
  BY <1>1, RowsArePlaced DEF RowsPlaced
<1>3. DOMAIN e \subseteq Int
  BY <1>1 DEF View
<1>4. base .. (base + n - 1) \subseteq DOMAIN e
  <2>1. base .. (base + n - 1) \subseteq 0 .. (base + n - 1)
    BY <1>2
  <2> QED BY <1>1, <2>1
<1>5. ASSUME NEW k \in 1 .. n
      PROVE  /\ T[k] = Attended(r)[k] \ {VerifyRows(r)[k].slot}
             /\ TargetRight(e, base, X, n, VerifyRows(r), T, k)
  <2>1. T[k] = Attended(r)[k] \ {VerifyRows(r)[k].slot}
    BY <1>1 DEF Others
  <2>2. CASE Verifiable(r)
    <3>1. n = tree[r] + 1 /\ tree[r] \in Nat
      BY <1>1, <2>2 DEF Queries, Verifiable, Admitted
    <3>2. 0 .. (committed[r] + tree[r]) \subseteq DOMAIN e
      <4>1. committed[r] + Queries(r) - 1 = committed[r] + tree[r]
        BY <1>1, <1>2, <3>1
      <4> QED BY <1>1, <4>1
    <3>3. TargetRight(e, committed[r], RowsOf(r), tree[r] + 1, VerifyRows(r), Others(r), k)
      BY <1>1, <1>3, <2>2, <3>1, <3>2, VerifyRight
    <3> QED BY <1>1, <2>1, <3>1, <3>3
  <2>3. CASE Prefillable(r)
    <3>1. n = prompt[r] /\ base = 0
      BY <1>1, <2>3 DEF Queries, Prefillable, Admitted
    <3>2. 0 .. (prompt[r] - 1) \subseteq DOMAIN e
      <4>1. committed[r] + Queries(r) - 1 = prompt[r] - 1
        BY <1>1, <1>2, <3>1
      <4> QED BY <1>1, <4>1
    <3>3. TargetRight(e, 0, RowsOf(r), prompt[r], VerifyRows(r), Others(r), k)
      BY <1>3, <2>3, <3>1, <3>2, PromptRight
    <3> QED BY <1>1, <2>1, <3>1, <3>3
  <2> QED BY <2>2, <2>3 DEF Runnable
<1>6. Verified(r) = Filled(View(kv, r), base, X, n)
  <2>1. /\ base .. (base + n - 1) \subseteq DOMAIN View(kv, r)
        /\ \A k \in 1 .. n : /\ T[k] = Attended(r)[k] \ {VerifyRows(r)[k].slot}
                             /\ TargetRight(View(kv, r), base, X, n, VerifyRows(r), T, k)
    BY <1>1, <1>4, <1>5
  <2> QED BY <1>2, <2>1, VerifiedIs
<1> QED BY <1>1, <1>6 DEF FilledIn
----------------------------------------------------------------------------
(***************************************************************************)
(* Addresses.                                                              *)
(***************************************************************************)
\* Division with a remainder.
LEMMA Remainder ==
    ASSUME NEW p \in Nat, NEW d \in Nat \ {0}
    PROVE  p = d * (p \div d) + (p % d)
  BY SMTT(30)

\* The slots of reserved positions are the cache's.
LEMMA PhysSlot ==
    ASSUME PoolInv, NEW r \in Id, NEW p \in 0 .. (seq_len[r] - 1)
    PROVE  Phys(r, p) \in Slot
<1>1. PlacedAt(r, p, Phys(r, p))
  BY PhysPlace
<1>2. BlockSize \in Nat \ {0} /\ NumBlocks \in Nat \ {0} /\ blocks[r] \in Seq(Block) /\ p \in Nat
  BY PoolAssumption DEF PoolInv, PoolTypeOK
<1>3. PICK b : b = blocks[r][p \div BlockSize + 1]
  OBVIOUS
<1>4. b \in Block
  BY <1>1, <1>2, <1>3 DEF PlacedAt
<1>5. PICK R \in Nat : R = b + 1 /\ R \in 1 .. NumBlocks /\ R - 1 = b
  <2>1. b + 1 \in Nat /\ b + 1 \in 1 .. NumBlocks /\ (b + 1) - 1 = b
    BY <1>2, <1>4 DEF Block
  <2> QED BY <2>1
<1>6. PICK c \in 0 .. (BlockSize - 1) : c = p % BlockSize
  BY <1>2
<1>7. PICK x : x = (R - 1) * BlockSize + c
  OBVIOUS
<1>8. IsCell(NumBlocks, BlockSize, R, c, x, 0)
  <2>1. NumBlocks \in Nat /\ 0 \in Nat
    BY <1>2
  <2> QED BY <1>2, <1>5, <1>6, <1>7, <2>1, PlaceIn
<1>9. x \in Slot
  BY <1>8 DEF IsCell, Slot
<1>10. Phys(r, p) = x
  BY <1>3, <1>5, <1>6, <1>7 DEF Phys
<1> QED BY <1>9, <1>10

\* A slot tells its request's position.
LEMMA PlaceBack ==
    ASSUME PoolInv, NEW r \in Id, NEW p \in 0 .. (seq_len[r] - 1)
    PROVE  Place(r, Phys(r, p)) = p
<1>1. PICK s : s = Phys(r, p)
  OBVIOUS
<1>2. PlacedAt(r, p, s)
  BY <1>1, PhysPlace
<1>3. BlockSize \in Nat \ {0} /\ blocks[r] \in Seq(Block) /\ p \in Nat
  BY PoolAssumption DEF PoolInv, PoolTypeOK
<1>4. PICK k \in Nat : k = p \div BlockSize
  BY <1>3
<1>5. k + 1 \in DOMAIN blocks[r] /\ blocks[r][k + 1] = s \div BlockSize /\ s % BlockSize = p % BlockSize
  BY <1>2, <1>4 DEF PlacedAt
<1>6. \A j \in DOMAIN blocks[r] : blocks[r][j] = s \div BlockSize => j = k + 1
  BY SMTT(30), <1>3, <1>5 DEF PoolInv, EveryBlockOnce, OwnedOnce
<1>7. (CHOOSE j \in DOMAIN blocks[r] : blocks[r][j] = s \div BlockSize) = k + 1
  BY <1>5, <1>6
<1>8. Place(r, s) = ((k + 1) - 1) * BlockSize + (p % BlockSize)
  BY <1>5, <1>7 DEF Place
<1>9. (k + 1) - 1 = k
  BY <1>4
<1>10. PICK c \in Nat : c = p % BlockSize
  BY <1>3
<1>11. p = BlockSize * (p \div BlockSize) + (p % BlockSize)
  BY <1>3, Remainder
<1>12. PICK m \in Nat : m = BlockSize * k /\ m = k * BlockSize
  BY <1>3
<1>13. p = m + c
  BY <1>4, <1>10, <1>11, <1>12
<1>14. Place(r, s) = m + c
  BY <1>8, <1>9, <1>10, <1>12
<1> QED BY <1>1, <1>13, <1>14

\* What is stored is found where it was put.
StoredAt(c, S, view, r, p) == Stored(c, S, view)[Phys(r, p)] = view[r][p]

LEMMA StoredIs ==
    ASSUME PoolInv, NEW S \in SUBSET Id, NEW r \in S, NEW p \in 0 .. (seq_len[r] - 1),
           NEW c, NEW view
    PROVE  StoredAt(c, S, view, r, p)
<1>1. PICK s : s = Phys(r, p)
  OBVIOUS
<1>2. PlacedAt(r, p, s) /\ s \in Slot /\ Place(r, s) = p
  <2>0. r \in Id
    OBVIOUS
  <2>1. PlacedAt(r, p, s)
    BY <1>1, <2>0, PhysPlace
  <2>2. s \in Slot
    BY <1>1, <2>0, PhysSlot
  <2>3. Place(r, s) = p
    BY <1>1, <2>0, PlaceBack
  <2> QED BY <2>1, <2>2, <2>3
<1>3. PICK own : own = {o \in S : s \div BlockSize \in ToSet(blocks[o])}
  OBVIOUS
<1>4. r \in own
  BY <1>2, <1>3 DEF PlacedAt
<1>5. ASSUME NEW o \in own PROVE o = r
  <2>1. o \in Id /\ blocks[o] \in Seq(Block) /\ blocks[r] \in Seq(Block)
    BY <1>3 DEF PoolInv, PoolTypeOK
  <2>2. PICK i \in 1 .. Len(blocks[o]) : blocks[o][i] = s \div BlockSize
    BY <1>3, <2>1, InToSet
  <2>3. PICK j \in 1 .. Len(blocks[r]) : blocks[r][j] = s \div BlockSize
    BY <1>3, <1>4, <2>1, InToSet
  <2> QED BY <2>1, <2>2, <2>3 DEF PoolInv, EveryBlockOnce, OwnedOnce
<1>6. own # {} /\ (CHOOSE o \in own : TRUE) = r
  BY <1>4, <1>5
<1>7. Stored(c, S, view)[s] = IF own = {} THEN c[s] ELSE view[CHOOSE o \in own : TRUE][Place(CHOOSE o \in own : TRUE, s)]
  BY <1>2, <1>3 DEF Stored
<1> QED BY <1>1, <1>2, <1>6, <1>7 DEF StoredAt

\* Reserved positions can be viewed.
Viewed(c, r) ==
    /\ 0 .. (seq_len[r] - 1) \subseteq DOMAIN View(c, r)
    /\ \A p \in 0 .. (seq_len[r] - 1) : View(c, r)[p] = c[Phys(r, p)]

LEMMA ViewIs ==
    ASSUME PoolInv, NEW r \in Id, NEW c
    PROVE  Viewed(c, r)
<1>1. /\ BlockSize \in Nat \ {0} /\ seq_len[r] \in Nat /\ blocks[r] \in Seq(Block)
  BY PoolAssumption DEF PoolInv, PoolTypeOK
<1>2. PICK n \in Nat : n = Len(blocks[r])
  BY <1>1
<1>3. seq_len[r] <= BlockSize * n
  BY <1>1, <1>2, BlocksForCeiling DEF PoolInv, TablesSized
<1>4. PICK m \in Nat : m = n * BlockSize
  BY <1>1
<1>5. seq_len[r] <= m
  BY <1>1, <1>3, <1>4
<1>6. View(c, r) = [p \in 0 .. (m - 1) |-> c[Phys(r, p)]]
  BY <1>2, <1>4 DEF View
<1> QED BY <1>1, <1>5, <1>6 DEF Viewed

\* The first n positions of r are where they were.
Settled(r, n) == \A p \in 0 .. (n - 1) : Phys(r, p)' = Phys(r, p)

\* ... if the blocks under them are.
LEMMA BlocksSettle ==
    ASSUME NEW r, NEW n \in Nat, \A i \in 1 .. BlocksFor(n) : blocks'[r][i] = blocks[r][i]
    PROVE  Settled(r, n)
<1> SUFFICES ASSUME NEW p \in 0 .. (n - 1) PROVE Phys(r, p)' = Phys(r, p)
  BY DEF Settled
<1>1. BlockSize \in Nat \ {0}
  BY PoolAssumption
<1>2. PICK m \in Nat : m = BlocksFor(n) /\ n <= BlockSize * m
  BY BlocksForCeiling
<1>3. PICK k \in Nat : k = p \div BlockSize /\ BlockSize * k <= p
  <2>1. p \div BlockSize \in Nat /\ BlockSize * (p \div BlockSize) <= p
    BY <1>1
  <2> QED BY <2>1
<1>4. k < m
  <2> SUFFICES ASSUME m <= k PROVE FALSE
    BY <1>2, <1>3
  <2>1. CASE m = k
    BY <1>1, <1>2, <1>3, <2>1
  <2>2. CASE m < k
    <3>1. BlockSize * m + BlockSize <= BlockSize * k
      BY <1>1, <1>2, <1>3, <2>2, MulStep
    <3> QED BY <1>1, <1>2, <1>3, <3>1
  <2> QED BY <1>2, <1>3, <2>1, <2>2
<1>5. k + 1 \in 1 .. BlocksFor(n)
  BY <1>2, <1>3, <1>4
<1>6. blocks'[r][(p \div BlockSize) + 1] = blocks[r][(p \div BlockSize) + 1]
  BY <1>3, <1>5
<1> QED BY <1>6 DEF Phys
----------------------------------------------------------------------------
(***************************************************************************)
(* The texts of requests.                                                  *)
(***************************************************************************)
\* A request's prompt begins its text, and its output ends it.
Worded(r) ==
    /\ prompt_ids[r] \in Seq(Nat) /\ out_tokens[r] \in Seq(Nat)
    /\ Len(prompt_ids[r]) = prompt[r] /\ Len(out_tokens[r]) = out[r]
    /\ asked[r] <= prompt[r] /\ prompt[r] <= asked[r] + out[r]
    /\ prompt_ids[r] = Opening(Text(r), prompt[r])

\* While at most one update has been made, texts are as long as the engine counts them, and
\* trees grow level by level.
TextInv ==
    /\ DOMAIN prompt_ids = Request /\ DOMAIN out_tokens = Request /\ DOMAIN rows = Request
    /\ \A r \in Request : Leveled(parents[r])
    /\ \A r \in Request : state[r] = "new" => out_tokens[r] = << >>
    /\ \A r \in Request : state[r] \in {"waiting", "running"} => Worded(r)
    /\ \A r \in Running \ Newly : out_tokens[r] # << >>

\* A text and its length.
LEMMA TextTyped ==
    ASSUME TypeOK, NEW r \in Request, Worded(r)
    PROVE  /\ Text(r) \in Seq(Nat) /\ Len(Text(r)) = asked[r] + out[r]
           /\ asked[r] \in 0 .. Len(prompt_ids[r])
<1>1. asked[r] \in Nat /\ prompt[r] \in Nat /\ out[r] \in Nat
  BY DEF TypeOK, SchedTypeOK
<1>2. asked[r] \in 0 .. Len(prompt_ids[r])
  BY <1>1 DEF Worded
<1>3. Opening(prompt_ids[r], asked[r]) \in Seq(Nat) /\ Len(Opening(prompt_ids[r], asked[r])) = asked[r]
  BY <1>2, Openings DEF Worded
<1>4. Text(r) = Opening(prompt_ids[r], asked[r]) \o out_tokens[r]
  BY DEF Text, Opening
<1>5. out_tokens[r] \in Seq(Nat) /\ Len(out_tokens[r]) = out[r]
  BY DEF Worded
<1>6. PICK s \in Seq(Nat) : s = Opening(prompt_ids[r], asked[r])
  BY <1>3
<1>7. s \o out_tokens[r] \in Seq(Nat) /\ Len(s \o out_tokens[r]) = Len(s) + Len(out_tokens[r])
  BY <1>5, OpeningsJoined
<1> QED BY <1>2, <1>3, <1>4, <1>5, <1>6, <1>7

\* Steps that write no text.
LEMMA TextsStay ==
    ASSUME TextInv, UNCHANGED <<prompt_ids, out_tokens, prompt, out, asked>>,
           DOMAIN rows' = Request, \A r \in Request : Leveled(parents[r])',
           \A r \in Request : state'[r] = "new" => state[r] = "new",
           \A r \in Request : state'[r] \in {"waiting", "running"} =>
                                  state[r] \in {"waiting", "running"},
           (Running \ Newly)' \subseteq Running \ Newly
    PROVE  TextInv'
<1>1. \A r \in Request : Worded(r) => Worded(r)'
  BY DEF Worded, Text, Opening
<1> QED BY <1>1 DEF TextInv

\* A new request's text is its prompt.
LEMMA AddWords ==
    ASSUME IInv, TextInv, AddText
    PROVE  TextInv'
<1>0. PICK n : n = next_id
  OBVIOUS
<1>1. TypeOK /\ Queued /\ pc = "idle" /\ n \in Request
  <2>1. TypeOK /\ pc = "idle" /\ next_id < MaxRequests
    BY DEF AddText, Add, IInv
  <2>2. Queued
    BY <2>1 DEF IInv, InCall
  <2>3. next_id \in Nat
    BY <2>1 DEF TypeOK, SchedTypeOK
  <2>4. next_id \in 0 .. (MaxRequests - 1)
    BY <2>1, <2>3, SchedulerAssumption
  <2> QED BY <1>0, <2>1, <2>2, <2>4 DEF Request
<1>2. PICK l \in PromptLens : \E m \in MaxTokens : AddRequest(n, l, m) /\ asked' = [asked EXCEPT ![n] = l]
  BY <1>0 DEF AddText, Add
<1>3. PICK m \in MaxTokens : AddRequest(n, l, m)
  BY <1>2
<1>4. /\ prompt'[n] = l /\ asked'[n] = l /\ l \in Nat /\ out' = out /\ running' = running
      /\ state' = [state EXCEPT ![n] = "waiting"]
      /\ \A r \in Request \ {n} : prompt'[r] = prompt[r] /\ asked'[r] = asked[r]
  BY <1>1, <1>2, <1>3, EngineAssumption DEF AddRequest, TypeOK, SchedTypeOK
<1>5. pc' = "idle" /\ Newly' = Newly /\ Running' = Running
  BY <1>1, <1>4 DEF AddText, Add, step, Newly, Pending, Running
<1>6. state[n] = "new"
  <2>1. n >= n
    BY <1>1 DEF Request
  <2> QED BY <1>0, <1>1, <2>1 DEF Queued
<1>7. PICK t : t = [k \in 1 .. l |-> PromptToken(n)]
  OBVIOUS
<1>8. t \in Seq(Nat) /\ Len(t) = l
  <2>1. PromptToken(n) \in Nat
    BY <1>1, EngineAssumption DEF PromptToken, Request
  <2> QED BY <1>4, <1>7, <2>1
<1>9. /\ prompt_ids' = [prompt_ids EXCEPT ![n] = t]
      /\ out_tokens' = out_tokens /\ parents' = parents /\ rows' = rows
  BY <1>0, <1>4, <1>7 DEF AddText, local
<1>10. /\ prompt_ids'[n] = t /\ out_tokens'[n] = << >> /\ DOMAIN prompt_ids' = Request
       /\ \A r \in Request \ {n} : prompt_ids'[r] = prompt_ids[r]
  BY <1>1, <1>6, <1>9 DEF TextInv
<1>11. Text(n)' = t
  <2>1. Opening(t, l) = t /\ << >> \in Seq(Nat) /\ t \o << >> = t
    BY <1>8, OpeningsJoined, ConcatQueue
  <2> QED BY <1>4, <1>10, <2>1 DEF Text, Opening
<1>12. Worded(n)'
  <2>1. Opening(t, l) = t
    BY <1>8, OpeningsJoined
  <2>2. out'[n] = 0
    BY <1>1, <1>4, <1>6 DEF IInv, InCall, Counted, CountedFor
  <2>3. << >> \in Seq(Nat) /\ Len(<< >>) = 0
    OBVIOUS
  <2> QED BY <1>4, <1>8, <1>10, <1>11, <2>1, <2>2, <2>3 DEF Worded
<1>13. \A r \in Request \ {n} : Worded(r) => Worded(r)'
  BY <1>4, <1>9, <1>10 DEF Worded, Text, Opening
<1>14. \A r \in Request \ {n} : state'[r] = state[r]
  BY <1>4
<1>15. state'[n] = "waiting"
  BY <1>1, <1>4 DEF TypeOK, SchedTypeOK
<1>16. \A r \in Request : Leveled(parents[r])'
  BY <1>9 DEF TextInv, Leveled
<1> QED BY <1>5, <1>9, <1>10, <1>12, <1>13, <1>14, <1>15, <1>16 DEF TextInv

\* The tokens of a path of a tree of n nodes, and of the paths it begins with.
PathSpelled(p, n, path) ==
    /\ Len(path) \in Nat /\ DOMAIN path = 1 .. Len(path)
    /\ PathTokens(p, path) \in Seq(Nat) /\ Len(PathTokens(p, path)) = Len(path)
    /\ \A k \in 1 .. Len(path) :
           /\ path[k] \in 0 .. (n - 1) /\ path[k] >= k - 1
           /\ Words(p, path[k]) = Opening(PathTokens(p, path), k)
    /\ n = 0 => path = << >>

LEMMA PathSpells ==
    ASSUME NEW n \in Nat, NEW p, Ordered(p, n), NEW path \in Paths(p)
    PROVE  PathSpelled(p, n, path)
<1>1. CASE path = << >>
  <2>1. PathTokens(p, path) = << >>
    BY <1>1 DEF PathTokens
  <2>2. << >> \in Seq(Nat) /\ Len(<< >>) = 0 /\ DOMAIN << >> = 1 .. 0
    OBVIOUS
  <2>3. \A k \in 1 .. 0 : FALSE
    OBVIOUS
  <2>4. /\ Len(path) = 0 /\ DOMAIN path = 1 .. 0
        /\ PathTokens(p, path) \in Seq(Nat) /\ Len(PathTokens(p, path)) = 0
    BY <1>1, <2>1, <2>2
  <2> QED BY <1>1, <2>3, <2>4 DEF PathSpelled
<1>2. CASE path # << >>
  <2>1. PICK i \in DOMAIN p : path = Ancestors(p, i)
    BY <1>2 DEF Paths
  <2>2. i \in 0 .. (n - 1)
    BY <2>1 DEF Ordered
  <2>3. Rising(path, n)
    BY <2>1, PathRises
  <2>4. \A k \in DOMAIN path : path[k] \in 0 .. (n - 1) /\ path[k] >= k - 1
    BY <2>3, RisingAhead
  <2>5. path \in Seq(0 .. (n - 1))
    BY <2>3 DEF Rising
  <2>6. Len(path) \in Nat /\ DOMAIN path = 1 .. Len(path)
    BY <2>5
  <2>7. Spelled(p, i)
    BY <2>2, Spelling
  <2>8. PathTokens(p, path) = Words(p, i)
    BY <2>1 DEF Words
  <2>9. n # 0
    BY <2>2
  <2> QED BY <2>1, <2>4, <2>6, <2>7, <2>8, <2>9 DEF PathSpelled, Spelled
<1> QED BY <1>1, <1>2

\* The tokens r emits after path.
Answer(r, path) == Append(PathTokens(parents[r], path), Fresh)

\* h goes on: it accepts path and emits its tokens and one more.
Walked(h, path) ==
    /\ path \in Paths(parents[h]) /\ PathSpelled(parents[h], tree[h], path)
    /\ out'[h] = out[h] + Len(path) + 1
    /\ committed'[h] = IF h \in Newly THEN prompt[h] ELSE committed[h] + Len(path) + 1
    /\ committed'[h] \in Nat
    /\ tree[h] \in Nat /\ (tree[h] = NoTree => path = << >>)
    /\ Answer(h, path) \in Seq(Nat) /\ Len(Answer(h, path)) = Len(path) + 1
    /\ out_tokens' = [out_tokens EXCEPT ![h] = @ \o Answer(h, path)]
    /\ moves' = moves \o NotedMoves(h, path)
    /\ rows' = [rows EXCEPT ![h] = << >>]
    /\ UNCHANGED <<prompt_ids, parents, kv, draft_kv, tree>>

\* The extend is handed the rows of the path h accepted.
Handed(h, path) == Depth > 0 => ext_rows' = [ext_rows EXCEPT ![h] = ExtRows(h, path)]

LEMMA PathTaken ==
    ASSUME IInv, MoveInv, PlainPath \/ SpecPath, NEW h, h = Head(todo)
    PROVE  \E path : Walked(h, path) /\ Handed(h, path)
<1>1. pc = "accept" /\ todo # << >> /\ TypeOK /\ Counted /\ Treed /\ Locals
  BY DEF PlainPath, SpecPath, AcceptPlain, AcceptSpec, InAccept, IInv, InCall
<1>2. /\ h \in Request /\ h \in Running /\ h \in Todo /\ Todo \subseteq Running
  BY <1>1, Visits
<1>3. tree[h] \in Nat /\ Ordered(parents[h], tree[h])
  BY <1>1, HeadReserved DEF MoveInv
<1>4. PICK a \in 0 .. Deepest(h), path \in Paths(parents[h]) :
          /\ AcceptTokens(h, a, a + 1, FALSE) /\ AcceptPath(h, path)
          /\ Len(path) = a /\ Handed(h, path)
  <2>1. CASE PlainPath
    <3>1. 0 \in 0 .. Deepest(h)
      <4>1. tree[h] \in Nat /\ TopK \in Nat \ {0}
        BY <1>3, EngineAssumption
      <4>2. tree[h] \div TopK \in Nat
        BY <4>1
      <4> QED BY <4>2 DEF Deepest
    <3>2. << >> \in Paths(parents[h]) /\ Len(<< >>) = 0 /\ 0 + 1 = 1
      BY DEF Paths
    <3>3. AcceptTokens(h, 0, 1, FALSE) /\ AcceptPath(h, << >>)
      BY <2>1 DEF PlainPath, AcceptPlain
    <3>4. Handed(h, << >>)
      <4>1. Depth = 0
        BY <2>1 DEF PlainPath, AcceptPlain
      <4> QED BY <4>1 DEF Handed
    <3> QED BY <3>1, <3>2, <3>3, <3>4
  <2>2. CASE SpecPath
    <3>1. PICK a \in 0 .. Deepest(h) : AcceptTokens(h, a, a + 1, FALSE)
      BY <2>2 DEF SpecPath, AcceptSpec
    <3>2. PICK path \in Paths(parents[h]) : AcceptPath(h, path) /\ Handed(h, path)
      <4>1. PICK path \in Paths(parents[h]) :
                /\ AcceptPath(h, path)
                /\ ext_rows' = [ext_rows EXCEPT ![h] = ExtRows(h, path)]
        BY <2>2 DEF SpecPath
      <4> QED BY <4>1 DEF Handed
    <3>3. a + 1 \in 1 .. (a + 1)
      <4>1. a \in Int /\ 0 <= a
        OBVIOUS
      <4> QED BY <4>1
    <3>4. /\ a \in Nat /\ (tree[h] = NoTree => a = 0) /\ committed[h] \in Nat
          /\ committed'[h] = committed[h] + IF tree[h] # NoTree THEN a + 1 ELSE Span(h)
      BY <1>1, <1>2, <3>1, <3>3, AcceptCounts DEF TypeOK, SchedTypeOK
    <3>5. PathSpelled(parents[h], tree[h], path)
      BY <1>3, PathSpells
    <3>6. CASE tree[h] # NoTree
      <4>1. Len(path) = committed'[h] - committed[h] - 1
        BY <3>2, <3>6 DEF AcceptPath
      <4>2. committed'[h] = committed[h] + (a + 1)
        BY <3>4, <3>6
      <4>3. Len(path) = a
        BY <3>4, <4>1, <4>2
      <4> QED BY <3>1, <3>2, <4>3
    <3>7. CASE tree[h] = NoTree
      <4>1. path = << >> /\ Len(<< >>) = 0
        BY <3>5, <3>7 DEF PathSpelled, NoTree
      <4> QED BY <3>1, <3>2, <3>4, <3>7, <4>1
    <3> QED BY <3>6, <3>7
  <2> QED BY <2>1, <2>2
<1>5. a + 1 \in 1 .. (a + 1) /\ a \in Nat
  <2>1. a \in Int /\ 0 <= a
    OBVIOUS
  <2> QED BY <2>1
<1>6. /\ out'[h] = out[h] + (a + 1) /\ (tree[h] = NoTree => a = 0) /\ UNCHANGED tree
      /\ out[h] \in Nat
  BY <1>1, <1>2, <1>4, <1>5, AcceptCounts DEF TypeOK, SchedTypeOK
<1>7. /\ committed'[h] = IF h \in Newly THEN prompt[h] ELSE committed[h] + a + 1
      /\ committed'[h] \in Nat
  BY <1>1, <1>2, <1>4, <1>5, GoesOn
<1>8. PathSpelled(parents[h], tree[h], path)
  BY <1>3, PathSpells
<1>9. PICK t \in Seq(Nat) : t = PathTokens(parents[h], path) /\ Len(t) = a
  BY <1>4, <1>8 DEF PathSpelled
<1>10. PICK e : e = Append(t, Fresh)
  OBVIOUS
<1>11. e \in Seq(Nat) /\ Len(e) = a + 1
  BY <1>9, <1>10 DEF Fresh
<1>12. Answer(h, path) = e
  BY <1>9, <1>10 DEF Answer
<1>13. SubSeq(e, 1, a + 1) = e
  BY <1>11, OpeningsJoined DEF Opening
<1>14. out'[h] - out[h] = a + 1
  BY <1>5, <1>6
<1>15. out_tokens' = [out_tokens EXCEPT ![h] = @ \o e]
  BY <1>4, <1>9, <1>10, <1>13, <1>14 DEF AcceptPath
<1>16. /\ moves' = moves \o NotedMoves(h, path)
       /\ rows' = [rows EXCEPT ![h] = << >>]
       /\ UNCHANGED <<prompt_ids, parents, kv, draft_kv>>
  BY <1>4 DEF AcceptPath
<1>17. tree[h] = NoTree => path = << >>
  BY <1>8 DEF PathSpelled, NoTree
<1>18. out'[h] = out[h] + Len(path) + 1 /\ Len(path) = a
  <2>1. Len(path) = a
    BY <1>4
  <2>2. PICK o \in Nat : o = out[h]
    BY <1>6
  <2>3. PICK b \in Nat : b = a
    BY <1>5
  <2>4. o + (b + 1) = o + b + 1
    OBVIOUS
  <2>5. out'[h] = o + b + 1
    BY <1>6, <2>2, <2>3, <2>4
  <2> QED BY <2>1, <2>2, <2>3, <2>5
<1>19. Handed(h, path)
  BY <1>4
<1>20. Walked(h, path)
  BY <1>3, <1>4, <1>6, <1>7, <1>8, <1>11, <1>12, <1>15, <1>16, <1>17, <1>18 DEF Walked
<1> QED BY <1>19, <1>20

\* The text of a request that goes on.
LEMMA WalkedWords ==
    ASSUME TypeOK, TextInv, UNCHANGED <<prompt, asked>>, NEW h \in Request, Worded(h),
           NEW path, Walked(h, path)
    PROVE  Text(h)' = Text(h) \o Answer(h, path) /\ Worded(h)' /\ out_tokens'[h] # << >>
<1>1. PICK s \in Seq(Nat) : s = Opening(prompt_ids[h], asked[h])
  <2>1. asked[h] \in 0 .. Len(prompt_ids[h])
    BY TextTyped
  <2> QED BY <2>1, Openings DEF Worded
<1>2. PICK o \in Seq(Nat) : o = out_tokens[h]
  BY DEF Worded
<1>3. PICK e \in Seq(Nat) : e = Answer(h, path)
  BY DEF Walked
<1>4. out_tokens'[h] = o \o e /\ prompt_ids' = prompt_ids
  BY <1>2, <1>3 DEF Walked, TextInv
<1>5. s \o (o \o e) = (s \o o) \o e
  BY Regrouped DEF Regroup
<1>6. Text(h) = s \o o /\ Text(h)' = s \o (o \o e)
  BY <1>1, <1>2, <1>4 DEF Text, Opening
<1>7. Text(h)' = Text(h) \o e
  BY <1>5, <1>6
<1>8. PICK t \in Seq(Nat) : t = Text(h) /\ Len(t) = asked[h] + out[h]
  BY TextTyped
<1>9. o \o e \in Seq(Nat) /\ Len(o \o e) = Len(o) + Len(e)
  BY OpeningsJoined
<1>10. /\ Len(e) = Len(path) + 1 /\ Len(path) \in Nat /\ out'[h] = out[h] + Len(path) + 1
       /\ out[h] \in Nat /\ prompt[h] \in Nat /\ asked[h] \in Nat
  BY <1>3 DEF Walked, PathSpelled, TypeOK, SchedTypeOK
<1>11. Len(o) = out[h] /\ prompt[h] <= asked[h] + out[h] /\ asked[h] <= prompt[h]
  BY <1>2 DEF Worded
<1>12. Len(o \o e) = out'[h] /\ prompt[h] <= asked[h] + out'[h]
  <2>1. PICK l \in Nat, n \in Nat, a \in Nat : l = Len(path) /\ n = out[h] /\ a = asked[h]
    BY <1>10
  <2>2. Len(o \o e) = n + (l + 1)
    BY <1>9, <1>10, <1>11, <2>1
  <2>3. out'[h] = n + l + 1
    BY <1>10, <2>1
  <2>4. prompt[h] <= a + n
    BY <1>11, <2>1
  <2>5. n + (l + 1) = n + l + 1 /\ a + (n + l + 1) >= a + n
    OBVIOUS
  <2>6. PICK q \in Nat : q = prompt[h]
    BY <1>10
  <2>7. q <= a + (n + l + 1)
    BY <2>4, <2>6
  <2>8. Len(o \o e) = out'[h]
    BY <2>2, <2>3, <2>5
  <2> QED BY <2>1, <2>3, <2>6, <2>7, <2>8
<1>13. Opening(t \o e, prompt[h]) = Opening(t, prompt[h])
  <2>1. prompt[h] \in 0 .. Len(t)
    BY <1>8, <1>10, <1>11
  <2> QED BY <2>1, OpeningsJoined
<1>14. prompt_ids'[h] = Opening(Text(h)', prompt'[h])
  BY <1>4, <1>7, <1>8, <1>13 DEF Worded
<1>15. Worded(h)'
  BY <1>4, <1>9, <1>11, <1>12, <1>14 DEF Worded
<1>16. out_tokens'[h] # << >>
  <2>1. Len(o \o e) # 0
    BY <1>10, <1>12
  <2> QED BY <1>4, <2>1
<1> QED BY <1>3, <1>7, <1>15, <1>16

\* A request that is done is forgotten; one that goes on has a longer text.
LEMMA AcceptWords ==
    ASSUME IInv, IInv', MoveInv, TextInv, FinishPath \/ PlainPath \/ SpecPath
    PROVE  TextInv'
<1>0. PICK h : h = Head(todo)
  OBVIOUS
<1>1. AcceptDone \/ AcceptPlain \/ AcceptSpec
  BY DEF FinishPath, PlainPath, SpecPath
<1>2. /\ pc = "accept" /\ todo # << >> /\ UNCHANGED <<waiting, prompt, asked, admitted, updates>>
      /\ h \in Request /\ h \in Running /\ h \in Todo
      /\ \A r \in Request \ {h} : out'[r] = out[r]
      /\ \/ pc' = "accept" /\ todo' = Tail(todo)
         \/ pc' = "regrow" /\ todo' = todo
  BY <1>0, <1>1, Accepts
<1>3. TypeOK /\ Queued /\ state[h] = "running" /\ pc' # "exhausted"
  BY <1>2 DEF IInv, InCall, Queued
<1>4. Newly' = Newly \ {h}
  BY <1>0, <1>2, <1>3, AcceptedOne
<1>5. Worded(h)
  BY <1>2, <1>3 DEF TextInv
<1>6. CASE FinishPath
  <2>1. /\ rows' = [rows EXCEPT ![h] = << >>]
        /\ prompt_ids' = [prompt_ids EXCEPT ![h] = << >>]
        /\ out_tokens' = [out_tokens EXCEPT ![h] = << >>]
        /\ parents' = [parents EXCEPT ![h] = NoParents]
        /\ state' = [state EXCEPT ![h] = "done"] /\ running' = Without(running, h)
    BY <1>0, <1>6 DEF FinishPath, AcceptDone, Finish
  <2>2. Running' = Running \ {h}
    <3>1. running \in Seq(Request) /\ IsInjective(running) /\ h \in ToSet(running)
      BY <1>2, <1>3 DEF Running, Queued, TypeOK, SchedTypeOK
    <3> QED BY <2>1, <3>1, RemoveQueue DEF Running
  <2>3. /\ state'[h] = "done" /\ \A r \in Request \ {h} : state'[r] = state[r]
    BY <1>2, <1>3, <2>1 DEF TypeOK, SchedTypeOK
  <2>4. /\ DOMAIN prompt_ids' = Request /\ DOMAIN out_tokens' = Request /\ DOMAIN rows' = Request
        /\ \A r \in Request \ {h} : prompt_ids'[r] = prompt_ids[r] /\ out_tokens'[r] = out_tokens[r]
    BY <2>1 DEF TextInv
  <2>5. \A r \in Request \ {h} : Worded(r) => Worded(r)'
    BY <1>2, <2>4 DEF Worded, Text, Opening
  <2>6. \A r \in Request : Leveled(parents[r])'
    <3>1. DOMAIN parents = Request
      BY <1>2 DEF MoveInv, Shaped
    <3>2. parents'[h] = NoParents /\ \A r \in Request \ {h} : parents'[r] = parents[r]
      BY <1>2, <2>1, <3>1
    <3>3. Leveled(NoParents)
      BY DEF Leveled, NoParents
    <3>4. Leveled(parents[h])'
      BY <3>2, <3>3 DEF Leveled
    <3>5. \A r \in Request \ {h} : Leveled(parents[r])'
      BY <3>2 DEF TextInv, Leveled
    <3> QED BY <3>4, <3>5
  <2>7. \A r \in Running' \ Newly' : r \in Running \ Newly /\ r \in Request \ {h}
    BY <1>3, <1>4, <2>2, Members
  <2> QED BY <2>3, <2>4, <2>5, <2>6, <2>7 DEF TextInv
<1>7. CASE PlainPath \/ SpecPath
  <2>1. PICK path : Walked(h, path)
    BY <1>0, <1>7, PathTaken
  <2>2. Worded(h)' /\ out_tokens'[h] # << >>
    BY <1>2, <1>3, <1>5, <2>1, WalkedWords
  <2>3. running' = running /\ state' = state
    BY <1>7 DEF PlainPath, SpecPath, AcceptPlain, AcceptSpec
  <2>4. /\ prompt_ids' = prompt_ids /\ parents' = parents
        /\ out_tokens' = [out_tokens EXCEPT ![h] = @ \o Answer(h, path)]
        /\ rows' = [rows EXCEPT ![h] = << >>]
    BY <2>1 DEF Walked
  <2>5. /\ DOMAIN out_tokens' = Request /\ DOMAIN rows' = Request
        /\ \A r \in Request \ {h} : out_tokens'[r] = out_tokens[r]
    BY <2>4 DEF TextInv
  <2>6. \A r \in Request \ {h} : Worded(r) => Worded(r)'
    BY <1>2, <2>4, <2>5 DEF Worded, Text, Opening
  <2>7. \A r \in Request : Leveled(parents[r])'
    BY <2>4 DEF TextInv, Leveled
  <2>8. Running' = Running
    BY <2>3 DEF Running
  <2>9. \A r \in Running' \ Newly' : r = h \/ (r \in Running \ Newly /\ r \in Request \ {h})
    BY <1>3, <1>4, <2>8, Members
  <2>10. \A r \in Running' \ Newly' : out_tokens'[r] # << >>
    BY <2>2, <2>5, <2>9 DEF TextInv
  <2>11. \A r \in Request : state'[r] \in {"waiting", "running"} => Worded(r)'
    BY <2>2, <2>3, <2>6 DEF TextInv
  <2>12. \A r \in Request : state'[r] = "new" => out_tokens'[r] = << >>
    BY <1>3, <2>3, <2>5 DEF TextInv
  <2> QED BY <2>4, <2>5, <2>7, <2>10, <2>11, <2>12 DEF TextInv
<1> QED BY <1>6, <1>7

\* The levels grow trees of levels.
LEMMA DraftWords ==
    ASSUME IInv, TextInv, DraftTrees
    PROVE  TextInv'
<1>1. Draft /\ LocalsDead /\ UNCHANGED <<prompt_ids, out_tokens>>
  BY DEF DraftTrees
<1>2. /\ UNCHANGED <<running, state, prompt, out>> /\ Newly' = Newly
  BY <1>1, NewlyStays
<1>3. asked' = asked /\ Running' = Running /\ DOMAIN rows' = Request
  BY <1>1, <1>2 DEF Draft, LocalsDead, Nobody, Running
<1>4. PICK d : d = DraftDepth(Len(alive))
  OBVIOUS
<1>5. d \in Nat
  <2>1. alive \in Seq(Request) /\ alive # << >>
    BY <1>1 DEF Draft, AcceptEnds, IInv, TypeOK
  <2>2. Len(alive) \in Nat \ {0}
    BY <2>1
  <2> QED BY <1>4, <2>2, DraftDepthType
<1>6. PICK p \in [ToSet(alive) -> TreesOf(d)] :
          parents' = [r \in Request |-> IF r \in ToSet(alive) THEN p[r] ELSE parents[r]]
  BY Zenon, <1>4 DEF DraftTrees
<1>7. ASSUME NEW r \in Request PROVE Leveled(parents[r])'
  <2>1. CASE r \in ToSet(alive)
    <3>1. PICK q \in TreesOf(d) : q = p[r]
      BY <1>6, <2>1
    <3>2. Leveled(q) /\ parents'[r] = q
      BY <1>5, <1>6, <2>1, <3>1, TreesLeveled
    <3> QED BY <3>2 DEF Leveled
  <2>2. CASE r \notin ToSet(alive)
    BY <1>6, <2>2 DEF TextInv, Leveled
  <2> QED BY <2>1, <2>2
<1> QED BY <1>1, <1>2, <1>3, <1>7, TextsStay

\* A restarted request's prompt is its text.
LEMMA RestartWords ==
    ASSUME IInv, Shaped, Context, TextInv, RestartText
    PROVE  TextInv'
<1>0. PICK h : h = Head(todo)
  OBVIOUS
<1>1. /\ TypeOK /\ Queued /\ Locals /\ pc = "restart" /\ pc' = "restart" /\ todo # << >>
      /\ running \in Seq(Request)
  BY DEF IInv, InCall, RestartText, RestartHead, TypeOK, SchedTypeOK
<1>2. h \in Request /\ h \in Running /\ state[h] = "running"
  BY <1>0, <1>1, Visits DEF Queued
<1>3. /\ running' = Without(running, h) /\ state' = [state EXCEPT ![h] = "waiting"]
      /\ prompt' = [prompt EXCEPT ![h] = @ + out[h]] /\ UNCHANGED <<asked, out>>
      /\ prompt_ids' = [prompt_ids EXCEPT ![h] = @ \o out_tokens[h]]
      /\ parents' = [parents EXCEPT ![h] = NoParents]
      /\ UNCHANGED <<out_tokens, rows>>
  BY <1>0 DEF RestartText, RestartHead, Restart, local
<1>4. Running' = Running \ {h} /\ Newly = {} /\ Newly' = {}
  <2>1. IsInjective(running) /\ h \in ToSet(running)
    BY <1>1, <1>2 DEF Queued, Running
  <2> QED BY <1>1, <1>3, <2>1, RemoveQueue DEF Running, Newly, Pending
<1>5. /\ prompt'[h] = prompt[h] + out[h] /\ prompt_ids'[h] = prompt_ids[h] \o out_tokens[h]
      /\ DOMAIN prompt_ids' = Request /\ state'[h] = "waiting"
      /\ \A r \in Request \ {h} : /\ prompt'[r] = prompt[r] /\ prompt_ids'[r] = prompt_ids[r]
                                  /\ state'[r] = state[r]
  BY <1>1, <1>2, <1>3 DEF TextInv, TypeOK, SchedTypeOK
<1>6. Worded(h) /\ asked[h] = prompt[h]
  BY <1>1, <1>2 DEF TextInv, Context
<1>7. PICK s \in Seq(Nat) : s = prompt_ids[h] /\ Len(s) = asked[h]
  BY <1>6 DEF Worded
<1>8. PICK o \in Seq(Nat) : o = out_tokens[h] /\ Len(o) = out[h]
  BY <1>6 DEF Worded
<1>9. /\ Opening(s, Len(s)) = s /\ Opening(s \o o, Len(s)) = s /\ Opening(s \o o, Len(s \o o)) = s \o o
      /\ s \o o \in Seq(Nat) /\ Len(s \o o) = Len(s) + Len(o)
  <2>1. /\ s \o o \in Seq(Nat) /\ Len(s \o o) = Len(s) + Len(o)
        /\ \A k \in 0 .. Len(s) : Opening(s \o o, k) = Opening(s, k)
        /\ Opening(s, Len(s)) = s
    BY OpeningsJoined
  <2>2. Len(s) \in 0 .. Len(s)
    <3>1. Len(s) \in Nat
      OBVIOUS
    <3> QED BY <3>1
  <2>3. PICK w \in Seq(Nat) : w = s \o o
    BY <2>1
  <2>4. Opening(w, Len(w)) = w
    BY OpeningsJoined
  <2> QED BY <2>1, <2>2, <2>3, <2>4
<1>10. Text(h) = s \o o /\ Text(h)' = s \o o
  BY <1>3, <1>5, <1>7, <1>8, <1>9 DEF Text, Opening
<1>11. Worded(h)'
  <2>1. asked[h] \in Nat /\ out[h] \in Nat
    BY <1>1, <1>2 DEF TypeOK, SchedTypeOK
  <2>2. prompt'[h] = asked[h] + out[h] /\ asked[h] <= prompt'[h] /\ Len(s \o o) = prompt'[h]
    BY <1>5, <1>6, <1>7, <1>8, <1>9, <2>1
  <2>3. /\ prompt_ids'[h] = s \o o /\ out_tokens'[h] = o /\ asked' = asked /\ out' = out
    BY <1>3, <1>5, <1>7, <1>8
  <2>4. prompt'[h] <= asked'[h] + out'[h]
    BY <2>1, <2>2, <2>3
  <2> QED BY <1>8, <1>9, <1>10, <2>1, <2>2, <2>3, <2>4 DEF Worded
<1>12. \A r \in Request \ {h} : Worded(r) => Worded(r)'
  BY <1>3, <1>5 DEF Worded, Text, Opening
<1>13. \A r \in Request : Leveled(parents[r])'
  <2>1. DOMAIN parents = Request
    BY <1>1 DEF Shaped
  <2>2. parents'[h] = NoParents /\ \A r \in Request \ {h} : parents'[r] = parents[r]
    BY <1>2, <1>3, <2>1
  <2>3. Leveled(NoParents)
    BY DEF Leveled, NoParents
  <2>4. Leveled(parents[h])'
    BY <2>2, <2>3 DEF Leveled
  <2>5. \A r \in Request \ {h} : Leveled(parents[r])'
    BY <2>2 DEF TextInv, Leveled
  <2> QED BY <2>4, <2>5
<1>14. \A r \in Request : state'[r] \in {"waiting", "running"} => Worded(r)'
  BY <1>5, <1>11, <1>12 DEF TextInv
<1>15. \A r \in Request : state'[r] = "new" => out_tokens'[r] = << >>
  BY <1>3, <1>5 DEF TextInv
<1> QED BY <1>3, <1>4, <1>5, <1>13, <1>14, <1>15 DEF TextInv

\* Steps of the engine that are no texts' business.
LEMMA BookkeepingWords ==
    ASSUME IInv, TextInv, pc' # "exhausted", Bookkeeping
    PROVE  TextInv'
<1>1. UNCHANGED <<prompt_ids, out_tokens, parents, rows>>
  BY DEF Bookkeeping, contents, texts, local
<1>2. DOMAIN rows' = Request /\ \A r \in Request : Leveled(parents[r])'
  BY <1>1 DEF TextInv, Leveled
<1>3. CASE BeginStep \/ StepIsEmpty \/ BeginRun \/ Reserve \/ Regrow
  <2>1. /\ UNCHANGED <<running, state, prompt, out>> /\ Newly' = Newly
    BY <1>3, NewlyStays
  <2>2. asked' = asked /\ Running' = Running
    BY <1>3, <2>1 DEF BeginStep, StepIsEmpty, BeginRun, Reserve, Regrow, Running
  <2> QED BY <1>1, <1>2, <2>1, <2>2, TextsStay
<1>4. CASE Capture \/ EndUpdate
  <2>1. /\ UNCHANGED <<running, state, prompt, out, asked>> /\ pc \in {"capture", "restart"}
        /\ pc' = "idle"
    BY <1>4 DEF Capture, EndUpdate, sched, request
  <2>2. Newly' = Newly /\ Running' = Running
    BY <2>1 DEF Newly, Pending, Running
  <2> QED BY <1>1, <1>2, <2>1, <2>2, TextsStay
<1>5. CASE Rest
  <2>1. UNCHANGED <<running, state, prompt, out, asked, pc, admitted, todo>>
    BY <1>5 DEF Rest, vars, sched, request, step
  <2>2. Newly' = Newly /\ Running' = Running
    BY <2>1 DEF Newly, Pending, Running, Todo, Admitted
  <2> QED BY <1>1, <1>2, <2>1, <2>2, TextsStay
<1>6. CASE Admit
  <2>0. PICK h : h = Head(waiting)
    OBVIOUS
  <2>1. TypeOK /\ Queued /\ Locals /\ pc = "admit" /\ pc' = "admit" /\ waiting # << >>
        /\ waiting \in Seq(Request) /\ running \in Seq(Request) /\ admitted \in Seq(Request)
    BY <1>6 DEF IInv, InCall, Admit, HeadFits, MayAdmit, TypeOK, SchedTypeOK
  <2>2. /\ running' = Append(running, h) /\ admitted' = Append(admitted, h)
        /\ state' = [state EXCEPT ![h] = "running"]
        /\ UNCHANGED <<prompt, asked, out>>
    BY <1>6, <2>0 DEF Admit, AdmitRequest
  <2>3. h \in ToSet(waiting) /\ h \in Request /\ state[h] = "waiting"
    BY <2>0, <2>1, TailQueue DEF Queued
  <2>4. Running' = Running \cup {h} /\ Admitted' = Admitted \cup {h}
    BY <2>1, <2>2, <2>3, AppendQueue DEF Running, Admitted
  <2>5. Newly = Running \cap Admitted /\ Newly' = Newly \cup {h}
    BY <2>1, <2>4 DEF Newly, Pending, Running, Admitted
  <2>6. (Running \ Newly)' \subseteq Running \ Newly
    BY <2>4, <2>5
  <2>7. state'[h] = "running" /\ \A r \in Request \ {h} : state'[r] = state[r]
    BY <2>1, <2>2, <2>3 DEF TypeOK, SchedTypeOK
  <2>8. \A r \in Request : state'[r] = "new" => state[r] = "new"
    BY <2>3, <2>7
  <2>9. \A r \in Request : state'[r] \in {"waiting", "running"} => state[r] \in {"waiting", "running"}
    BY <2>3, <2>7
  <2> QED BY <1>1, <1>2, <2>2, <2>6, <2>8, <2>9, TextsStay
<1>7. CASE Raise
  BY <1>7 DEF Raise
<1> QED BY <1>3, <1>4, <1>5, <1>6, <1>7 DEF Bookkeeping

\* Every step keeps the texts.
LEMMA StepWords ==
    ASSUME IInv, IInv', MoveInv, Context, TextInv, [CacheNext]_<<vars, contents>>,
           pc # "exhausted", pc' # "exhausted"
    PROVE  TextInv'
<1>1. CASE AddText
  BY <1>1, AddWords
<1>2. CASE RunForward
  <2>1. Forward /\ UNCHANGED <<prompt_ids, out_tokens, parents>> /\ DOMAIN rows' = Request
    BY <1>2 DEF RunForward, texts
  <2>2. UNCHANGED <<running, state, prompt, out>> /\ Newly' = Newly
    BY <2>1, NewlyStays
  <2>3. asked' = asked /\ Running' = Running /\ \A r \in Request : Leveled(parents[r])'
    BY <2>1, <2>2 DEF Forward, Running, TextInv, Leveled
  <2> QED BY <2>1, <2>2, <2>3, TextsStay
<1>3. CASE FinishPath \/ PlainPath \/ SpecPath
  BY <1>3, AcceptWords
<1>4. CASE DraftTrees
  BY <1>4, DraftWords
<1>5. CASE EndWithoutDraft
  <2>1. EndStep /\ UNCHANGED <<prompt_ids, out_tokens, parents>> /\ rows' = Nobody(<< >>)
    BY <1>5 DEF EndWithoutDraft, texts, LocalsDead
  <2>2. UNCHANGED <<running, state, prompt, out>> /\ Newly' = Newly
    BY <2>1, NewlyStays
  <2>3. /\ asked' = asked /\ Running' = Running /\ \A r \in Request : Leveled(parents[r])'
        /\ DOMAIN rows' = Request
    BY <2>1, <2>2 DEF EndStep, Running, TextInv, Leveled, Nobody
  <2> QED BY <2>1, <2>2, <2>3, TextsStay
<1>6. CASE NewWeights
  <2>1. /\ UNCHANGED <<prompt_ids, out_tokens, parents, rows, running, state, prompt, out, asked>>
        /\ pc = "idle" /\ pc' = "restart"
    BY <1>6 DEF NewWeights, UpdateWeights, texts, local, sched, request
  <2>2. Newly' = Newly /\ Running' = Running
    BY <2>1 DEF Newly, Pending, Running
  <2>3. DOMAIN rows' = Request /\ \A r \in Request : Leveled(parents[r])'
    BY <2>1 DEF TextInv, Leveled
  <2> QED BY <2>1, <2>2, <2>3, TextsStay
<1>7. CASE RestartText
  BY <1>7, RestartWords DEF MoveInv
<1>8. CASE Bookkeeping
  BY <1>8, BookkeepingWords
<1>9. CASE UNCHANGED <<vars, contents>>
  <2>1. /\ UNCHANGED <<running, state, prompt, out, asked, pc, admitted, todo>>
        /\ UNCHANGED <<prompt_ids, out_tokens, parents, rows>>
    BY <1>9 DEF vars, sched, request, step, contents, texts, local
  <2>2. Newly' = Newly /\ Running' = Running
    BY <2>1 DEF Newly, Pending, Running, Todo, Admitted
  <2>3. DOMAIN rows' = Request /\ \A r \in Request : Leveled(parents[r])'
    BY <2>1 DEF TextInv, Leveled
  <2> QED BY <2>1, <2>2, <2>3, TextsStay
<1> QED BY <1>1, <1>2, <1>3, <1>4, <1>5, <1>6, <1>7, <1>8, <1>9 DEF CacheNext
----------------------------------------------------------------------------
(***************************************************************************)
(* What the target's cache holds.                                          *)
(***************************************************************************)
\* A request that is prefilled is to write its text, another has written all but a token.
TextFits(r) ==
    /\ Text(r) \in Seq(Nat) /\ committed[r] \in Nat
    /\ r \in Newly => Len(Text(r)) = prompt[r] /\ committed[r] = 0
    /\ r \notin Newly => /\ Len(Text(r)) = committed[r] + 1
                         /\ Last(out_tokens[r]) = Text(r)[committed[r] + 1]

LEMMA TextsFit ==
    ASSUME IInv, pc # "exhausted", Context, TextInv, NEW r \in Running
    PROVE  TextFits(r)
<1>1. TypeOK /\ Queued /\ Counted
  BY DEF IInv, InCall
<1>2. r \in Request /\ state[r] = "running"
  BY <1>1, Members DEF Queued
<1>3. Worded(r)
  BY <1>2 DEF TextInv
<1>4. /\ committed[r] \in Nat /\ asked[r] \in Nat /\ out[r] \in Nat
  BY <1>1, <1>2 DEF TypeOK, SchedTypeOK
<1>5. /\ Text(r) \in Seq(Nat) /\ Len(Text(r)) = asked[r] + out[r]
      /\ asked[r] \in 0 .. Len(prompt_ids[r])
  BY <1>1, <1>2, <1>3, TextTyped
<1>6. r \in Newly => Len(Text(r)) = prompt[r] /\ committed[r] = 0
  BY <1>1, <1>2, <1>5 DEF Context, Prefilled, Counted, CountedFor
<1>7. ASSUME r \notin Newly
      PROVE  /\ Len(Text(r)) = committed[r] + 1
             /\ Last(out_tokens[r]) = Text(r)[committed[r] + 1]
  <2>1. committed[r] = asked[r] + out[r] - 1
    BY <1>7 DEF Context, Caught
  <2>2. Len(Text(r)) = committed[r] + 1
    BY <1>4, <1>5, <2>1
  <2>3. PICK o \in Seq(Nat) : o = out_tokens[r] /\ Len(o) = out[r]
    BY <1>3 DEF Worded
  <2>4. PICK s \in Seq(Nat) : s = Opening(prompt_ids[r], asked[r]) /\ Len(s) = asked[r]
    BY <1>3, <1>5, Openings DEF Worded
  <2>5. Text(r) = s \o o
    BY <2>3, <2>4 DEF Text, Opening
  <2>6. o # << >>
    BY <1>2, <1>7, <2>3 DEF TextInv
  <2>7. PICK l \in Nat \ {0} : l = Len(o)
    BY <2>6
  <2>8. PICK k \in Nat : k = Len(s)
    OBVIOUS
  <2>9. k + l \in (Len(s) + 1) .. (Len(s) + Len(o)) /\ (k + l) - Len(s) = l
    BY <2>7, <2>8
  <2>10. (s \o o)[k + l] = o[l]
    BY <2>9, ConcatPositions
  <2>11. committed[r] + 1 = k + l
    BY <1>4, <2>1, <2>3, <2>4, <2>7, <2>8
  <2> QED BY <2>2, <2>3, <2>5, <2>7, <2>10, <2>11 DEF Last
<1> QED BY <1>4, <1>5, <1>6, <1>7 DEF TextFits

\* The forward is given the requests it runs, with their slots.
Prepared(r) ==
    /\ Runnable(r) /\ committed[r] + Queries(r) <= seq_len[r]
    /\ committed[r] \in Nat /\ Queries(r) \in Nat

LEMMA ForwardPrepared ==
    ASSUME IInv, pc = "reserve", todo = << >>, Shaped, Context, TextInv, NEW r \in Running
    PROVE  Prepared(r)
<1>1. TypeOK /\ Queued /\ Locals /\ Treed
  BY DEF IInv, InCall
<1>2. r \in Request /\ state[r] = "running" /\ Worded(r) /\ Ordered(parents[r], tree[r])
      /\ Leveled(parents[r])
  BY <1>1, Members DEF Queued, TextInv, Shaped
<1>3. Running = Batch \cup Admitted /\ Batch \cap Admitted = {} /\ Newly = Admitted
  BY <1>1, StepRuns
<1>4. TextFits(r)
  BY TextsFit
<1>5. /\ prompt[r] \in Nat /\ tree[r] \in Nat
  BY <1>1, <1>2 DEF TypeOK, SchedTypeOK
<1>6. RowsFit
  BY RowsAreReserved
<1>7. CASE r \in Admitted
  <2>1. prompt[r] <= seq_len[r]
    BY <1>6, <1>7 DEF RowsFit, Admitted
  <2>2. Queries(r) = prompt[r] /\ committed[r] = 0
    BY <1>3, <1>4, <1>7 DEF Queries, Admitted, TextFits
  <2>3. Prefillable(r)
    BY <1>2, <1>3, <1>4, <1>5, <1>7 DEF Prefillable, TextFits, Worded
  <2> QED BY <1>5, <2>1, <2>2, <2>3 DEF Prepared, Runnable
<1>8. CASE r \notin Admitted
  <2>1. r \in Batch
    BY <1>3, <1>8
  <2>2. committed[r] + 1 + tree[r] <= seq_len[r]
    BY <1>6, <2>1 DEF RowsFit, Batch
  <2>3. Queries(r) = 1 + tree[r]
    BY <1>8 DEF Queries, Admitted
  <2>4. tree[r] <= Depth * TopK
    BY <1>1 DEF Treed, NumDraft
  <2>5. asked[r] \in 0 .. Len(prompt_ids[r])
    BY <1>1, <1>2, TextTyped
  <2>6. out_tokens[r] # << >>
    BY <1>3, <1>8 DEF TextInv
  <2>7. Verifiable(r)
    BY <1>2, <1>3, <1>4, <1>5, <1>8, <2>1, <2>4, <2>5, <2>6 DEF Verifiable, TextFits, Worded
  <2>8. committed[r] \in Nat
    BY <1>4 DEF TextFits
  <2>9. committed[r] + (1 + tree[r]) <= seq_len[r] /\ 1 + tree[r] \in Nat
    BY <1>5, <2>2, <2>8
  <2> QED BY <2>3, <2>7, <2>8, <2>9 DEF Prepared, Runnable
<1> QED BY <1>7, <1>8

\* What r has committed is in cache c, position by position.
Exact(c, r) == \A p \in 0 .. (committed[r] - 1) : c[Phys(r, p)] = Opening(Text(r), p + 1)

\* The forward over r's rows has run.
Ran(r) ==
    /\ rows[r] = RowsOf(r)
    /\ \A k \in 1 .. Queries(r) : kv[Phys(r, committed[r] + k - 1)] = RowOf(r, k)

\* The forward writes every row of every request it runs.
LEMMA ForwardRuns ==
    ASSUME IInv, Shaped, Context, TextInv, RunForward, NEW r \in Running, Exact(kv, r)
    PROVE  Exact(kv, r)' /\ Ran(r)'
<1>1. /\ pc = "reserve" /\ todo = << >> /\ UNCHANGED <<blocks, committed, prompt, tree, admitted, asked>>
      /\ UNCHANGED <<prompt_ids, out_tokens, parents>>
  BY DEF RunForward, Forward, pool, sched, request, texts
<1>2. TypeOK /\ Locals /\ PoolInv
  BY <1>1 DEF IInv, InCall
<1>3. r \in Request /\ r \in Id /\ Running \subseteq Id
  BY <1>2, Members
<1>4. Prepared(r)
  BY <1>1, ForwardPrepared
<1>5. PICK S \in SUBSET Id : S = ToSet(batch \o admitted) /\ S = Running
  <2>1. running = batch \o admitted
    BY <1>1, <1>2 DEF Locals
  <2> QED BY <1>3, <2>1 DEF Running
<1>6. PICK view : view = [s \in S |-> Verified(s)]
  OBVIOUS
<1>7. /\ kv' = Stored(kv, S, view)
      /\ rows' = [s \in Request |-> IF s \notin S THEN << >>
                                    ELSE LET R == VerifyRows(s) IN [k \in DOMAIN R |-> view[s][R[k].slot]]]
  BY <1>5, <1>6 DEF RunForward
<1>8. PICK L \in Nat, n \in Nat : L = committed[r] /\ n = Queries(r)
  BY <1>4 DEF Prepared
<1>9. PICK e : e = View(kv, r)
  OBVIOUS
<1>10. /\ 0 .. (seq_len[r] - 1) \subseteq DOMAIN e /\ DOMAIN e \subseteq Int
       /\ \A p \in 0 .. (seq_len[r] - 1) : e[p] = kv[Phys(r, p)]
  <2>1. Viewed(kv, r)
    BY <1>2, <1>3, ViewIs
  <2>2. DOMAIN e \subseteq Int
    BY <1>9 DEF View
  <2> QED BY <1>9, <2>1, <2>2 DEF Viewed
<1>11. seq_len[r] \in Nat /\ L + n <= seq_len[r]
  BY <1>2, <1>3, <1>4, <1>8 DEF Prepared, PoolInv, PoolTypeOK
<1>12. 0 .. (L + n - 1) \subseteq 0 .. (seq_len[r] - 1)
  BY <1>11
<1>13. Begins(e, Text(r), L)
  <2> SUFFICES ASSUME NEW k \in 1 .. L PROVE e[k - 1] = Opening(Text(r), k)
    BY DEF Begins
  <2>1. k - 1 \in 0 .. (L - 1) /\ k - 1 \in 0 .. (seq_len[r] - 1) /\ (k - 1) + 1 = k
    BY <1>11
  <2> QED BY <1>8, <1>10, <2>1 DEF Exact
<1>14. FilledIn(r)
  <2>1. 0 .. (committed[r] + Queries(r) - 1) \subseteq DOMAIN View(kv, r)
    BY <1>8, <1>9, <1>10, <1>12
  <2>2. Begins(View(kv, r), Text(r), committed[r])
    BY <1>8, <1>9, <1>13
  <2> QED BY <1>4, <2>1, <2>2, ForwardFills DEF Prepared
<1>15. PICK X : X = RowsOf(r)
  OBVIOUS
<1>16. PICK F : F = Filled(e, L, X, n)
  OBVIOUS
<1>17. view[r] = F
  BY <1>5, <1>6, <1>8, <1>9, <1>14, <1>15, <1>16 DEF FilledIn
<1>18. /\ \A k \in 1 .. n : F[L + k - 1] = X[k]
       /\ \A q \in DOMAIN e : q < L => F[q] = e[q]
  <2>1. 0 .. (L + n - 1) \subseteq DOMAIN e
    BY <1>10, <1>12
  <2>2. FilledAt(e, L, X, n)
    BY <1>10, <2>1, Filling
  <2> QED BY <1>16, <2>2 DEF FilledAt
<1>19. \A p \in 0 .. (seq_len[r] - 1) : kv'[Phys(r, p)] = F[p]
  <2> SUFFICES ASSUME NEW p \in 0 .. (seq_len[r] - 1) PROVE kv'[Phys(r, p)] = F[p]
    OBVIOUS
  <2>1. r \in S
    BY <1>5
  <2>2. StoredAt(kv, S, view, r, p)
    BY <1>2, <2>1, StoredIs
  <2> QED BY <1>7, <1>17, <2>2 DEF StoredAt
<1>20. \A p : Phys(r, p)' = Phys(r, p)
  BY <1>1 DEF Phys
<1>21. Text(r)' = Text(r) /\ committed'[r] = L
  BY <1>1, <1>8 DEF Text
<1>22. Exact(kv, r)'
  <2> SUFFICES ASSUME NEW p \in 0 .. (L - 1) PROVE kv'[Phys(r, p)'] = Opening(Text(r), p + 1)
    BY <1>21 DEF Exact
  <2>1. p \in 0 .. (seq_len[r] - 1) /\ p < L
    BY <1>11
  <2>2. kv'[Phys(r, p)'] = F[p] /\ F[p] = e[p] /\ e[p] = kv[Phys(r, p)]
    BY <1>10, <1>18, <1>19, <1>20, <2>1
  <2> QED BY <1>8, <2>2 DEF Exact
<1>23. Queries(r)' = n /\ RowsOf(r)' = X /\ \A k : RowOf(r, k)' = RowOf(r, k)
  <2>1. Queries(r)' = n
    BY <1>1, <1>8 DEF Queries
  <2>2. \A k : RowOf(r, k)' = RowOf(r, k)
    BY <1>1, <1>21 DEF RowOf, Admitted, Words, PathTokens
  <2> QED BY <1>8, <1>15, <2>1, <2>2 DEF RowsOf
<1>24. \A k \in 1 .. n : X[k] = RowOf(r, k)
  BY <1>8, <1>15 DEF RowsOf
<1>25. \A k \in 1 .. n : kv'[Phys(r, L + k - 1)'] = RowOf(r, k)'
  <2> SUFFICES ASSUME NEW k \in 1 .. n PROVE kv'[Phys(r, L + k - 1)'] = RowOf(r, k)'
    OBVIOUS
  <2>1. L + k - 1 \in 0 .. (seq_len[r] - 1)
    BY <1>11
  <2> QED BY <1>18, <1>19, <1>20, <1>23, <1>24, <2>1
<1>26. rows'[r] = X
  <2>1. RowsPlaced(r)
    BY <1>4, RowsArePlaced DEF Prepared
  <2>2. PICK R : R = VerifyRows(r)
    OBVIOUS
  <2>3. DOMAIN R = 1 .. n /\ \A k \in 1 .. n : R[k].slot = L + k - 1
    BY <1>8, <2>1, <2>2 DEF RowsPlaced
  <2>4. rows'[r] = [k \in DOMAIN R |-> F[R[k].slot]]
    BY <1>3, <1>5, <1>7, <1>17, <2>2
  <2>5. rows'[r] = [k \in 1 .. n |-> X[k]]
    BY <1>18, <2>3, <2>4
  <2>6. X = [k \in 1 .. n |-> X[k]]
    BY <1>8, <1>15 DEF RowsOf
  <2> QED BY <2>5, <2>6
<1> QED BY <1>21, <1>22, <1>23, <1>25, <1>26 DEF Ran

\* Cache c once the moves m are made.
Relocated(m, c) ==
    [s \in Slot |-> IF m # << >> /\ \E x \in ToSet(m) : x[2] = s
                    THEN c[(CHOOSE x \in ToSet(m) : x[2] = s)[1]]
                    ELSE c[s]]

\* A destination holds what its source did, another slot what it did.
LandsAt(m, c, s) ==
    /\ \A i \in DOMAIN m : m[i][2] = s => Relocated(m, c)[s] = c[m[i][1]]
    /\ (\A i \in DOMAIN m : m[i][2] # s) => Relocated(m, c)[s] = c[s]

LEMMA MovesLand ==
    ASSUME NEW m \in Seq(Nat \X Nat), FrontToBack(m), NEW c, NEW s \in Slot
    PROVE  LandsAt(m, c, s)
<1>1. PICK D : D = {x \in ToSet(m) : x[2] = s}
  OBVIOUS
<1>2. \A x : x \in ToSet(m) <=> \E i \in 1 .. Len(m) : m[i] = x
  BY InToSet
<1>3. DOMAIN m = 1 .. Len(m)
  OBVIOUS
<1>4. ASSUME NEW i \in DOMAIN m, m[i][2] = s PROVE Relocated(m, c)[s] = c[m[i][1]]
  <2>1. m # << >> /\ m[i] \in ToSet(m)
    BY <1>2, <1>3
  <2>2. \A x \in ToSet(m) : x[2] = s => x = m[i]
    BY ZenonT(30), <1>2, <1>3, <1>4 DEF FrontToBack
  <2>3. (CHOOSE x \in ToSet(m) : x[2] = s) = m[i]
    BY <1>4, <2>1, <2>2
  <2>4. Relocated(m, c)[s] = c[(CHOOSE x \in ToSet(m) : x[2] = s)[1]]
    BY <1>4, <2>1 DEF Relocated
  <2> QED BY <2>3, <2>4
<1>5. ASSUME \A i \in DOMAIN m : m[i][2] # s PROVE Relocated(m, c)[s] = c[s]
  <2>1. \A x \in ToSet(m) : x[2] # s
    BY <1>2, <1>3, <1>5
  <2> QED BY <2>1 DEF Relocated
<1> QED BY <1>4, <1>5 DEF LandsAt

\* After r's own moves, its path follows what it had written, in order.
Lands(r, path, w, c) ==
    /\ \A p \in 0 .. (seq_len[r] - 1) :
           (\A k \in 1 .. Len(path) : p # committed[r] + k) =>
               Relocated(w, c)[Phys(r, p)] = c[Phys(r, p)]
    /\ \A k \in 1 .. Len(path) :
           Relocated(w, c)[Phys(r, committed[r] + k)] = c[Phys(r, committed[r] + 1 + path[k])]

LEMMA CompactionLands ==
    ASSUME PoolInv, NEW r \in Id, committed[r] \in Nat, NEW n \in Nat,
           NEW path, DOMAIN path = 1 .. Len(path), Len(path) \in Nat,
           \A k \in 1 .. Len(path) : path[k] \in 0 .. (n - 1) /\ path[k] >= k - 1,
           path # << >> => committed[r] + 1 + n <= seq_len[r],
           moves \in Seq(Nat \X Nat), Outside(moves, {r}),
           NEW w, w = moves \o NotedMoves(r, path), NotedMoves(r, path) \in Seq(Nat \X Nat),
           w \in Seq(Nat \X Nat), FrontToBack(w), NEW c
    PROVE  Lands(r, path, w, c)
<1>1. PICK L \in Nat, a \in Nat, q \in Nat : L = committed[r] /\ a = Len(path) /\ q = seq_len[r]
  BY DEF PoolInv, PoolTypeOK
<1>2. PICK m \in Seq(Nat \X Nat) : m = NotedMoves(r, path)
  OBVIOUS
<1>3. PICK M \in Nat : M = Len(moves)
  OBVIOUS
<1>4. /\ Len(w) = M + Len(m) /\ DOMAIN w = 1 .. (M + Len(m)) /\ DOMAIN moves = 1 .. M
      /\ \A i \in 1 .. M : w[i] = moves[i]
      /\ \A i \in (M + 1) .. (M + Len(m)) : w[i] = m[i - M]
  <2>1. /\ moves \o m \in Seq(Nat \X Nat) /\ Len(moves \o m) = Len(moves) + Len(m)
        /\ \A i \in 1 .. Len(moves) : (moves \o m)[i] = moves[i]
        /\ \A i \in (Len(moves) + 1) .. (Len(moves) + Len(m)) : (moves \o m)[i] = m[i - Len(moves)]
    BY ConcatPositions
  <2> QED BY <1>2, <1>3, <2>1
<1>5. ASSUME NEW p \in 0 .. (q - 1) PROVE Phys(r, p) \in Slot /\ LandsAt(w, c, Phys(r, p))
                                          /\ \A i \in 1 .. M : w[i][2] # Phys(r, p)
  <2>1. Phys(r, p) \in Slot /\ PlacedAt(r, p, Phys(r, p))
    BY <1>1, PhysSlot, PhysPlace
  <2>2. LandsAt(w, c, Phys(r, p))
    BY <2>1, MovesLand
  <2>3. \A i \in 1 .. M : moves[i][2] # Phys(r, p)
    BY <1>4, <2>1 DEF Outside, Beside, PlacedAt
  <2> QED BY <1>4, <2>1, <2>2, <2>3
<1>6. CASE \A k \in DOMAIN path : path[k] = k - 1
  <2>1. m = << >> /\ Len(m) = 0 /\ M + 0 = M
    BY <1>2, <1>3, <1>6 DEF NotedMoves
  <2>2. \A p \in 0 .. (q - 1) : Relocated(w, c)[Phys(r, p)] = c[Phys(r, p)]
    <3> SUFFICES ASSUME NEW p \in 0 .. (q - 1) PROVE Relocated(w, c)[Phys(r, p)] = c[Phys(r, p)]
      OBVIOUS
    <3>1. \A i \in DOMAIN w : w[i][2] # Phys(r, p)
      BY <1>4, <1>5, <2>1
    <3> QED BY <1>5, <3>1 DEF LandsAt
  <2>3. ASSUME NEW k \in 1 .. a
        PROVE  Relocated(w, c)[Phys(r, L + k)] = c[Phys(r, L + 1 + path[k])]
    <3>0. k \in DOMAIN path /\ path # << >>
      BY <1>1
    <3>1. path[k] = k - 1 /\ path[k] \in 0 .. (n - 1) /\ L + 1 + n <= q
      BY <1>1, <1>6, <3>0
    <3>2. L + 1 + path[k] = L + k /\ L + k \in 0 .. (q - 1)
      BY <3>1
    <3> QED BY <2>2, <3>2
  <2> QED BY <1>1, <2>2, <2>3 DEF Lands
<1>7. CASE ~(\A k \in DOMAIN path : path[k] = k - 1)
  <2>1. m = [k \in 1 .. a |-> <<Phys(r, L + 1 + path[k]), Phys(r, L + k)>>]
    BY <1>1, <1>2, <1>7 DEF NotedMoves, Compaction
  <2>2. Len(m) = a
    BY <2>1
  <2>3. ASSUME NEW k \in 1 .. a
        PROVE  /\ L + k \in 0 .. (q - 1) /\ M + k \in DOMAIN w
               /\ w[M + k][1] = Phys(r, L + 1 + path[k]) /\ w[M + k][2] = Phys(r, L + k)
    <3>1. path[k] \in 0 .. (n - 1) /\ path[k] >= k - 1 /\ L + 1 + n <= q
      BY <1>1, <2>3
    <3>2. L + k \in 0 .. (q - 1)
      BY <3>1
    <3>3. M + k \in (M + 1) .. (M + a) /\ M + k \in 1 .. (M + a) /\ (M + k) - M = k
      OBVIOUS
    <3>4. w[M + k] = m[k]
      BY <1>4, <2>2, <3>3
    <3> QED BY <1>4, <2>1, <2>2, <3>2, <3>3, <3>4
  <2>4. ASSUME NEW p \in 0 .. (q - 1), \A k \in 1 .. a : p # L + k
        PROVE  Relocated(w, c)[Phys(r, p)] = c[Phys(r, p)]
    <3>1. ASSUME NEW i \in DOMAIN w PROVE w[i][2] # Phys(r, p)
      <4>1. CASE i \in 1 .. M
        BY <1>5, <4>1
      <4>2. CASE i \notin 1 .. M
        <5>1. PICK k \in 1 .. a : i = M + k
          <6>1. i \in 1 .. (M + a)
            BY <1>4, <2>2
          <6>2. i - M \in 1 .. a /\ i = M + (i - M)
            BY <4>2, <6>1
          <6> QED BY <6>2
        <5>2. w[i][2] = Phys(r, L + k) /\ L + k \in 0 .. (q - 1) /\ p # L + k
          BY <2>3, <2>4, <5>1
        <5>3. Phys(r, L + k) # Phys(r, p)
          BY <1>1, <5>2, PhysInjective
        <5> QED BY <5>2, <5>3
      <4> QED BY <4>1, <4>2
    <3> QED BY <1>5, <3>1 DEF LandsAt
  <2>5. ASSUME NEW k \in 1 .. a
        PROVE  Relocated(w, c)[Phys(r, L + k)] = c[Phys(r, L + 1 + path[k])]
    <3>1. LandsAt(w, c, Phys(r, L + k))
      BY <1>5, <2>3
    <3> QED BY <2>3, <3>1 DEF LandsAt
  <2> QED BY <1>1, <2>4, <2>5 DEF Lands
<1> QED BY <1>6, <1>7

\* The rows of a request to be accepted are reserved.
RowsHeld(r) ==
    /\ committed[r] \in Nat /\ Queries(r) \in Nat /\ committed[r] + Queries(r) <= seq_len[r]
    /\ r \in Newly => committed[r] = 0 /\ Queries(r) = prompt[r] /\ tree[r] = NoTree
    /\ r \notin Newly => Queries(r) = 1 + tree[r]

LEMMA TodoHeld ==
    ASSUME IInv, pc = "accept", NEW r \in Todo
    PROVE  RowsHeld(r) /\ r \in Running /\ r \in Request /\ r \in Id /\ Newly = Todo \cap Admitted
<1>1. TypeOK /\ Queued /\ Locals /\ Treed /\ Counted /\ Reserved /\ Newly = Todo \cap Admitted
      /\ Pending = Todo
  BY DEF IInv, InCall, Newly, Pending
<1>2. r \in Running /\ r \in Request /\ r \in Id
  BY <1>1, Members DEF Locals
<1>3. /\ prompt[r] \in Nat /\ tree[r] \in Nat /\ committed[r] \in Nat /\ tree[r] <= NumDraft
      /\ Slots \in Nat /\ NumDraft \in Nat /\ Slots = NumDraft + 1
  BY <1>1, <1>2, SlotsType DEF TypeOK, SchedTypeOK, Treed, Slots
<1>4. CASE r \in Newly
  <2>1. committed[r] = 0 /\ Queries(r) = prompt[r] /\ tree[r] = NoTree
    BY <1>1, <1>2, <1>4 DEF Counted, CountedFor, Queries, Admitted
  <2>2. Taken(r) = Extra /\ Extra \in Nat
    BY <1>1, <1>3, <1>4 DEF Taken, Extra
  <2>3. seq_len[r] = prompt[r] + Taken(r)
    BY <1>2, <1>4 , <1>1 DEF Reserved
  <2> QED BY <1>1, <1>2, <1>3, <1>4, <2>1, <2>2, <2>3 DEF RowsHeld
<1>5. CASE r \notin Newly
  <2>1. Queries(r) = 1 + tree[r]
    BY <1>1, <1>5 DEF Queries, Admitted
  <2>2. Taken(r) = Slots
    BY <1>1, <1>5 DEF Taken
  <2>3. seq_len[r] = committed[r] + Taken(r)
    BY <1>1, <1>2, <1>5 DEF Reserved
  <2>4. committed[r] + (1 + tree[r]) <= seq_len[r] /\ 1 + tree[r] \in Nat
    BY <1>3, <2>2, <2>3
  <2> QED BY <1>1, <1>2, <1>3, <1>5, <2>1, <2>4 DEF RowsHeld
<1> QED BY <1>4, <1>5

\* Once its path is accepted, and its moves are made, r's text is in place.
Landed(r) == \A p \in 0 .. (committed'[r] - 1) :
                 Relocated(moves', kv)[Phys(r, p)] = Opening(Text(r)', p + 1)

LEMMA HeadLands ==
    ASSUME IInv, MoveInv, Noted', Context, TextInv, PlainPath \/ SpecPath,
           NEW h, h = Head(todo), NEW path, Walked(h, path), Exact(kv, h), Ran(h)
    PROVE  Landed(h)
<1>1. pc = "accept" /\ pc' \in {"accept", "regrow"} /\ todo # << >> /\ TypeOK /\ Locals /\ PoolInv
  BY DEF PlainPath, SpecPath, AcceptPlain, AcceptSpec, InAccept, IInv, InCall
<1>2. h \in Todo
  BY <1>1, Visits
<1>3. RowsHeld(h) /\ h \in Running /\ h \in Request /\ h \in Id
  BY <1>1, <1>2, TodoHeld
<1>4. TextFits(h) /\ Worded(h)
  <2>1. state[h] = "running"
    BY <1>1, <1>3 DEF IInv, InCall, Queued
  <2> QED BY <1>1, <1>3, <2>1, TextsFit DEF TextInv
<1>5. Text(h)' = Text(h) \o Answer(h, path)
  <2>1. UNCHANGED <<prompt, asked>>
    <3>1. AcceptDone \/ AcceptPlain \/ AcceptSpec
      BY DEF PlainPath, SpecPath
    <3> QED BY <3>1, Accepts
  <2> QED BY <1>1, <1>3, <1>4, <2>1, WalkedWords
<1>6. PICK L \in Nat, q \in Nat, n \in Nat, a \in Nat :
          L = committed[h] /\ q = seq_len[h] /\ n = tree[h] /\ a = Len(path)
  BY <1>1, <1>3 DEF RowsHeld, PoolInv, PoolTypeOK, Walked, PathSpelled
<1>7. PICK T \in Seq(Nat) : T = Text(h)
  BY <1>4 DEF TextFits
<1>8. PICK t \in Seq(Nat) : t = PathTokens(parents[h], path) /\ Len(t) = a
  BY <1>6 DEF Walked, PathSpelled
<1>9. PICK e \in Seq(Nat) : e = Answer(h, path)
  BY DEF Walked
<1>10. Text(h)' = T \o e /\ Len(e) = a + 1
  BY <1>5, <1>6, <1>7, <1>9 DEF Walked
<1>11. \A k \in 0 .. a : Opening(e, k) = Opening(t, k)
  <2>1. PICK u \in Seq(Nat) : u = << Fresh >> /\ Len(u) = 1
    <3>1. << Fresh >> \in Seq(Nat) /\ Len(<< Fresh >>) = 1
      BY DEF Fresh
    <3> QED BY <3>1
  <2>2. e = t \o u
    BY <1>8, <1>9, <2>1 DEF Answer
  <2>3. \A k \in 0 .. Len(t) : Opening(t \o u, k) = Opening(t, k)
    BY OpeningsJoined
  <2> QED BY <1>8, <2>2, <2>3
<1>12. \A k \in 0 .. Len(T) : Opening(T \o e, k) = Opening(T, k)
  BY OpeningsJoined
<1>13. \A k \in 0 .. Len(e) : Opening(T \o e, Len(T) + k) = T \o Opening(e, k)
  BY OpeningsJoined
<1>14. PathSpelled(parents[h], n, path)
  BY <1>6 DEF Walked
<1>15. path # << >> => L + 1 + n <= q
  <2>1. path # << >> => h \notin Newly
    BY <1>3 DEF Walked, RowsHeld
  <2>2. h \notin Newly => L + (1 + n) <= q
    BY <1>3, <1>6 DEF RowsHeld
  <2> QED BY <2>1, <2>2
<1>16. Lands(h, path, moves', kv)
  <2>1. /\ path \in Paths(parents[h]) /\ moves' = moves \o NotedMoves(h, path)
    BY DEF Walked
  <2>2. /\ tree[h] \in Nat /\ committed[h] \in Nat /\ Ordered(parents[h], tree[h])
        /\ tree[h] # NoTree => committed[h] + 1 + tree[h] <= seq_len[h]
    BY <1>1, HeadReserved DEF MoveInv
  <2>3. NotesOf(NotedMoves(h, path), h)
    BY <1>1, <1>3, <2>1, <2>2, AcceptingNotes
  <2>4. NotedMoves(h, path) \in Seq(Nat \X Nat)
    BY <2>3 DEF NotesOf
  <2>5. moves \in Seq(Nat \X Nat) /\ Outside(moves, {h})
    <3>1. moves \in Seq(Nat \X Nat) /\ Outside(moves, Unvisited) /\ Unvisited = Todo
      BY <1>1 DEF MoveInv, Noted, Unvisited, Todo
    <3> QED BY <1>2, <3>1 DEF Outside, Beside
  <2>6. moves' \in Seq(Nat \X Nat) /\ FrontToBack(moves')
    BY <1>1 DEF Noted
  <2>7. /\ DOMAIN path = 1 .. Len(path) /\ Len(path) \in Nat
        /\ \A k \in 1 .. Len(path) : path[k] \in 0 .. (n - 1) /\ path[k] >= k - 1
    BY <1>14 DEF PathSpelled
  <2>8. path # << >> => committed[h] + 1 + n <= seq_len[h]
    BY <1>6, <1>15
  <2>9. PICK w : w = moves'
    OBVIOUS
  <2>10. Lands(h, path, w, kv)
    BY <1>1, <1>3, <2>1, <2>2, <2>4, <2>5, <2>6, <2>7, <2>8, <2>9, CompactionLands
  <2> QED BY <2>9, <2>10
<1>17. /\ \A p \in 0 .. (q - 1) : (\A k \in 1 .. a : p # L + k) =>
              Relocated(moves', kv)[Phys(h, p)] = kv[Phys(h, p)]
       /\ \A k \in 1 .. a :
              Relocated(moves', kv)[Phys(h, L + k)] = kv[Phys(h, L + 1 + path[k])]
  BY <1>6, <1>16 DEF Lands
<1>18. CASE h \in Newly
  <2>1. L = 0 /\ a = 0 /\ Queries(h) = prompt[h] /\ committed'[h] = prompt[h] /\ Len(T) = prompt[h]
        /\ prompt[h] \in Nat /\ prompt[h] <= q
    <3>1. committed[h] = 0 /\ Queries(h) = prompt[h] /\ tree[h] = NoTree /\ Queries(h) \in Nat
          /\ committed[h] + Queries(h) <= seq_len[h]
      BY <1>3, <1>18 DEF RowsHeld
    <3>2. path = << >> /\ committed'[h] = prompt[h]
      BY <1>18, <3>1 DEF Walked
    <3>3. Len(T) = prompt[h]
      BY <1>4, <1>7, <1>18 DEF TextFits
    <3> QED BY <1>6, <3>1, <3>2, <3>3
  <2> SUFFICES ASSUME NEW p \in 0 .. (prompt[h] - 1)
               PROVE  Relocated(moves', kv)[Phys(h, p)] = Opening(Text(h)', p + 1)
    BY <2>1 DEF Landed
  <2>2. p \in 0 .. (q - 1) /\ p + 1 \in 1 .. prompt[h] /\ L + (p + 1) - 1 = p /\ p + 1 \in 0 .. Len(T)
    BY <2>1
  <2>3. Relocated(moves', kv)[Phys(h, p)] = kv[Phys(h, p)]
    BY <1>17, <2>1, <2>2
  <2>4. kv[Phys(h, p)] = RowOf(h, p + 1)
    BY <1>6, <2>1, <2>2 DEF Ran
  <2>5. h \in Admitted
    BY <1>18 DEF Newly
  <2>6. RowOf(h, p + 1) = Opening(T, p + 1)
    BY <1>7, <2>5 DEF RowOf
  <2> QED BY <1>10, <1>12, <2>2, <2>3, <2>4, <2>6
<1>19. CASE h \notin Newly
  <2>1. committed'[h] = L + a + 1 /\ Queries(h) = 1 + n /\ Len(T) = L + 1 /\ L + 1 + n <= q
        /\ h \notin Admitted
    <3>1. Queries(h) = 1 + tree[h] /\ committed[h] + Queries(h) <= seq_len[h]
      BY <1>3, <1>19 DEF RowsHeld
    <3>2. committed'[h] = committed[h] + Len(path) + 1
      BY <1>19 DEF Walked
    <3>3. Len(T) = committed[h] + 1
      BY <1>4, <1>7, <1>19 DEF TextFits
    <3>4. h \notin Admitted
      BY <1>1, <1>2, <1>19 DEF Newly, Pending
    <3>5. L + (1 + n) <= q
      BY <1>6, <3>1
    <3>6. L + 1 + n <= q
      BY <3>5
    <3>7. committed'[h] = L + a + 1
      BY <1>6, <3>2
    <3> QED BY <1>6, <3>1, <3>3, <3>4, <3>6, <3>7
  <2> SUFFICES ASSUME NEW p \in 0 .. (L + a)
               PROVE  Relocated(moves', kv)[Phys(h, p)] = Opening(T \o e, p + 1)
    <3>1. (L + a + 1) - 1 = L + a
      OBVIOUS
    <3>2. committed'[h] - 1 = L + a
      BY <2>1, <3>1
    <3> QED BY <1>10, <3>2 DEF Landed
  <2>2. CASE p < L
    <3>1. p \in 0 .. (q - 1) /\ (\A k \in 1 .. a : p # L + k) /\ p \in 0 .. (L - 1) /\ p + 1 \in 0 .. Len(T)
      BY <2>1, <2>2
    <3>2. Relocated(moves', kv)[Phys(h, p)] = kv[Phys(h, p)]
      BY <1>17, <3>1
    <3>3. kv[Phys(h, p)] = Opening(T, p + 1)
      BY <1>6, <1>7, <3>1 DEF Exact
    <3> QED BY <1>12, <3>1, <3>2, <3>3
  <2>3. CASE p = L
    <3>1. p \in 0 .. (q - 1) /\ (\A k \in 1 .. a : p # L + k) /\ p + 1 = Len(T) /\ L + 1 - 1 = p
          /\ 1 \in 1 .. (1 + n) /\ p + 1 \in 0 .. Len(T)
      BY <2>1, <2>3
    <3>2. Relocated(moves', kv)[Phys(h, p)] = kv[Phys(h, p)]
      BY <1>17, <3>1
    <3>3. kv[Phys(h, p)] = RowOf(h, 1)
      BY <1>6, <2>1, <3>1 DEF Ran
    <3>4. RowOf(h, 1) = T
      BY <1>7, <2>1 DEF RowOf, Admitted
    <3>5. Opening(T, Len(T)) = T
      BY OpeningsJoined
    <3> QED BY <1>12, <3>1, <3>2, <3>3, <3>4, <3>5
  <2>4. CASE p > L
    <3>1. PICK k \in 1 .. a : p = L + k
      <4>1. p - L \in 1 .. a /\ p = L + (p - L)
        BY <2>4
      <4> QED BY <4>1
    <3>2. Relocated(moves', kv)[Phys(h, p)] = kv[Phys(h, L + 1 + path[k])]
      BY <1>17, <3>1
    <3>3. path[k] \in 0 .. (n - 1) /\ Words(parents[h], path[k]) = Opening(t, k)
      BY <1>6, <1>8, <1>14 DEF PathSpelled
    <3>4. PICK j \in 1 .. (1 + n) : j = path[k] + 2 /\ L + j - 1 = L + 1 + path[k] /\ j # 1 /\ j - 2 = path[k]
      <4>1. PICK x \in 0 .. (n - 1) : x = path[k]
        BY <3>3
      <4>2. /\ x + 2 \in 1 .. (1 + n) /\ L + (x + 2) - 1 = L + 1 + x
            /\ x + 2 # 1 /\ (x + 2) - 2 = x
        OBVIOUS
      <4> QED BY <4>1, <4>2
    <3>5. kv[Phys(h, L + j - 1)] = RowOf(h, j)
      BY <1>6, <2>1 DEF Ran
    <3>6. RowOf(h, j) = T \o Opening(t, k)
      BY <1>7, <2>1, <3>3, <3>4 DEF RowOf, Admitted
    <3>7. p + 1 = Len(T) + k /\ k \in 0 .. Len(e) /\ k \in 0 .. a
      BY <1>10, <2>1, <3>1
    <3>8. Opening(T \o e, p + 1) = T \o Opening(t, k)
      BY <1>11, <1>13, <3>7
    <3> QED BY <3>2, <3>4, <3>5, <3>6, <3>8
  <2> QED BY <2>2, <2>3, <2>4
<1> QED BY <1>18, <1>19

\* While at most one update has been made, the target's cache holds the texts of the running
\* requests: between steps and up to the forward as it is, in the accept loop once the moves
\* noted so far are made.
KvInv ==
    /\ pc \in {"capture", "idle", "admit", "reserve"} => \A r \in Running : Exact(kv, r)
    /\ pc \in {"accept", "regrow"} => /\ \A r \in Pending : Exact(kv, r) /\ Ran(r)
                                      /\ \A r \in Running \ Pending : Exact(Moved, r)

\* Where a running request has written does not move.
LEMMA AddressesStay ==
    ASSUME IInv, Next, pc # "exhausted",
           NEW r \in Request, state[r] = "running", state'[r] = "running"
    PROVE  Settled(r, committed[r])
<1>1. committed[r] \in Nat
  BY DEF IInv, TypeOK, SchedTypeOK
<1>2. \A i \in 1 .. BlocksFor(committed[r]) : blocks'[r][i] = blocks[r][i]
  BY StepStays
<1> QED BY <1>1, <1>2, BlocksSettle

\* A block is in one table.
LEMMA OneOwner ==
    ASSUME PoolInv, NEW r \in Id, NEW h \in Id, NEW b, b \in ToSet(blocks[r]), b \in ToSet(blocks[h])
    PROVE  r = h
<1>1. blocks[r] \in Seq(Block) /\ blocks[h] \in Seq(Block)
  BY DEF PoolInv, PoolTypeOK
<1>2. PICK i \in 1 .. Len(blocks[r]) : blocks[r][i] = b
  BY <1>1, InToSet
<1>3. PICK j \in 1 .. Len(blocks[h]) : blocks[h][j] = b
  BY <1>1, InToSet
<1> QED BY <1>1, <1>2, <1>3 DEF PoolInv, EveryBlockOnce, OwnedOnce

\* The slot s is the same after the moves v and w.
SameAfter(v, w, c, s) == Relocated(w, c)[s] = Relocated(v, c)[s]

\* Moves that end elsewhere leave a slot as it is.
LEMMA MoreMoves ==
    ASSUME NEW v \in Seq(Nat \X Nat), FrontToBack(v), NEW m \in Seq(Nat \X Nat),
           NEW w \in Seq(Nat \X Nat), w = v \o m, FrontToBack(w), NEW s \in Slot,
           \A i \in DOMAIN m : m[i][2] # s, NEW c
    PROVE  SameAfter(v, w, c, s)
<1> SUFFICES Relocated(w, c)[s] = Relocated(v, c)[s]
  BY DEF SameAfter
<1>1. LandsAt(v, c, s) /\ LandsAt(w, c, s)
  BY MovesLand
<1>2. PICK M \in Nat, l \in Nat : M = Len(v) /\ l = Len(m)
  OBVIOUS
<1>3. /\ DOMAIN v = 1 .. M /\ DOMAIN w = 1 .. (M + l) /\ DOMAIN m = 1 .. l
      /\ \A i \in 1 .. M : w[i] = v[i]
      /\ \A i \in (M + 1) .. (M + l) : w[i] = m[i - M]
  <2>1. /\ Len(v \o m) = Len(v) + Len(m)
        /\ \A i \in 1 .. Len(v) : (v \o m)[i] = v[i]
        /\ \A i \in (Len(v) + 1) .. (Len(v) + Len(m)) : (v \o m)[i] = m[i - Len(v)]
    BY ConcatPositions
  <2>2. DOMAIN v = 1 .. M /\ DOMAIN m = 1 .. l /\ DOMAIN w = 1 .. Len(w)
    BY <1>2
  <2> QED BY <1>2, <2>1, <2>2
<1>4. CASE \E i \in 1 .. M : v[i][2] = s
  <2>1. PICK i \in 1 .. M : v[i][2] = s
    BY <1>4
  <2>2. i \in 1 .. (M + l)
    BY <2>1
  <2>3. Relocated(v, c)[s] = c[v[i][1]] /\ Relocated(w, c)[s] = c[w[i][1]]
    BY <1>1, <1>3, <2>1, <2>2 DEF LandsAt
  <2> QED BY <1>3, <2>1, <2>3
<1>5. CASE ~(\E i \in 1 .. M : v[i][2] = s)
  <2>1. ASSUME NEW i \in 1 .. (M + l) PROVE w[i][2] # s
    <3>1. CASE i \in 1 .. M
      BY <1>3, <1>5, <3>1
    <3>2. CASE i \notin 1 .. M
      <4>1. i \in (M + 1) .. (M + l) /\ i - M \in 1 .. l
        BY <3>2
      <4> QED BY ZenonT(30), <1>3, <4>1
    <3> QED BY <3>1, <3>2
  <2> QED BY <1>1, <1>3, <1>5, <2>1 DEF LandsAt
<1> QED BY <1>4, <1>5

\* What the cache holds of a request the step neither moves nor writes.
Kept(r) == /\ committed'[r] = committed[r] /\ Text(r)' = Text(r)
           /\ \A p : Phys(r, p)' = Phys(r, p)

LEMMA RanStays ==
    ASSUME NEW r \in Request, Kept(r), kv' = kv, rows'[r] = rows[r], prompt' = prompt, tree' = tree,
           admitted' = admitted, parents'[r] = parents[r], Ran(r)
    PROVE  Ran(r)'
<1>1. Queries(r)' = Queries(r)
  BY DEF Queries
<1>2. \A k : RowOf(r, k)' = RowOf(r, k)
  BY DEF RowOf, Admitted, Words, PathTokens, Kept
<1>3. RowsOf(r)' = RowsOf(r)
  BY <1>1, <1>2 DEF RowsOf
<1>4. ASSUME NEW k \in 1 .. Queries(r)
      PROVE  kv'[Phys(r, committed[r] + k - 1)'] = RowOf(r, k)'
  <2>1. PICK p : p = committed[r] + k - 1
    OBVIOUS
  <2>2. Phys(r, p)' = Phys(r, p) /\ Phys(r, committed[r] + k - 1)' = Phys(r, p)'
    BY <2>1 DEF Kept, Phys
  <2> QED BY <1>2, <2>1, <2>2 DEF Ran
<1> QED BY <1>1, <1>3, <1>4 DEF Ran, Kept

\* An accepted request's moves are in its own blocks.
LEMMA HeadMoves ==
    ASSUME IInv, MoveInv, pc = "accept", todo # << >>, NEW h, h = Head(todo),
           NEW path \in Paths(parents[h])
    PROVE  NotesOf(NotedMoves(h, path), h)
<1>1. /\ h \in Request /\ h \in Id /\ tree[h] \in Nat /\ committed[h] \in Nat
      /\ Ordered(parents[h], tree[h])
      /\ tree[h] # NoTree => committed[h] + 1 + tree[h] <= seq_len[h]
  BY HeadReserved DEF MoveInv
<1>2. PoolInv
  BY DEF IInv
<1> QED BY <1>1, <1>2, AcceptingNotes

\* What one round of the accept loop does beside h.
Spared(h) ==
    /\ kv' = kv /\ prompt' = prompt /\ tree' = tree /\ admitted' = admitted
    /\ \A r \in Request \ {h} : Kept(r) /\ rows'[r] = rows[r] /\ parents'[r] = parents[r]

LEMMA AcceptSpares ==
    ASSUME IInv, Shaped, TextInv, FinishPath \/ PlainPath \/ SpecPath, NEW h, h = Head(todo)
    PROVE  Spared(h)
<1>1. AcceptDone \/ AcceptPlain \/ AcceptSpec
  BY DEF FinishPath, PlainPath, SpecPath
<1>2. /\ pc = "accept" /\ todo # << >> /\ UNCHANGED <<prompt, asked, admitted>>
      /\ h \in Request /\ \A r \in Request \ {h} : committed'[r] = committed[r]
      /\ \E a \in 0 .. Deepest(h) : \E k \in 1 .. (a + 1) : \E done : AcceptTokens(h, a, k, done)
  <2>1. /\ pc = "accept" /\ todo # << >> /\ UNCHANGED <<prompt, asked, admitted>>
        /\ h \in Request /\ \A r \in Request \ {h} : committed'[r] = committed[r]
        /\ \E a \in 0 .. Deepest(h) : \E k \in 1 .. (a + 1) :
               AcceptTokens(h, a, k, TRUE) \/ AcceptTokens(h, a, k, FALSE)
    BY <1>1, Accepts
  <2> QED BY <2>1
<1>3. tree' = tree
  BY <1>2 DEF AcceptTokens
<1>4. PoolInv /\ h \in Id /\ Request \subseteq Id /\ TypeOK
  BY <1>2, Members DEF IInv
<1>5. kv' = kv /\ \A r \in Request \ {h} : /\ rows'[r] = rows[r] /\ parents'[r] = parents[r]
                                           /\ prompt_ids'[r] = prompt_ids[r]
                                           /\ out_tokens'[r] = out_tokens[r]
  <2>1. DOMAIN parents = Request /\ DOMAIN rows = Request /\ DOMAIN prompt_ids = Request
        /\ DOMAIN out_tokens = Request
    BY <1>2 DEF Shaped, TextInv
  <2>2. CASE FinishPath
    BY <2>1, <2>2 DEF FinishPath
  <2>3. CASE PlainPath \/ SpecPath
    <3>1. PICK path : AcceptPath(h, path)
      BY <2>3 DEF PlainPath, SpecPath
    <3> QED BY <2>1, <3>1 DEF AcceptPath
  <2> QED BY <2>2, <2>3
<1>6. \A r \in Request \ {h} : blocks'[r] = blocks[r]
  <2>1. CASE FinishPath
    <3>1. blocks' = [blocks EXCEPT ![h] = << >>]
      BY <2>1 DEF FinishPath, AcceptDone, Finish, FreeTable
    <3> QED BY <1>4, <3>1 DEF PoolInv, PoolTypeOK
  <2>2. CASE PlainPath
    BY <2>2 DEF PlainPath, AcceptPlain, pool
  <2>3. CASE SpecPath
    <3>1. PICK n \in Nat : Rollback(h, n)
      <4>1. Rollback(h, committed'[h])
        BY <2>3 DEF SpecPath, AcceptSpec
      <4>2. committed'[h] \in Nat
        <5>1. PICK a \in 0 .. Deepest(h) : \E k \in 1 .. (a + 1) : \E done : AcceptTokens(h, a, k, done)
          BY <1>2
        <5>2. PICK k \in 1 .. (a + 1) : \E done : AcceptTokens(h, a, k, done)
          BY <5>1
        <5>3. PICK done : AcceptTokens(h, a, k, done)
          BY <5>2
        <5>4. committed' \in [Request -> Nat]
          BY <1>2, <1>4, <5>3, AcceptCounts
        <5> QED BY <1>2, <5>4
      <4> QED BY <4>1, <4>2
    <3>2. \A r \in Id \ {h} : blocks'[r] = blocks[r]
      BY <1>4, <3>1, RollbackStays
    <3> QED BY <1>4, <3>2
  <2> QED BY <2>1, <2>2, <2>3
<1>7. \A r \in Request \ {h} : Kept(r)
  BY <1>2, <1>5, <1>6 DEF Kept, Text, Phys
<1> QED BY <1>2, <1>3, <1>5, <1>7 DEF Spared

\* The step's moves, made on the cache, and those noted before it.
LEMMA MovedIs == Moved = Relocated(moves, kv) /\ Moved' = Relocated(moves', kv')
  BY DEF Moved, Relocated

\* A request whose moves were noted before keeps what it has.
LEMMA MovedStays ==
    ASSUME PoolInv, NEW h \in Id, NEW r \in Id, r # h, committed[r] \in Nat,
           committed[r] <= seq_len[r], Kept(r), kv' = kv,
           NEW m, NotesOf(m, h), moves' = moves \o m,
           moves \in Seq(Nat \X Nat), FrontToBack(moves),
           moves' \in Seq(Nat \X Nat), FrontToBack(moves'),
           Exact(Moved, r)
    PROVE  Exact(Moved, r)'
<1> SUFFICES ASSUME NEW p \in 0 .. (committed[r] - 1)
             PROVE  Moved'[Phys(r, p)'] = Opening(Text(r)', p + 1)
  BY DEF Exact, Kept
<1>1. PICK s : s = Phys(r, p)
  OBVIOUS
<1>2. p \in 0 .. (seq_len[r] - 1)
  BY DEF PoolInv, PoolTypeOK
<1>3. s \in Slot /\ s \div BlockSize \in ToSet(blocks[r])
  BY <1>1, <1>2, PhysSlot, PhysPlace DEF PlacedAt
<1>4. m \in Seq(Nat \X Nat) /\ \A i \in DOMAIN m : m[i][2] # s
  BY <1>3, OneOwner DEF NotesOf
<1>5. PICK w \in Seq(Nat \X Nat) : w = moves' /\ w = moves \o m /\ FrontToBack(w)
  OBVIOUS
<1>6. SameAfter(moves, w, kv, s)
  BY <1>3, <1>4, <1>5, MoreMoves
<1>7. Moved'[s] = Moved[s]
  BY <1>5, <1>6, MovedIs DEF SameAfter
<1>8. Phys(r, p)' = s /\ Text(r)' = Text(r)
  BY <1>1 DEF Kept
<1>9. Moved[s] = Opening(Text(r), p + 1)
  BY <1>1 DEF Exact
<1> QED BY <1>7, <1>8, <1>9

\* A request that goes on has its text in place.
LEMMA MovedHead ==
    ASSUME IInv, MoveInv, Noted', Context, TextInv, PlainPath \/ SpecPath,
           NEW h, h = Head(todo), Exact(kv, h), Ran(h)
    PROVE  Exact(Moved, h)'
<1>1. PICK path : Walked(h, path)
  BY PathTaken
<1>2. Landed(h) /\ kv' = kv /\ committed'[h] \in Nat
  BY <1>1, HeadLands DEF Walked
<1>3. Settled(h, committed'[h])
  <2>1. CASE PlainPath
    BY <2>1 DEF PlainPath, AcceptPlain, pool, Settled, Phys
  <2>2. CASE SpecPath
    <3>1. PICK n \in Nat : n = committed'[h]
      BY <1>2
    <3>2. Rollback(h, n)
      BY <2>2, <3>1 DEF SpecPath, AcceptSpec
    <3>3. h \in Id /\ PoolInv
      <4>1. pc = "accept" /\ todo # << >>
        BY <2>2 DEF SpecPath, AcceptSpec, InAccept
      <4> QED BY <4>1, HeadReserved DEF MoveInv, IInv
    <3>4. \A i \in 1 .. BlocksFor(n) : blocks'[h][i] = blocks[h][i]
      BY <3>2, <3>3, RollbackStays
    <3>5. Settled(h, n)
      BY <3>4, BlocksSettle
    <3> QED BY <3>1, <3>5
  <2> QED BY <2>1, <2>2
<1> SUFFICES ASSUME NEW p \in 0 .. (committed'[h] - 1)
             PROVE  Moved'[Phys(h, p)'] = Opening(Text(h)', p + 1)
  BY DEF Exact
<1>4. Phys(h, p)' = Phys(h, p)
  BY <1>3 DEF Settled
<1>5. Moved'[Phys(h, p)] = Opening(Text(h)', p + 1)
  BY <1>2, MovedIs DEF Landed
<1> QED BY <1>4, <1>5

\* The accept loop's rounds.
LEMMA AcceptContents ==
    ASSUME IInv, IInv', MoveInv, MoveInv', Context, TextInv, KvInv,
           FinishPath \/ PlainPath \/ SpecPath
    PROVE  KvInv'
<1>0. PICK h : h = Head(todo)
  OBVIOUS
<1>1. AcceptDone \/ AcceptPlain \/ AcceptSpec
  BY DEF FinishPath, PlainPath, SpecPath
<1>2. /\ pc = "accept" /\ todo # << >> /\ admitted' = admitted
      /\ h \in Request /\ h \in Running /\ h \in Todo
      /\ \/ pc' = "accept" /\ todo' = Tail(todo)
         \/ pc' = "regrow" /\ todo' = todo
      /\ Running' \subseteq Running
  BY <1>0, <1>1, Accepts
<1>3. /\ TypeOK /\ PoolInv /\ Locals /\ pc' \in {"accept", "regrow"} /\ pc' # "exhausted" /\ Pending = Todo
      /\ Running \subseteq Request /\ Request \subseteq Id
  BY <1>2, Members DEF IInv, InCall, Pending
<1>4. Pending' = Todo \ {h} /\ Pending' \subseteq Running
  <2>1. Pending' = Pending \ {h}
    BY <1>0, <1>2, <1>3, AcceptedOne
  <2> QED BY <1>2, <1>3, <2>1 DEF Locals
<1>5. Spared(h)
  BY <1>0, AcceptSpares DEF MoveInv
<1>6. PICK path \in Paths(parents[h]) : moves' = moves \o NotedMoves(h, path)
  <2>1. CASE FinishPath
    BY <1>0, <2>1 DEF FinishPath
  <2>2. CASE PlainPath \/ SpecPath
    <3>1. PICK path : Walked(h, path)
      BY <1>0, <2>2, PathTaken
    <3> QED BY <3>1 DEF Walked
  <2> QED BY <2>1, <2>2
<1>7. PICK m : m = NotedMoves(h, path) /\ NotesOf(m, h) /\ moves' = moves \o m
  BY <1>0, <1>2, <1>6, HeadMoves
<1>8. /\ moves \in Seq(Nat \X Nat) /\ FrontToBack(moves)
      /\ moves' \in Seq(Nat \X Nat) /\ FrontToBack(moves')
  BY <1>2, <1>3 DEF MoveInv, Noted
<1>9. ASSUME NEW r \in Pending' PROVE Exact(kv, r)' /\ Ran(r)'
  <2>1. r \in Todo /\ r \in Request \ {h} /\ Exact(kv, r) /\ Ran(r)
    BY <1>2, <1>3, <1>4 DEF KvInv
  <2>2. Kept(r) /\ kv' = kv /\ rows'[r] = rows[r] /\ prompt' = prompt /\ tree' = tree
        /\ admitted' = admitted /\ parents'[r] = parents[r]
    BY <1>5, <2>1 DEF Spared
  <2>3. Ran(r)'
    BY <2>1, <2>2, RanStays
  <2>4. Exact(kv, r)'
    BY <2>1, <2>2 DEF Exact, Kept
  <2> QED BY <2>3, <2>4
<1>10. ASSUME NEW r \in (Running \ Pending)' PROVE Exact(Moved, r)'
  <2>1. r \in Running /\ r \in Request /\ r \in Id /\ (r = h \/ r \notin Pending)
    BY <1>2, <1>3, <1>4
  <2>2. CASE r = h
    <3>1. PlainPath \/ SpecPath
      <4>1. FinishPath => h \notin Running'
        <5>1. running \in Seq(Request) /\ IsInjective(running) /\ h \in ToSet(running)
          BY <1>2, <1>3 DEF Running, IInv, InCall, Queued, TypeOK, SchedTypeOK
        <5>2. FinishPath => running' = Without(running, h)
          BY <1>0 DEF FinishPath, AcceptDone, Finish
        <5> QED BY <5>1, <5>2, RemoveQueue DEF Running
      <4> QED BY <2>2, <4>1
    <3>2. Exact(kv, h) /\ Ran(h)
      BY <1>2, <1>3 DEF KvInv
    <3> QED BY <1>0, <2>2, <3>1, <3>2, MovedHead DEF MoveInv
  <2>3. CASE r # h
    <3>1. Exact(Moved, r)
      BY <1>2, <2>1, <2>3 DEF KvInv
    <3>2. committed[r] \in Nat /\ committed[r] <= seq_len[r]
      BY <1>2, <2>1, CommittedIsHeld DEF CommittedHeld
    <3>3. Kept(r) /\ kv' = kv
      BY <1>5, <2>1, <2>3 DEF Spared
    <3> QED BY <1>2, <1>3, <1>7, <1>8, <2>1, <2>3, <3>1, <3>2, <3>3, MovedStays
  <2> QED BY <2>2, <2>3
<1> QED BY <1>3, <1>9, <1>10 DEF KvInv

\* A request that neither moves nor writes.
LEMMA ExactStays ==
    ASSUME NEW r, Settled(r, committed[r]), committed'[r] = committed[r], Text(r)' = Text(r)
    PROVE  /\ kv' = kv /\ Exact(kv, r) => Exact(kv, r)'
           /\ Moved' = Moved /\ Exact(Moved, r) => Exact(Moved, r)'
           /\ kv' = Moved /\ Exact(Moved, r) => Exact(kv, r)'
<1>1. \A p \in 0 .. (committed[r] - 1) : Phys(r, p)' = Phys(r, p)
  BY DEF Settled
<1> QED BY <1>1 DEF Exact

\* Whoever runs after the step ran before it, with the same text, or has written nothing.
Quiet == \A r \in Running' : \/ r \in Running /\ committed'[r] = committed[r] /\ Text(r)' = Text(r)
                             \/ committed'[r] = 0

\* A request to be admitted has written nothing.
LEMMA AdmitIsQuiet ==
    ASSUME IInv, Admit, UNCHANGED <<prompt_ids, out_tokens>>
    PROVE  Quiet
<1>0. PICK h : h = Head(waiting)
  OBVIOUS
<1>1. /\ TypeOK /\ Queued /\ Counted /\ waiting # << >>
      /\ waiting \in Seq(Request) /\ running \in Seq(Request)
  BY DEF IInv, InCall, Admit, HeadFits, MayAdmit, TypeOK, SchedTypeOK
<1>2. /\ running' = Append(running, h) /\ UNCHANGED <<asked, out, committed>>
  BY <1>0 DEF Admit, AdmitRequest
<1>3. h \in Request /\ state[h] = "waiting"
  BY <1>0, <1>1, TailQueue DEF Queued
<1>4. committed[h] = 0
  BY <1>1, <1>3 DEF Counted, CountedFor
<1>5. Running' = Running \cup {h}
  BY <1>1, <1>2, <1>3, AppendQueue DEF Running
<1> QED BY <1>2, <1>4, <1>5 DEF Quiet, Text

\* A new request does not run yet.
LEMMA AddIsQuiet ==
    ASSUME IInv, TextInv, AddText
    PROVE  Quiet
<1>0. PICK n : n = next_id
  OBVIOUS
<1>1. TypeOK /\ Queued /\ Add /\ n \in Request
  <2>1. TypeOK /\ Queued /\ next_id < MaxRequests /\ Add
    BY DEF AddText, Add, IInv, InCall
  <2>2. next_id \in 0 .. (MaxRequests - 1)
    BY <2>1, SchedulerAssumption DEF TypeOK, SchedTypeOK
  <2> QED BY <1>0, <2>1, <2>2 DEF Request
<1>2. PICK l \in PromptLens : \E m \in MaxTokens : AddRequest(n, l, m) /\ asked' = [asked EXCEPT ![n] = l]
  BY <1>0, <1>1 DEF Add
<1>3. /\ running' = running /\ UNCHANGED <<out, committed, out_tokens>>
      /\ \A r \in Request \ {n} : asked'[r] = asked[r] /\ prompt_ids'[r] = prompt_ids[r]
  <2>1. PICK m \in MaxTokens : AddRequest(n, l, m)
    BY <1>2
  <2>2. running' = running /\ UNCHANGED <<out, committed, out_tokens>>
    BY <2>1 DEF AddRequest, AddText
  <2>3. \A r \in Request \ {n} : asked'[r] = asked[r]
    BY <1>2, <1>1 DEF TypeOK
  <2>4. \A r \in Request \ {n} : prompt_ids'[r] = prompt_ids[r]
    BY <1>0, <1>1 DEF AddText, TextInv
  <2> QED BY <2>2, <2>3, <2>4
<1>4. n \notin Running
  <2>1. n >= n /\ state[n] = "new"
    BY <1>0, <1>1 DEF Queued, Request
  <2> QED BY <1>1, <2>1 DEF Queued
<1>5. ASSUME NEW r \in Running' PROVE r \in Running /\ committed'[r] = committed[r] /\ Text(r)' = Text(r)
  <2>1. r \in Running /\ r \in Request \ {n}
    BY <1>1, <1>3, <1>4, <1>5, Members DEF Running
  <2> QED BY <1>3, <2>1 DEF Text
<1> QED BY <1>5 DEF Quiet

\* Steps between two forwards.
LEMMA FeedingStays ==
    ASSUME IInv, IInv', TextInv, KvInv, Next, kv' = kv,
           pc \in {"capture", "idle", "admit", "reserve"},
           pc' \in {"capture", "idle", "admit", "reserve"}, Quiet
    PROVE  KvInv'
<1> SUFFICES ASSUME NEW r \in Running' PROVE Exact(kv, r)'
  BY DEF KvInv
<1>1. /\ Queued /\ Queued' /\ TypeOK /\ TypeOK' /\ pc # "exhausted" /\ pc' # "exhausted"
  BY DEF IInv, InCall
<1>2. CASE committed'[r] = 0
  BY <1>2 DEF Exact
<1>3. CASE r \in Running /\ committed'[r] = committed[r] /\ Text(r)' = Text(r)
  <2>1. r \in Request /\ state[r] = "running" /\ state'[r] = "running"
    BY <1>1, <1>3, Members DEF Queued
  <2>2. Settled(r, committed[r])
    BY <1>1, <2>1, AddressesStay
  <2>3. Exact(kv, r)
    BY <1>3 DEF KvInv
  <2> QED BY <1>3, <2>2, <2>3, ExactStays
<1> QED BY <1>2, <1>3 DEF Quiet

\* The slots reserved for the next verify are behind those of the last.
LEMMA RegrowContents ==
    ASSUME IInv, IInv', TextInv, KvInv, Regrow, UNCHANGED contents
    PROVE  KvInv'
<1>0. PICK h : h = Head(todo)
  OBVIOUS
<1>1. /\ TypeOK /\ TypeOK' /\ Queued /\ Queued' /\ Locals /\ PoolInv
      /\ pc = "regrow" /\ pc' = "accept" /\ todo' = Tail(todo)
      /\ UNCHANGED <<running, state, prompt, tree, out, committed, asked, admitted>>
      /\ AppendTokens(h, Slots)
  BY <1>0 DEF IInv, InCall, Regrow, sched, request
<1>2. /\ UNCHANGED <<kv, moves, rows, prompt_ids, out_tokens, parents>>
  BY DEF contents, texts, local
<1>3. todo # << >> /\ h \in Id /\ ToSet(Tail(todo)) = Todo \ {h} /\ Request \subseteq Id
  BY <1>0, <1>1, Visits, Members DEF Locals
<1>4. Pending = Todo \ {h} /\ Pending' = Pending /\ Running' = Running /\ Running \subseteq Request
  BY <1>0, <1>1, <1>3, Members DEF Pending, Todo, Running
<1>5. ASSUME NEW r \in Pending' PROVE Exact(kv, r)' /\ Ran(r)'
  <2>1. r \in Request \ {h} /\ r \in Id \ {h} /\ Exact(kv, r) /\ Ran(r)
    <3>1. r \in Pending /\ r \in Todo /\ r # h
      BY <1>4
    <3>2. Todo \subseteq Request
      BY <1>1, Members
    <3> QED BY <1>1, <1>3, <3>1, <3>2 DEF KvInv
  <2>2. blocks'[r] = blocks[r]
    <3>1. Slots \in Nat
      BY SlotsType
    <3> QED BY <1>1, <1>3, <2>1, <3>1, AppendStays
  <2>3. Kept(r) /\ rows'[r] = rows[r] /\ parents'[r] = parents[r]
    BY <1>1, <1>2, <2>2 DEF Kept, Text, Phys
  <2>4. Ran(r)'
    BY <1>1, <1>2, <2>1, <2>3, RanStays
  <2>5. Exact(kv, r)'
    BY <1>2, <2>1, <2>3 DEF Exact, Kept
  <2> QED BY <2>4, <2>5
<1>6. ASSUME NEW r \in (Running \ Pending)' PROVE Exact(Moved, r)'
  <2>1. r \in Running \ Pending /\ r \in Request
    BY <1>4
  <2>2. state[r] = "running" /\ state'[r] = "running"
    BY <1>1, <2>1 DEF Queued
  <2>3. Next /\ pc # "exhausted"
    BY <1>1 DEF Next, StepAction
  <2>4. Settled(r, committed[r])
    BY <2>1, <2>2, <2>3, AddressesStay
  <2>5. Text(r)' = Text(r) /\ committed'[r] = committed[r] /\ Moved' = Moved
    BY <1>1, <1>2 DEF Text, Moved
  <2>6. Exact(Moved, r)
    BY <1>1, <2>1 DEF KvInv
  <2> QED BY <2>4, <2>5, <2>6, ExactStays
<1> QED BY <1>1, <1>5, <1>6 DEF KvInv

\* The forward starts the accept loop.
LEMMA ForwardContents ==
    ASSUME IInv, IInv', Shaped, Context, TextInv, KvInv, RunForward
    PROVE  KvInv'
<1>1. pc = "reserve" /\ pc' = "accept" /\ todo' = batch \o admitted /\ running' = running
  BY DEF RunForward, Forward, sched
<1>2. Pending' = Running /\ Running' = Running
  <2>1. running = batch \o admitted
    BY <1>1 DEF IInv, InCall, Locals
  <2> QED BY <1>1, <2>1 DEF Pending, Todo, Running
<1>3. ASSUME NEW r \in Pending' PROVE Exact(kv, r)' /\ Ran(r)'
  <2>1. r \in Running /\ Exact(kv, r)
    BY <1>1, <1>2 DEF KvInv
  <2> QED BY <2>1, ForwardRuns
<1> QED BY <1>1, <1>2, <1>3 DEF KvInv

\* The moves are made when the loop has ended.
LEMMA EndContents ==
    ASSUME IInv, IInv', KvInv, DraftTrees \/ EndWithoutDraft
    PROVE  KvInv'
<1>1. /\ pc = "accept" /\ todo = << >> /\ pc' = "idle" /\ kv' = Moved
      /\ UNCHANGED <<running, state, out, asked, committed, prompt_ids, out_tokens>>
  BY DEF DraftTrees, EndWithoutDraft, Draft, EndStep, AcceptEnds, ReturnFromStep, sched, request, texts
<1>2. Next /\ pc # "exhausted"
  BY <1>1 DEF Next, StepAction, DraftTrees, EndWithoutDraft
<1>3. TypeOK /\ Queued /\ Pending = {} /\ Running' = Running
  BY <1>1, EmptyQueue DEF IInv, InCall, Pending, Todo, Running
<1>4. ASSUME NEW r \in Running' PROVE Exact(kv, r)'
  <2>1. r \in Request /\ state[r] = "running" /\ state'[r] = "running" /\ r \in Running \ Pending
    BY <1>1, <1>3, Members DEF Queued
  <2>2. Settled(r, committed[r])
    BY <1>2, <2>1, AddressesStay
  <2>3. Exact(Moved, r)
    BY <1>1, <2>1 DEF KvInv
  <2>4. Text(r)' = Text(r) /\ committed'[r] = committed[r]
    BY <1>1 DEF Text
  <2> QED BY <1>1, <2>2, <2>3, <2>4, ExactStays
<1> QED BY <1>1, <1>4 DEF KvInv

\* A new request has no contents yet.
LEMMA AddContents ==
    ASSUME IInv, IInv', TextInv, KvInv, AddText
    PROVE  KvInv'
<1>1. Next /\ pc = "idle" /\ pc' = "idle" /\ kv' = kv
  BY DEF AddText, Add, Next, step
<1> QED BY <1>1, AddIsQuiet, FeedingStays

\* Steps that move no contents.
LEMMA BookkeepingContents ==
    ASSUME IInv, IInv', TextInv, KvInv, Bookkeeping, pc # "exhausted", pc' # "exhausted"
    PROVE  KvInv'
<1>1. /\ UNCHANGED <<kv, prompt_ids, out_tokens, parents, rows, moves>> /\ UNCHANGED contents
  BY DEF Bookkeeping, contents, texts, local
<1>2. CASE Admit
  <2>1. Next /\ pc = "admit" /\ pc' = "admit"
    BY <1>2 DEF Next, StepAction, Admit, HeadFits, MayAdmit
  <2> QED BY <1>1, <1>2, <2>1, AdmitIsQuiet, FeedingStays
<1>3. CASE Regrow
  BY <1>1, <1>3, RegrowContents
<1>4. CASE Raise
  BY <1>4 DEF Raise
<1>5. CASE Capture \/ BeginStep \/ StepIsEmpty \/ BeginRun \/ Reserve
  <2>1. /\ UNCHANGED <<running, committed, asked, out>> /\ Next
        /\ pc \in {"capture", "idle", "admit", "reserve"} /\ pc' \in {"capture", "idle", "admit", "reserve"}
    BY <1>5 DEF Next, StepAction, Capture, BeginStep, StepIsEmpty, BeginRun, Reserve, ReturnFromStep,
         sched, request
  <2>2. Quiet
    BY <1>1, <2>1 DEF Quiet, Running, Text
  <2> QED BY <1>1, <2>1, <2>2, FeedingStays
<1>6. CASE EndUpdate
  <2>1. /\ pc = "restart" /\ todo = << >> /\ running' = running /\ pc' = "idle"
    BY <1>6 DEF EndUpdate, sched
  <2>2. Running = {}
    BY <2>1, EmptyQueue DEF IInv, InCall, Locals, Todo
  <2>3. Running' = {}
    BY <2>1, <2>2 DEF Running
  <2> QED BY <2>1, <2>3 DEF KvInv
<1>7. CASE Rest
  <2>1. UNCHANGED <<running, committed, asked, out, blocks>> /\ pc = "idle" /\ pc' = "idle"
    BY <1>7 DEF Rest, vars, sched, request, pool, step
  <2>2. \A r : Exact(kv, r)' <=> Exact(kv, r)
    BY <1>1, <2>1 DEF Exact, Text, Phys
  <2>3. Running' = Running
    BY <2>1 DEF Running
  <2> QED BY <2>1, <2>2, <2>3 DEF KvInv
<1> QED BY <1>2, <1>3, <1>4, <1>5, <1>6, <1>7 DEF Bookkeeping

\* Every step keeps the contents.
LEMMA StepContents ==
    ASSUME IInv, IInv', MoveInv, MoveInv', Context, TextInv, KvInv, [CacheNext]_<<vars, contents>>,
           pc # "exhausted", pc' # "exhausted"
    PROVE  KvInv'
<1>1. CASE AddText
  BY <1>1, AddContents
<1>2. CASE RunForward
  BY <1>2, ForwardContents DEF MoveInv
<1>3. CASE FinishPath \/ PlainPath \/ SpecPath
  BY <1>3, AcceptContents
<1>4. CASE DraftTrees \/ EndWithoutDraft
  BY <1>4, EndContents
<1>5. CASE NewWeights \/ RestartText
  <2>1. pc' = "restart"
    BY <1>5 DEF NewWeights, UpdateWeights, RestartText, RestartHead
  <2> QED BY <2>1 DEF KvInv
<1>6. CASE Bookkeeping
  BY <1>6, BookkeepingContents
<1>7. CASE UNCHANGED <<vars, contents>>
  <2>1. /\ UNCHANGED <<running, committed, asked, out, blocks, pc, todo, prompt, tree, admitted>>
        /\ UNCHANGED <<kv, prompt_ids, out_tokens, parents, rows, moves>>
    BY <1>7 DEF vars, sched, request, pool, step, contents, texts, local
  <2>2. \A r : (Exact(kv, r)' <=> Exact(kv, r)) /\ (Exact(Moved, r)' <=> Exact(Moved, r))
    BY <2>1 DEF Exact, Text, Phys, Moved
  <2>3. Running' = Running /\ Pending' = Pending /\ Running \subseteq Request
    BY <2>1, Members DEF Running, Pending, Todo, IInv
  <2>4. Pending \subseteq Request
    BY <2>3, Members DEF Pending, IInv
  <2>5. \A r \in Pending : Ran(r) => Ran(r)'
    <3> SUFFICES ASSUME NEW r \in Pending, Ran(r) PROVE Ran(r)'
      OBVIOUS
    <3>1. Kept(r)
      BY <2>1 DEF Kept, Text, Phys
    <3> QED BY <2>1, <2>4, <3>1, RanStays
  <2> QED BY <2>1, <2>2, <2>3, <2>5 DEF KvInv
<1> QED BY <1>1, <1>2, <1>3, <1>4, <1>5, <1>6, <1>7 DEF CacheNext

CacheUpheld == pc # "exhausted" /\ updates <= 1 => TextInv /\ KvInv

LEMMA InitContents == CacheInit => CacheUpheld
<1> SUFFICES ASSUME CacheInit PROVE TextInv /\ KvInv
  BY DEF CacheUpheld
<1>1. /\ running = << >> /\ pc \in {"capture", "idle"} /\ \A r \in Request : state[r] = "new"
      /\ \A r \in Request : parents[r] = NoParents /\ out_tokens[r] = << >>
      /\ DOMAIN prompt_ids = Request /\ DOMAIN out_tokens = Request /\ DOMAIN rows = Request
  BY DEF CacheInit, Init, SchedInit, Nobody
<1>2. Running = {}
  BY <1>1, EmptyQueue DEF Running
<1>3. \A r \in Request : Leveled(parents[r])
  BY <1>1 DEF Leveled, NoParents
<1> QED BY <1>1, <1>2, <1>3 DEF TextInv, KvInv

\* A state in which all is upheld comes after such states.
LEMMA UpheldBefore ==
    ASSUME IInv, [Next]_vars
    PROVE  (pc' # "exhausted" => pc # "exhausted") /\ (updates' <= 1 => updates <= 1)
<1>1. pc' # "exhausted" => pc # "exhausted"
  BY DEF Next, StepAction, UpdateAction, Capture, Add, BeginStep, Admit, StepIsEmpty,
       BeginRun, Reserve, Forward, AcceptDone, AcceptPlain, AcceptSpec, InAccept, Regrow,
       EndStep, Draft, AcceptEnds, Raise, Refused, UpdateWeights, RestartHead, EndUpdate, Rest,
       vars, step
<1>2. updates' = updates \/ updates' = updates + 1
  BY DEF Next, StepAction, UpdateAction, Capture, Add, BeginStep, Admit, StepIsEmpty,
       BeginRun, Reserve, Forward, AcceptDone, AcceptPlain, AcceptSpec, Regrow,
       EndStep, Draft, Raise, UpdateWeights, RestartHead, EndUpdate, Rest, vars
<1>3. updates \in Int
  BY EngineAssumption DEF IInv, TypeOK
<1>4. updates' <= 1 => updates <= 1
  BY <1>2, <1>3
<1> QED BY <1>1, <1>4

LEMMA StepUpholds ==
    ASSUME IInv, IInv', MoveInv, MoveInv', ContextUpheld, CacheUpheld, [CacheNext]_<<vars, contents>>
    PROVE  CacheUpheld'
<1>1. [Next]_vars
  BY CacheStepIsAStep
<1>2. (pc' # "exhausted" => pc # "exhausted") /\ (updates' <= 1 => updates <= 1)
  BY <1>1, UpheldBefore
<1> SUFFICES ASSUME pc # "exhausted", pc' # "exhausted", updates <= 1 PROVE TextInv' /\ KvInv'
  BY <1>2 DEF CacheUpheld
<1>3. Context /\ TextInv /\ KvInv
  BY DEF ContextUpheld, CacheUpheld
<1> QED BY <1>3, StepWords, StepContents

LEMMA CacheInvariant == CacheSpec => [](IInv /\ ContextUpheld /\ CacheUpheld)
<1>1. CacheSpec => [](IInv /\ MoveInv /\ ContextUpheld)
  BY CacheImplementsEngine, ContextInvariant, MovesInvariant, PTL
<1>2. IInv /\ MoveInv /\ ContextUpheld /\ (IInv /\ MoveInv)' /\ CacheUpheld
        /\ [CacheNext]_<<vars, contents>> => CacheUpheld'
  BY StepUpholds
<1> QED BY <1>1, <1>2, InitContents, PTL DEF CacheSpec

\* Whatever order requests accept, finish, compact, roll back and restart in, the target's
\* cache holds the running requests' texts position by position, until a request is restarted
\* a second time. (engine.py step, _accept; kv/cache.py move)
THEOREM TargetCacheHolds == CacheSpec => [](updates <= 1 => TargetCacheExact)
<1>1. ASSUME ContextUpheld, CacheUpheld PROVE updates <= 1 => TargetCacheExact
  BY <1>1 DEF CacheUpheld, KvInv, Exact, Opening, TargetCacheExact
<1>2. IInv /\ ContextUpheld /\ CacheUpheld => (updates <= 1 => TargetCacheExact)
  BY <1>1
<1> QED BY <1>2, CacheInvariant, PTL

\* A running request's rows come from a prompt of at least one token.
LEMMA RowsExtend == CacheSpec => []ExtentOK
<1>1. Init => ExtentOK
  BY DEF Init, SchedInit, ExtentOK
<1>2. IInv /\ ExtentOK /\ [Next]_vars => ExtentOK'
  BY NextExtends
<1>3. Spec => []ExtentOK
  BY <1>1, <1>2, Invariant, PTL DEF Spec
<1> QED BY <1>3, CacheImplementsEngine, PTL

\* Every acceptance test and draw is made on the row of its own context: the root's stands
\* for the text, a node's for the text and the path down to it. (engine.py _accept)
THEOREM RowsStand == CacheSpec => [](updates <= 1 => RowsStandForPaths)
<1>1. CacheSpec => []ExtentOK
  BY RowsExtend, PTL
<1>2. CacheSpec => [](IInv /\ MoveInv /\ ContextUpheld /\ CacheUpheld)
  BY CacheInvariant, MovesInvariant, PTL
<1>3. ASSUME IInv, MoveInv, ExtentOK, ContextUpheld, CacheUpheld, updates <= 1, pc = "accept",
             NEW r \in Todo
      PROVE  /\ Last(rows[r]) # Garbage
             /\ tree[r] = NoTree => rows[r][Len(rows[r])] = Text(r)
             /\ tree[r] # NoTree =>
                    /\ rows[r][1] = Text(r)
                    /\ \A i \in DOMAIN parents[r] :
                           rows[r][2 + i] = Text(r) \o PathTokens(parents[r], Ancestors(parents[r], i))
  <2>1. /\ Context /\ TextInv /\ KvInv /\ Shaped /\ TypeOK /\ Queued
    BY <1>3 DEF ContextUpheld, CacheUpheld, MoveInv, IInv, InCall
  <2>2. /\ RowsHeld(r) /\ r \in Running /\ r \in Request /\ Newly = Todo \cap Admitted
    BY <1>3, TodoHeld
  <2>3. TextFits(r) /\ Ran(r)
    <3>1. r \in Pending
      BY <1>3 DEF Pending
    <3> QED BY <1>3, <2>1, <2>2, <3>1, TextsFit DEF KvInv
  <2>4. PICK n \in Nat : n = Queries(r)
    BY <2>2 DEF RowsHeld
  <2>5. PICK t \in Seq(Nat) : t = Text(r)
    BY <2>3 DEF TextFits
  <2>6. Len(rows[r]) = n /\ \A k \in 1 .. n : rows[r][k] = RowOf(r, k)
    BY <2>3, <2>4 DEF Ran, RowsOf
  <2>7. state[r] = "running" /\ prompt[r] >= 1 /\ tree[r] \in Nat
    BY <1>3, <2>1, <2>2 DEF ExtentOK, Queued, TypeOK, SchedTypeOK
  <2>8. CASE r \in Newly
    <3>1. r \in Admitted /\ n = Len(t) /\ n >= 1 /\ tree[r] = NoTree
      BY <2>2, <2>3, <2>4, <2>5, <2>7, <2>8 DEF RowsHeld, TextFits
    <3>2. rows[r][n] = Opening(t, n) /\ Opening(t, n) = t
      BY <2>5, <2>6, <3>1, OpeningsJoined DEF RowOf
    <3> QED BY <2>5, <2>6, <3>1, <3>2, NoGarbage DEF Last
  <2>9. CASE r \notin Newly
    <3>1. r \notin Admitted /\ n = 1 + tree[r]
      BY <1>3, <2>2, <2>4, <2>9 DEF RowsHeld
    <3>2. rows[r][1] = t
      BY <2>5, <2>6, <2>7, <3>1 DEF RowOf
    <3>3. Ordered(parents[r], tree[r])
      BY <1>3, <2>1, <2>2, <2>7 DEF Shaped
    <3>4. ASSUME NEW i \in 0 .. (tree[r] - 1)
          PROVE  rows[r][2 + i] = t \o Words(parents[r], i) /\ rows[r][2 + i] \in Seq(Nat)
      <4>1. 2 + i \in 1 .. n /\ 2 + i # 1 /\ (2 + i) - 2 = i
        BY <2>7, <3>1
      <4>2. rows[r][2 + i] = t \o Words(parents[r], i)
        BY <2>5, <2>6, <3>1, <4>1 DEF RowOf
      <4>3. Words(parents[r], i) \in Seq(Nat)
        BY <2>7, <3>3, Spelling DEF Spelled
      <4>4. t \o Words(parents[r], i) \in Seq(Nat)
        BY <4>3, OpeningsJoined
      <4> QED BY <4>2, <4>4
    <3>5. rows[r][n] \in Seq(Nat)
      <4>1. CASE tree[r] = 0
        BY <3>1, <3>2, <4>1
      <4>2. CASE tree[r] # 0
        <5>1. tree[r] - 1 \in 0 .. (tree[r] - 1) /\ 2 + (tree[r] - 1) = n
          BY <2>7, <3>1, <4>2
        <5> QED BY <3>4, <5>1
      <4> QED BY <4>1, <4>2
    <3>6. Last(rows[r]) # Garbage
      BY <2>6, <3>5, NoGarbage DEF Last
    <3>7. DOMAIN parents[r] = 0 .. (tree[r] - 1)
      BY <3>3 DEF Ordered
    <3>8. tree[r] = NoTree => rows[r][Len(rows[r])] = t
      BY <2>6, <3>1, <3>2 DEF NoTree
    <3> QED BY <2>5, <3>2, <3>4, <3>6, <3>7, <3>8 DEF Words
  <2> QED BY <2>8, <2>9
<1>4. IInv /\ MoveInv /\ ExtentOK /\ ContextUpheld /\ CacheUpheld => (updates <= 1 => RowsStandForPaths)
  BY <1>3 DEF RowsStandForPaths, Todo
<1> QED BY <1>1, <1>2, <1>4, PTL
----------------------------------------------------------------------------
(***************************************************************************)
(* What the draft extend and the levels write.                             *)
(***************************************************************************)
\* The view the rows of r's extend start from, the pad rows' positions overwritten.
Unextended(r) ==
    LET n   == Len(ext_rows[r])
        st  == committed[r] - n
        old == View(draft_kv, r)
        pad == IF Padded THEN (st + n) .. (st + Depth) ELSE {}
    IN  [p \in DOMAIN old |-> IF p \in pad THEN Garbage ELSE old[p]]

\* The extend writes what its rows stand for.
LEMMA ExtendedIs ==
    ASSUME NEW r, NEW n \in Nat, n = Len(ext_rows[r]), NEW base \in Nat, base = committed[r] - n,
           committed[r] \in Nat, base .. (base + n - 1) \subseteq DOMAIN View(draft_kv, r), NEW X, NEW T,
           \A k \in 1 .. n : /\ T[k] = ExtendAttended(r)[k] \ {base + k - 1}
                             /\ DraftRight(Unextended(r), base, X, n, ext_rows[r], T, k)
    PROVE  Extended(r) = Filled(Unextended(r), base, X, n)
<1>1. PICK E, see, e0 : E = ext_rows[r] /\ see = ExtendAttended(r) /\ e0 = Unextended(r)
  OBVIOUS
<1>2. e0 = [p \in DOMAIN e0 |-> e0[p]] /\ DOMAIN e0 = DOMAIN View(draft_kv, r)
  BY <1>1 DEF Unextended
<1>3. base + n = committed[r]
  OBVIOUS
<1>4. ASSUME NEW k \in 1 .. n PROVE DraftFills(e0, base, X, E, T, k)
  <2>1. base .. (base + n - 1) \subseteq DOMAIN e0
    BY <1>2
  <2>2. DraftRight(e0, base, X, n, E, T, k)
    BY <1>1
  <2> QED BY <2>1, <2>2, DraftStep
<1> DEFINE F == [k \in 0 .. n |-> Filled(e0, base, X, k)]
           Step(e, k) == [e EXCEPT ![base + k - 1] =
                             DraftEntry(e, E[k].ctx, E[k].tok, base + k - 1,
                                        see[k] \ {base + k - 1})]
<1>5. ASSUME NEW k \in 0 .. n PROVE F[k] = IF k = 0 THEN e0 ELSE Step(F[k - 1], k)
  <2>1. CASE k = 0
    BY <1>2, <2>1, FilledNone
  <2>2. CASE k # 0
    <3>1. k \in 1 .. n /\ k - 1 \in 0 .. n
      BY <2>2
    <3>2. T[k] = see[k] \ {base + k - 1}
      BY <1>1, <3>1
    <3>3. PICK f : f = Filled(e0, base, X, k - 1)
      OBVIOUS
    <3>4. Filled(e0, base, X, k) =
              [f EXCEPT ![base + k - 1] = DraftEntry(f, E[k].ctx, E[k].tok, base + k - 1, T[k])]
      BY <1>4, <3>1, <3>3 DEF DraftFills, DraftRun
    <3>5. F[k - 1] = f /\ F[k] = Filled(e0, base, X, k)
      BY <3>1, <3>3
    <3> QED BY <2>2, <3>2, <3>4, <3>5
  <2> QED BY <2>1, <2>2
<1> DEFINE run == CHOOSE f : f = [k \in 0 .. n |-> IF k = 0 THEN e0 ELSE Step(f[k - 1], k)]
<1>6. Extended(r) = run[n]
  BY <1>1, <1>3 DEF Extended, Unextended
<1>7. F = [k \in 0 .. n |-> IF k = 0 THEN e0 ELSE Step(F[k - 1], k)]
  <2>1. F = [k \in 0 .. n |-> F[k]]
    OBVIOUS
  <2> HIDE DEF F, Step
  <2> QED BY <1>5, <2>1
<1>8. PICK h : h = F
  OBVIOUS
<1>9. PICK g : g = run
  OBVIOUS
<1>10. g = [k \in 0 .. n |-> IF k = 0 THEN e0 ELSE Step(g[k - 1], k)]
  <2> HIDE DEF Step, F
  <2>1. h = [k \in 0 .. n |-> IF k = 0 THEN e0 ELSE Step(h[k - 1], k)]
    BY <1>7, <1>8
  <2> QED BY <1>9, <2>1
<1> HIDE DEF run
<1> DEFINE Same == {k \in 0 .. n : g[k] = F[k]}
<1>11. 0 \in Same
  <2> HIDE DEF Step, F
  <2>1. 0 \in 0 .. n
    OBVIOUS
  <2> QED BY <1>5, <1>10, <2>1
<1>12. ASSUME NEW k \in 0 .. (n - 1), k \in Same PROVE k + 1 \in Same
  <2>1. k + 1 \in 0 .. n /\ k + 1 # 0 /\ (k + 1) - 1 = k /\ g[k] = F[k]
    BY <1>12
  <2> HIDE DEF Step, F
  <2>2. g[k + 1] = Step(g[k], k + 1) /\ F[k + 1] = Step(F[k], k + 1)
    BY <1>5, <1>10, <2>1
  <2> QED BY <2>1, <2>2
<1>13. \A k \in 0 .. n : k \in Same
  <2> HIDE DEF Same
  <2> QED BY <1>11, <1>12, Induct
<1>14. n \in Same
  <2> HIDE DEF Same
  <2>1. n \in 0 .. n
    OBVIOUS
  <2> QED BY <1>13, <2>1
<1>15. g[n] = Filled(e0, base, X, n)
  BY <1>14
<1> QED BY <1>1, <1>6, <1>9, <1>15

\* The row k of the extend sees the positions before its own, and its own.
ExtendCausal(r, n, base, k) == ExtendAttended(r)[k] \ {base + k - 1} = 0 .. (base + k - 2)

LEMMA ExtendSees ==
    ASSUME NEW r \in ToSet(alive), NEW n \in Nat \ {0}, n = Len(ext_rows[r]), NEW base \in Nat,
           committed[r] = base + n, NEW k \in 1 .. n
    PROVE  ExtendCausal(r, n, base, k)
<1>1. PICK e \in Int : e = base + k - 1
  OBVIOUS
<1>2. 0 .. e \ {base + k - 1} = 0 .. (base + k - 2)
  BY <1>1
<1>3. ExtendAttended(r)[k] = 0 .. e
  <2>1. CASE Padded
    <3>1. n <= Depth + 1 /\ Depth \in Nat
      BY <2>1, EngineAssumption DEF Padded
    <3>2. PICK d \in Nat, q \in Nat : d = Depth + 1 /\ q = base + d /\ k \in 1 .. d
      <4>1. Depth + 1 \in Nat /\ base + (Depth + 1) \in Nat /\ k \in 1 .. (Depth + 1)
        BY <3>1
      <4> QED BY <4>1
    <3>3. ExtendAttended(r) = CausalMask(d, q)
      <4>1. committed[r] - n + Depth + 1 = q
        BY <3>1, <3>2
      <4> QED BY <2>1, <3>2, <4>1 DEF ExtendAttended
    <3>4. CausalMask(d, q)[k] = {c \in 0 .. (q - 1) : c <= q - d + k - 1}
      BY <3>2 DEF CausalMask
    <3>5. q - d + k - 1 = e /\ e <= q - 1
      BY <1>1, <3>2
    <3>6. {c \in 0 .. (q - 1) : c <= q - d + k - 1} = 0 .. e
      <4>1. PICK x \in Int : x = q - 1
        BY <3>2
      <4>2. {c \in 0 .. x : c <= e} = 0 .. e
        BY <3>5, <4>1
      <4> QED BY <3>5, <4>1, <4>2
    <3> QED BY <3>3, <3>4, <3>6
  <2>2. CASE ~Padded
    <3>1. PICK decode \in BOOLEAN : decode = (\A s \in ToSet(alive) : Len(ext_rows[s]) = 1)
      OBVIOUS
    <3>2. decode => n = 1
      BY <3>1
    <3>3. PICK q \in Nat : q = committed[r] /\ n <= q
      OBVIOUS
    <3>4. SeesUpTo(n, q, decode, k)
      BY <3>2, <3>3, Causal
    <3>5. ExtendAttended(r) = Attends(Backend, n, q, Unmasked, decode)
      BY <2>2, <3>1, <3>3 DEF ExtendAttended
    <3>6. q - n + k - 1 = e
      BY <1>1, <3>3
    <3> QED BY <3>4, <3>5, <3>6 DEF SeesUpTo
  <2> QED BY <2>1, <2>2
<1> QED BY <1>2, <1>3 DEF ExtendCausal

\* The positions the drafter has when r's extend begins.
Done(r) == committed[r] - Len(ext_rows[r])

\* The rows of r's extend stand for its text from there on, one token ahead.
Fed(r) ==
    /\ Len(ext_rows[r]) \in 1 .. committed[r]
    /\ \A k \in 1 .. Len(ext_rows[r]) : /\ ext_rows[r][k].ctx = Opening(Text(r), Done(r) + k)
                                        /\ ext_rows[r][k].tok = Text(r)[Done(r) + k + 1]

\* The drafter has r's text up to position n.
Drafted(r, n) == \A p \in 0 .. (n - 1) : draft_kv[Phys(r, p)] = Opening(Text(r), p + 2)

\* After the extend it has all that is committed.
ExtendHolds(r) ==
    /\ 0 .. (committed[r] - 1) \subseteq DOMAIN Extended(r)
    /\ Leads(Extended(r), Text(r), committed[r])

LEMMA ExtendFills ==
    ASSUME PoolInv, NEW r \in Id, r \in ToSet(alive), committed[r] \in Nat,
           committed[r] <= seq_len[r], Text(r) \in Seq(Nat), Len(Text(r)) = committed[r] + 1,
           Fed(r), Drafted(r, Done(r))
    PROVE  ExtendHolds(r)
<1>1. PICK n \in Nat \ {0}, base \in Nat, L \in Nat :
          /\ n = Len(ext_rows[r]) /\ L = committed[r] /\ base = L - n /\ base = Done(r) /\ L = base + n
          /\ base + n - 1 = L - 1
  <2>1. Len(ext_rows[r]) \in Nat \ {0} /\ Len(ext_rows[r]) <= committed[r]
    BY DEF Fed
  <2>2. PICK n \in Nat \ {0}, L \in Nat : n = Len(ext_rows[r]) /\ L = committed[r] /\ n <= L
    BY <2>1
  <2>3. PICK base \in Nat : base = L - n
    BY <2>2
  <2>4. L = base + n /\ base + n - 1 = L - 1
    <3>1. PICK m \in Nat : m = n
      OBVIOUS
    <3>2. L = base + m
      BY <2>3, <3>1
    <3>3. base + m - 1 = L - 1
      BY <3>2
    <3> QED BY <3>1, <3>2, <3>3
  <2>5. base = Done(r)
    BY <2>2, <2>3 DEF Done
  <2> QED BY <2>2, <2>3, <2>4, <2>5
<1>2. PICK t \in Seq(Nat) : t = Text(r) /\ Len(t) = L + 1
  BY <1>1
<1>3. PICK q \in Nat : q = seq_len[r] /\ L <= q
  BY <1>1 DEF PoolInv, PoolTypeOK
<1>4. PICK e, E : e = Unextended(r) /\ E = ext_rows[r]
  OBVIOUS
<1>5. PICK old : /\ old = View(draft_kv, r) /\ 0 .. (q - 1) \subseteq DOMAIN old /\ DOMAIN old \subseteq Int
                 /\ \A p \in 0 .. (q - 1) : old[p] = draft_kv[Phys(r, p)]
  <2>1. Viewed(draft_kv, r)
    BY ViewIs
  <2>2. DOMAIN View(draft_kv, r) \subseteq Int
    BY DEF View
  <2> QED BY <1>3, <2>1, <2>2 DEF Viewed
<1>6. PICK pad : /\ pad = (IF Padded THEN (base + n) .. (base + Depth) ELSE {})
                 /\ e = [p \in DOMAIN old |-> IF p \in pad THEN Garbage ELSE old[p]]
  BY <1>1, <1>4, <1>5 DEF Unextended
<1>7. DOMAIN e = DOMAIN old /\ \A p \in DOMAIN old : p < L => e[p] = old[p]
  <2>1. DOMAIN e = DOMAIN old
    BY <1>6
  <2>2. ASSUME NEW p \in DOMAIN old, p < L PROVE e[p] = old[p]
    <3>1. p \notin pad
      BY <1>1, <1>5, <1>6, <2>2
    <3> QED BY <1>6, <3>1
  <2> QED BY <2>1, <2>2
<1>8. 0 .. (L - 1) \subseteq DOMAIN e /\ DOMAIN e \subseteq Int /\ 0 .. (base + n - 1) \subseteq DOMAIN e
  <2>1. 0 .. (L - 1) \subseteq 0 .. (q - 1)
    BY <1>3
  <2> QED BY <1>1, <1>5, <1>7, <2>1
<1>9. PICK X : X = [k \in 1 .. n |-> Opening(t, base + k + 1)]
  OBVIOUS
<1>10. PICK S : S = [k \in 1 .. n |-> 0 .. (base + k - 2)]
  OBVIOUS
<1>11. PICK F : F = Filled(e, base, X, n)
  OBVIOUS
<1>12. /\ \A k \in 1 .. n : F[base + k - 1] = X[k]
       /\ \A p \in DOMAIN e : p < base => F[p] = e[p]
       /\ DOMAIN F = DOMAIN e
  <2>1. FilledAt(e, base, X, n)
    BY <1>8, Filling
  <2>2. DOMAIN F = DOMAIN e
    BY <1>11 DEF Filled
  <2> QED BY <1>11, <2>1, <2>2 DEF FilledAt
<1>13. Leads(F, t, L)
  <2> SUFFICES ASSUME NEW p \in 0 .. (L - 1) PROVE F[p] = Opening(t, p + 2)
    BY DEF Leads
  <2>1. CASE p < base
    <3>0. p < L /\ p \in 0 .. (q - 1) /\ p \in 0 .. (base - 1)
      BY <1>3, <2>1
    <3>1. p \in DOMAIN e /\ p < L /\ p \in DOMAIN old /\ p \in 0 .. (q - 1) /\ p \in 0 .. (base - 1)
      BY <1>7, <1>8, <3>0
    <3>2. F[p] = e[p] /\ e[p] = old[p] /\ old[p] = draft_kv[Phys(r, p)]
      BY <1>5, <1>7, <1>12, <2>1, <3>1
    <3>3. draft_kv[Phys(r, p)] = Opening(t, p + 2)
      BY <1>1, <1>2, <3>1 DEF Drafted
    <3> QED BY <3>2, <3>3
  <2>2. CASE p >= base
    <3>1. PICK k \in 1 .. n : base + k - 1 = p /\ base + k + 1 = p + 2
      <4>1. PICK m \in Nat, x \in Nat : m = n /\ x = base /\ L = x + m
        BY <1>1
      <4>2. PICK k \in Int : k = p - x + 1
        BY <4>1
      <4>3. k \in 1 .. m
        BY <2>2, <4>1, <4>2
      <4>4. x + k - 1 = p /\ x + k + 1 = p + 2
        BY <4>1, <4>2
      <4> QED BY <4>1, <4>3, <4>4
    <3>2. F[base + k - 1] = X[k] /\ X[k] = Opening(t, base + k + 1)
      BY <1>9, <1>12
    <3> QED BY <3>1, <3>2
  <2> QED BY <1>1, <2>1, <2>2
<1>14. ASSUME NEW k \in 1 .. n
       PROVE  /\ S[k] = ExtendAttended(r)[k] \ {base + k - 1}
              /\ DraftRight(e, base, X, n, E, S, k)
  <2>1. ExtendCausal(r, n, base, k)
    BY <1>1, ExtendSees
  <2>2. S[k] = 0 .. (base + k - 2)
    BY <1>10
  <2>3. S[k] = ExtendAttended(r)[k] \ {base + k - 1}
    BY <2>1, <2>2 DEF ExtendCausal
  <2>4. PICK j \in 1 .. L : j = base + k /\ j - 1 = base + k - 1 /\ j + 1 = base + k + 1 /\ j - 1 - 1 = base + k - 2
    <3>1. PICK x \in Nat, m \in Nat : x = base /\ m = n /\ L = x + m
      BY <1>1
    <3>2. PICK j \in Int : j = x + k
      BY <3>1
    <3>3. j \in 1 .. L
      BY <3>1, <3>2
    <3>4. j - 1 = x + k - 1 /\ j + 1 = x + k + 1 /\ j - 1 - 1 = x + k - 2
      BY <3>1, <3>2
    <3> QED BY <3>1, <3>2, <3>3, <3>4
  <2>5. PICK ctx \in Seq(Nat) : ctx = Opening(t, j) /\ Len(ctx) = j
    <3>1. j \in 0 .. Len(t)
      BY <1>2
    <3> QED BY <3>1, Openings
  <2>6. E[k].ctx = ctx /\ E[k].tok = t[j + 1]
    BY <1>1, <1>2, <1>4, <2>4, <2>5 DEF Fed
  <2>7. X[k] = Append(ctx, t[j + 1])
    <3>1. j + 1 \in 1 .. Len(t) /\ (j + 1) - 1 = j
      BY <1>2
    <3>2. Opening(t, j + 1) = Append(Opening(t, (j + 1) - 1), t[j + 1])
      BY <3>1, OpeningsJoined
    <3> QED BY <1>9, <2>4, <2>5, <3>1, <3>2
  <2>8. Reads(F, 0 .. (j - 1 - 1), ctx, 2)
    <3>1. j \in 1 .. Len(t) /\ j - 1 <= L /\ j - 1 \in Nat /\ (j - 1) + 1 = j
      BY SMTT(30), <1>2
    <3>2. Leads(F, ctx, j - 1)
      BY <1>13, <2>5, <3>1, OpeningLeads
    <3> QED BY <2>5, <3>1, <3>2, ReadsAhead
  <2>9. S[k] \subseteq DOMAIN e \cap (0 .. (base + k - 2))
    <3>1. 0 .. (base + k - 2) \subseteq 0 .. (L - 1)
      <4>0. k <= n /\ L = base + n
        BY <1>1
      <4>1. PICK x \in Nat, m \in Nat : x = base /\ m = n /\ L = x + m /\ k <= m
        BY <4>0
      <4>2. x + k - 2 <= L - 1
        BY <4>1
      <4> QED BY <4>1, <4>2
    <3> QED BY <1>8, <2>2, <3>1
  <2>10. ctx # << >>
    BY <2>5
  <2>11. Reads(Filled(e, base, X, n), S[k], ctx, 2)
    BY <1>11, <2>2, <2>4, <2>8
  <2>12. DraftRight(e, base, X, n, E, S, k)
    BY <2>4, <2>5, <2>6, <2>7, <2>9, <2>10, <2>11 DEF DraftRight
  <2> QED BY <2>3, <2>12
<1>15. Extended(r) = F
  <2>1. base .. (base + n - 1) \subseteq DOMAIN View(draft_kv, r)
    <3>1. base .. (base + n - 1) \subseteq 0 .. (base + n - 1)
      OBVIOUS
    <3> QED BY <1>5, <1>7, <1>8, <3>1
  <2>2. base = committed[r] - n
    BY <1>1
  <2>3. \A k \in 1 .. n : /\ S[k] = ExtendAttended(r)[k] \ {base + k - 1}
                          /\ DraftRight(Unextended(r), base, X, n, ext_rows[r], S, k)
    BY <1>4, <1>14
  <2> QED BY <1>1, <1>11, <1>4, <2>1, <2>2, <2>3, ExtendedIs
<1> QED BY <1>1, <1>2, <1>8, <1>12, <1>13, <1>15 DEF ExtendHolds

\* The levels leave what the extend wrote.
LevelsAbove(r, p, d) ==
    /\ DOMAIN Levelled(r, p, d) = DOMAIN Extended(r)
    /\ \A q \in DOMAIN Extended(r) \cap (0 .. (committed[r] - 1)) :
           Levelled(r, p, d)[q] = Extended(r)[q]

LEMMA LevelsStayAbove ==
    ASSUME NEW r, NEW p, NEW d \in Nat \ {0}, committed[r] \in Nat
    PROVE  LevelsAbove(r, p, d)
<1>1. PICK L \in Nat : L = committed[r]
  OBVIOUS
<1>20. PICK x0 : x0 = Extended(r)
  OBVIOUS
<1>2. PICK m \in Nat : m = (d - 1) * TopK
  <2>1. PICK a \in Nat : a = d - 1
    OBVIOUS
  <2>2. TopK \in Nat
    BY EngineAssumption
  <2>3. a * TopK \in Nat
    BY <2>2
  <2> QED BY <2>1, <2>3
<1> DEFINE Above0(e, i) == IF p[i] = -1 THEN e[L - 1] ELSE e[L + p[i]]
           sees == [level \in 1 .. d |-> AncestorMask(p, level)]
           Cols(level, i) ==
            (IF TopK = 1 THEN Attends(Backend, 1, L + level, Unmasked, TRUE)[1]
             ELSE (0 .. (L - 1)) \cup {L + j : j \in sees[level][i]}) \ {L + i}
           Lev(i) == 1 + (i \div TopK)
           Entry(e, i) == DraftEntry(e, Above0(e, i), NodeToken(p, i),
                                                     L + Lev(i) - 1, Cols(Lev(i), i))
           Step(e, k) == [e EXCEPT ![L + (k - 1)] = Entry(e, k - 1)]
           run == CHOOSE f : f = [k \in 0 .. m |-> IF k = 0 THEN x0 ELSE Step(f[k - 1], k)]
<1>3. Levelled(r, p, d) = run[m]
  BY <1>1, <1>20, <1>2 DEF Levelled
<1> DEFINE Runs(j) == \E f : f = [k \in 0 .. j |-> IF k = 0 THEN x0 ELSE Step(f[k - 1], k)]
           Able == {j \in 0 .. m : Runs(j)}
<1>4. 0 \in Able
  <2> HIDE DEF Step
  <2> DEFINE f == [k \in 0 .. 0 |-> x0]
  <2>1. f = [k \in 0 .. 0 |-> IF k = 0 THEN x0 ELSE Step(f[k - 1], k)]
    OBVIOUS
  <2>2. 0 \in 0 .. m
    OBVIOUS
  <2> HIDE DEF f
  <2>3. Runs(0)
    BY <2>1
  <2> HIDE DEF Runs
  <2> QED BY <2>2, <2>3
<1>5. ASSUME NEW j \in 0 .. (m - 1), j \in Able PROVE j + 1 \in Able
  <2> HIDE DEF Step
  <2>1. PICK f : f = [k \in 0 .. j |-> IF k = 0 THEN x0 ELSE Step(f[k - 1], k)]
    BY <1>5
  <2> DEFINE g == [k \in 0 .. (j + 1) |-> IF k <= j THEN f[k] ELSE Step(f[j], k)]
  <2>2. ASSUME NEW k \in 0 .. (j + 1) PROVE g[k] = IF k = 0 THEN x0 ELSE Step(g[k - 1], k)
    <3>1. CASE k <= j
      <4>1. k \in 0 .. j /\ g[k] = f[k]
        BY <3>1
      <4>2. f[k] = IF k = 0 THEN x0 ELSE Step(f[k - 1], k)
        <5> HIDE DEF g
        <5> QED BY <2>1, <4>1
      <4>3. k # 0 => g[k - 1] = f[k - 1]
        BY <3>1
      <4> HIDE DEF g
      <4> QED BY <4>1, <4>2, <4>3
    <3>2. CASE k = j + 1
      <4>1. g[k] = Step(f[j], k) /\ g[k - 1] = f[j] /\ k # 0
        BY <3>2
      <4> HIDE DEF g
      <4> QED BY <4>1
    <3> QED BY <3>1, <3>2
  <2>3. g = [k \in 0 .. (j + 1) |-> g[k]]
    OBVIOUS
  <2> HIDE DEF g
  <2>4. g = [k \in 0 .. (j + 1) |-> IF k = 0 THEN x0 ELSE Step(g[k - 1], k)]
    BY <2>2, <2>3
  <2>5. Runs(j + 1)
    BY <2>4
  <2>6. j + 1 \in 0 .. m
    OBVIOUS
  <2> HIDE DEF Runs
  <2> QED BY <2>5, <2>6
<1>6. Runs(m)
  <2>1. \A j \in 0 .. m : j \in Able
    <3> HIDE DEF Able
    <3> QED BY <1>4, <1>5, Induct
  <2>2. m \in 0 .. m
    OBVIOUS
  <2> HIDE DEF Runs
  <2> QED BY <2>1, <2>2
<1>7. PICK g : g = run
  OBVIOUS
<1>8. g = [k \in 0 .. m |-> IF k = 0 THEN x0 ELSE Step(g[k - 1], k)]
  <2> HIDE DEF Step
  <2> QED BY <1>6, <1>7
<1> HIDE DEF run
<1> DEFINE Stays(e) == /\ DOMAIN e = DOMAIN x0
                       /\ \A q \in DOMAIN x0 \cap (0 .. (L - 1)) : e[q] = x0[q]
           Same == {k \in 0 .. m : Stays(g[k])}
<1>9. 0 \in Same
  <2> HIDE DEF Step
  <2>1. 0 \in 0 .. m
    OBVIOUS
  <2>2. g[0] = x0
    BY <1>8, <2>1
  <2> QED BY <2>1, <2>2
<1>10. ASSUME NEW k \in 0 .. (m - 1), k \in Same PROVE k + 1 \in Same
  <2>1. k + 1 \in 0 .. m /\ k + 1 # 0 /\ (k + 1) - 1 = k
    OBVIOUS
  <2>2. PICK e : e = g[k] /\ Stays(e)
    BY <1>10
  <2>3. g[k + 1] = Step(e, k + 1)
    <3> HIDE DEF Step
    <3> QED BY <1>8, <2>1, <2>2
  <2>4. PICK w \in Nat : w = L + k /\ w = L + ((k + 1) - 1)
    OBVIOUS
  <2>6. PICK v : g[k + 1] = [e EXCEPT ![w] = v]
    <3> HIDE DEF Entry
    <3> QED BY <2>3, <2>4
  <2>5. Stays(g[k + 1])
    <3>1. DOMAIN g[k + 1] = DOMAIN e /\ \A q \in DOMAIN e : q # w => g[k + 1][q] = e[q]
      BY <2>6
    <3>2. ASSUME NEW q \in DOMAIN x0 \cap (0 .. (L - 1)) PROVE g[k + 1][q] = x0[q]
      <4>1. q # w
        BY <2>4, <3>2
      <4> QED BY <2>2, <3>1, <3>2, <4>1
    <3> QED BY <2>2, <3>1, <3>2
  <2> HIDE DEF Stays
  <2> QED BY <2>1, <2>5
<1>11. Stays(g[m])
  <2>1. \A k \in 0 .. m : k \in Same
    <3> HIDE DEF Same
    <3> QED BY <1>9, <1>10, Induct
  <2>2. m \in 0 .. m
    OBVIOUS
  <2> HIDE DEF Stays
  <2> QED BY <2>1, <2>2
<1> QED BY <1>1, <1>20, <1>3, <1>7, <1>11 DEF LevelsAbove
----------------------------------------------------------------------------
(***************************************************************************)
(* What the drafter's cache holds.                                         *)
(***************************************************************************)
\* The rows h hands the extend stand for its text from what it had committed.
HandsOn(h) == Fed(h)' /\ Done(h)' = committed[h]

LEMMA HeadFed ==
    ASSUME IInv, MoveInv, Context, TextInv, ExtentOK, DOMAIN ext_rows = Request, SpecPath,
           NEW h, h = Head(todo), NEW path, Walked(h, path), Handed(h, path), Ran(h)
    PROVE  HandsOn(h)
<1>1. pc = "accept" /\ todo # << >> /\ TypeOK /\ Locals /\ Treed /\ Depth > 0
  BY DEF SpecPath, AcceptSpec, InAccept, IInv, InCall
<1>2. h \in Todo
  BY <1>1, Visits
<1>3. RowsHeld(h) /\ h \in Running /\ h \in Request /\ Newly = Todo \cap Admitted
  BY <1>1, <1>2, TodoHeld
<1>4. TextFits(h) /\ Worded(h) /\ prompt[h] >= 1 /\ prompt[h] \in Nat
  <2>1. state[h] = "running"
    BY <1>1, <1>3 DEF IInv, InCall, Queued
  <2> QED BY <1>1, <1>3, <2>1, TextsFit DEF TextInv, ExtentOK, TypeOK, SchedTypeOK
<1>5. Text(h)' = Text(h) \o Answer(h, path)
  <2>1. UNCHANGED <<prompt, asked>>
    <3>1. AcceptDone \/ AcceptPlain \/ AcceptSpec
      BY DEF SpecPath
    <3> QED BY <3>1, Accepts
  <2> QED BY <1>1, <1>3, <1>4, <2>1, WalkedWords
<1>6. PICK L \in Nat, n \in Nat, a \in Nat, N \in Nat :
          L = committed[h] /\ n = tree[h] /\ a = Len(path) /\ N = Queries(h)
  BY <1>1, <1>3 DEF RowsHeld, Walked, PathSpelled
<1>7. PICK T \in Seq(Nat) : T = Text(h)
  BY <1>4 DEF TextFits
<1>8. PICK t \in Seq(Nat) : t = PathTokens(parents[h], path) /\ Len(t) = a
  BY <1>6 DEF Walked, PathSpelled
<1>9. PICK e \in Seq(Nat) : e = Answer(h, path) /\ Len(e) = a + 1
  BY <1>6 DEF Walked
<1>10. PICK W \in Seq(Nat) : W = T \o e /\ Text(h)' = W
  <2>1. T \o e \in Seq(Nat)
    BY OpeningsJoined
  <2> QED BY <1>5, <1>7, <1>9, <2>1
<1>11. /\ Len(W) = Len(T) + Len(e)
       /\ \A k \in 0 .. Len(T) : Opening(W, k) = Opening(T, k)
       /\ \A k \in 0 .. Len(e) : Opening(W, Len(T) + k) = T \o Opening(e, k)
       /\ \A k \in 1 .. Len(T) : W[k] = T[k]
       /\ \A k \in 1 .. Len(e) : W[Len(T) + k] = e[k]
  <2>1. /\ Len(T \o e) = Len(T) + Len(e)
        /\ \A k \in 0 .. Len(T) : Opening(T \o e, k) = Opening(T, k)
        /\ \A k \in 0 .. Len(e) : Opening(T \o e, Len(T) + k) = T \o Opening(e, k)
    BY OpeningsJoined
  <2>2. \A k \in 1 .. Len(T) : (T \o e)[k] = T[k]
    BY ConcatPositions
  <2>3. ASSUME NEW k \in 1 .. Len(e) PROVE (T \o e)[Len(T) + k] = e[k]
    <3>1. PICK x \in Nat, y \in Nat : x = Len(T) /\ y = Len(e)
      OBVIOUS
    <3>2. x + k \in (x + 1) .. (x + y) /\ (x + k) - x = k
      BY <3>1
    <3> QED BY <3>1, <3>2, ConcatPositions
  <2> QED BY <1>10, <2>1, <2>2, <2>3
<1>12. rows[h] = [k \in 1 .. N |-> RowOf(h, k)]
  BY <1>6 DEF Ran, RowsOf
<1>13. PICK E : E = ExtRows(h, path) /\ ext_rows'[h] = E
  BY <1>1, <1>3 DEF Handed
<1>14. PICK o \in Seq(Nat) : /\ o = out_tokens[h] /\ out_tokens'[h] = o \o e
                             /\ Len(o \o e) = Len(o) + Len(e)
                             /\ \A k \in 1 .. Len(e) : (o \o e)[Len(o) + k] = e[k]
  <2>1. PICK o \in Seq(Nat) : o = out_tokens[h]
    BY <1>4 DEF Worded
  <2>2. out_tokens'[h] = o \o e
    BY <1>3, <1>9, <2>1 DEF Walked, TextInv
  <2>3. Len(o \o e) = Len(o) + Len(e)
    BY OpeningsJoined
  <2>4. ASSUME NEW k \in 1 .. Len(e) PROVE (o \o e)[Len(o) + k] = e[k]
    <3>1. PICK x \in Nat, y \in Nat : x = Len(o) /\ y = Len(e)
      OBVIOUS
    <3>2. x + k \in (x + 1) .. (x + y) /\ (x + k) - x = k
      BY <3>1
    <3> QED BY <3>1, <3>2, ConcatPositions
  <2> QED BY <2>1, <2>2, <2>3, <2>4
<1>15. CASE h \in Newly
  <2>1. L = 0 /\ a = 0 /\ N = prompt[h] /\ tree[h] = NoTree /\ path = << >> /\ committed'[h] = N
        /\ Len(T) = N /\ h \in Admitted
    <3>1. committed[h] = 0 /\ Queries(h) = prompt[h] /\ tree[h] = NoTree
      BY <1>3, <1>15 DEF RowsHeld
    <3>2. path = << >> /\ committed'[h] = prompt[h]
      BY <1>15, <3>1 DEF Walked
    <3>3. Len(T) = prompt[h] /\ h \in Admitted
      BY <1>3, <1>4, <1>7, <1>15 DEF TextFits
    <3> QED BY <1>6, <3>1, <3>2, <3>3
  <2>2. E = [k \in 1 .. N |->
                [ctx |-> RowOf(h, k),
                 tok |-> IF k < N THEN prompt_ids[h][k + 1] ELSE Last(out_tokens'[h])]]
    BY <1>12, <1>13, <2>1 DEF ExtRows
  <2>3. Len(E) = N /\ N \in 1 .. N
    BY <1>4, <2>1, <2>2
  <2>4. Done(h)' = L
    <3>1. Done(h)' = N - N
      BY <1>13, <2>1, <2>3 DEF Done
    <3>2. N - N = 0
      OBVIOUS
    <3> QED BY <2>1, <3>1, <3>2
  <2>5. ASSUME NEW k \in 1 .. N PROVE E[k].ctx = Opening(W, k) /\ E[k].tok = W[k + 1]
    <3>1. k \in 0 .. Len(T) /\ k \in 1 .. Len(T)
      BY <2>1
    <3>2. E[k].ctx = Opening(T, k)
      BY <1>7, <2>1, <2>2 DEF RowOf
    <3>3. CASE k < N
      <4>1. k + 1 \in 1 .. N /\ N \in 0 .. Len(T) /\ k + 1 \in 1 .. Len(T)
        BY <2>1, <3>3
      <4>2. prompt_ids[h] = Opening(T, N)
        BY <1>4, <1>7, <2>1 DEF Worded
      <4>3. Opening(T, N)[k + 1] = T[k + 1]
        BY <4>1, Openings
      <4>4. E[k].tok = prompt_ids[h][k + 1]
        BY <2>2, <3>3
      <4> QED BY <1>11, <3>1, <3>2, <4>1, <4>2, <4>3, <4>4
    <3>4. CASE k = N
      <4>1. E[k].tok = Last(o \o e)
        BY <1>14, <2>2, <3>4
      <4>2. Len(e) = 1 /\ 1 \in 1 .. Len(e)
        <5>1. a + 1 = 1
          BY <2>1
        <5>2. Len(e) = 1
          BY <1>9, <5>1
        <5> QED BY <5>2
      <4>3. Last(o \o e) = e[1]
        BY <1>14, <4>2 DEF Last
      <4>4. W[k + 1] = e[1]
        BY <1>11, <2>1, <3>4, <4>2
      <4> QED BY <1>11, <3>1, <3>2, <4>1, <4>3, <4>4
    <3> QED BY <3>3, <3>4
  <2>6. ASSUME NEW k \in 1 .. N
        PROVE  E[k].ctx = Opening(W, L + k) /\ E[k].tok = W[L + k + 1]
    <3>1. L + k = k
      BY <2>1
    <3> QED BY <2>5, <3>1
  <2>7. Fed(h)'
    BY <1>10, <1>13, <2>1, <2>3, <2>4, <2>6 DEF Fed
  <2> QED BY <1>6, <2>1, <2>4, <2>7 DEF HandsOn
<1>16. CASE h \notin Newly
  <2>1. committed'[h] = L + (a + 1) /\ N = 1 + n /\ Len(T) = L + 1 /\ h \notin Admitted /\ tree[h] # NoTree
    <3>1. Queries(h) = 1 + tree[h]
      BY <1>3, <1>16 DEF RowsHeld
    <3>2. committed'[h] = committed[h] + Len(path) + 1
      BY <1>16 DEF Walked
    <3>3. Len(T) = committed[h] + 1
      BY <1>4, <1>7, <1>16 DEF TextFits
    <3>4. h \notin Admitted
      BY <1>2, <1>3, <1>16
    <3>5. tree[h] # NoTree
      BY <1>1, <1>2, <1>3, <1>16 DEF Treed, Pending
    <3>6. committed'[h] = L + (a + 1)
      <4>1. L + a + 1 = L + (a + 1)
        OBVIOUS
      <4>2. committed'[h] = L + a + 1
        BY <1>6, <3>2
      <4> QED BY <4>1, <4>2
    <3> QED BY <1>6, <3>1, <3>3, <3>4, <3>5, <3>6
  <2>2. E = [k \in 1 .. (a + 1) |->
                [ctx |-> rows[h][IF k = 1 THEN 1 ELSE 2 + path[k - 1]],
                 tok |-> out_tokens'[h][Len(out_tokens'[h]) - (a + 1) + k]]]
    BY <1>6, <1>13, <2>1 DEF ExtRows
  <2>3. Len(E) = a + 1 /\ a + 1 \in 1 .. (L + (a + 1))
    BY <2>2
  <2>4. Done(h)' = L
    <3>1. Done(h)' = (L + (a + 1)) - (a + 1)
      BY <1>13, <2>1, <2>3 DEF Done
    <3> QED BY <3>1
  <2>5. ASSUME NEW k \in 1 .. (a + 1) PROVE E[k].ctx = Opening(W, L + k)
    <3>1. E[k].ctx = rows[h][IF k = 1 THEN 1 ELSE 2 + path[k - 1]]
      BY <2>2
    <3>2. k - 1 \in 0 .. Len(e) /\ Len(T) + (k - 1) = L + k /\ k - 1 \in 0 .. Len(t)
      <4>1. k - 1 \in 0 .. a /\ k - 1 \in 0 .. (a + 1) /\ (L + 1) + (k - 1) = L + k
        OBVIOUS
      <4>2. Len(e) = a + 1 /\ Len(t) = a /\ Len(T) = L + 1
        BY <1>8, <1>9, <2>1
      <4> QED BY <4>1, <4>2
    <3>3. Opening(W, L + k) = T \o Opening(e, k - 1)
      BY <1>11, <3>2
    <3>4. Opening(e, k - 1) = Opening(t, k - 1)
      <4>1. PICK u \in Seq(Nat) : u = << Fresh >> /\ Len(u) = 1
        <5>1. << Fresh >> \in Seq(Nat) /\ Len(<< Fresh >>) = 1
          BY DEF Fresh
        <5> QED BY <5>1
      <4>2. e = t \o u
        BY <1>8, <1>9, <4>1 DEF Answer
      <4>3. \A j \in 0 .. Len(t) : Opening(t \o u, j) = Opening(t, j)
        BY OpeningsJoined
      <4> QED BY <3>2, <4>2, <4>3
    <3>5. CASE k = 1
      <4>1. 1 \in 1 .. N
        BY <2>1
      <4>2. E[k].ctx = T
        BY <1>7, <1>12, <2>1, <3>1, <3>5, <4>1 DEF RowOf
      <4>3. Opening(W, Len(T)) = Opening(T, Len(T)) /\ Opening(T, Len(T)) = T
        <5>1. Len(T) \in 0 .. Len(T)
          BY <2>1
        <5> QED BY <1>11, <5>1, OpeningsJoined
      <4>4. L + k = Len(T)
        BY <2>1, <3>5
      <4> QED BY <4>2, <4>3, <4>4
    <3>6. CASE k # 1
      <4>1. PICK i \in 1 .. a : i = k - 1
        BY <3>6
      <4>2. path[i] \in 0 .. (n - 1) /\ Words(parents[h], path[i]) = Opening(t, i)
        BY <1>6, <1>8 DEF Walked, PathSpelled
      <4>3. PICK j \in 1 .. N : j = 2 + path[i] /\ j # 1 /\ j - 2 = path[i]
        <5>1. PICK x \in 0 .. (n - 1) : x = path[i]
          BY <4>2
        <5>2. 2 + x \in 1 .. (1 + n) /\ 2 + x # 1 /\ (2 + x) - 2 = x
          OBVIOUS
        <5> QED BY <2>1, <5>1, <5>2
      <4>4. E[k].ctx = RowOf(h, j)
        BY <1>12, <3>1, <3>6, <4>1, <4>3
      <4>5. RowOf(h, j) = T \o Opening(t, i)
        BY <1>7, <2>1, <4>2, <4>3 DEF RowOf
      <4> QED BY <3>3, <3>4, <4>1, <4>4, <4>5
    <3> QED BY <3>5, <3>6
  <2>6. ASSUME NEW k \in 1 .. (a + 1) PROVE E[k].tok = W[L + k + 1]
    <3>1. k \in 1 .. Len(e)
      BY <1>9
    <3>2. PICK x \in Nat : x = Len(o)
      OBVIOUS
    <3>3. (x + (a + 1)) - (a + 1) + k = x + k
      OBVIOUS
    <3>4. Len(o \o e) = x + (a + 1)
      BY <1>9, <1>14, <3>2
    <3>5. E[k].tok = (o \o e)[x + k]
      BY <1>14, <2>2, <3>3, <3>4
    <3>6. (o \o e)[x + k] = e[k] /\ W[Len(T) + k] = e[k]
      BY <1>11, <1>14, <3>1, <3>2
    <3>7. Len(T) + k = L + k + 1
      BY <2>1
    <3> QED BY <3>5, <3>6, <3>7
  <2>7. Fed(h)'
    BY <1>10, <1>13, <2>1, <2>3, <2>4, <2>5, <2>6 DEF Fed
  <2> QED BY <1>6, <2>4, <2>7 DEF HandsOn
<1> QED BY <1>15, <1>16

\* Under speculation, while at most one update has been made, the drafter's cache holds the
\* texts of the running requests one token ahead; those the accept loop has visited lack the
\* tokens just accepted, and the rows noted for the extend stand for them.
DraftInv ==
    /\ DOMAIN ext_rows = Request
    /\ Depth > 0 =>
         /\ pc \in {"capture", "idle", "admit", "reserve"} =>
                \A r \in Running : Drafted(r, committed[r])
         /\ pc \in {"accept", "regrow"} =>
                /\ \A r \in Pending : Drafted(r, committed[r])
                /\ \A r \in Running \ Pending : Fed(r) /\ Drafted(r, Done(r))

\* What a request that neither moves nor writes keeps of the drafter's.
Undisturbed(r) ==
    /\ Settled(r, committed[r]) /\ committed'[r] = committed[r] /\ Text(r)' = Text(r)
    /\ committed[r] \in Nat /\ draft_kv' = draft_kv

\* What it had is still there.
Remains(r) == Drafted(r, committed[r]) => Drafted(r, committed[r])'

LEMMA DraftedStays == ASSUME NEW r, Undisturbed(r) PROVE Remains(r)
<1> SUFFICES ASSUME Drafted(r, committed[r]),
                    NEW p \in 0 .. (committed[r] - 1)
             PROVE  draft_kv'[Phys(r, p)'] = Opening(Text(r)', p + 2)
  BY DEF Remains, Undisturbed, Drafted
<1>1. Phys(r, p)' = Phys(r, p) /\ draft_kv' = draft_kv /\ Text(r)' = Text(r)
  BY DEF Undisturbed, Settled
<1>2. draft_kv[Phys(r, p)] = Opening(Text(r), p + 2)
  BY DEF Drafted
<1> QED BY <1>1, <1>2

\* ... and the rows noted for it.
FedRemains(r) == Fed(r) /\ Drafted(r, Done(r)) => Fed(r)' /\ Drafted(r, Done(r))'

LEMMA FedStays == ASSUME NEW r, Undisturbed(r), ext_rows'[r] = ext_rows[r] PROVE FedRemains(r)
<1> SUFFICES ASSUME Fed(r), Drafted(r, Done(r)) PROVE Fed(r)' /\ Drafted(r, Done(r))'
  BY DEF FedRemains
<1>1. Done(r)' = Done(r)
  BY DEF Done, Undisturbed
<1>2. Fed(r)'
  BY <1>1 DEF Fed, Undisturbed
<1>3. PICK d \in Int, L \in Nat : d = Done(r) /\ L = committed[r] /\ d <= L
  <2>1. PICK L \in Nat : L = committed[r]
    BY DEF Undisturbed
  <2>2. PICK n \in Int : n = Len(ext_rows[r]) /\ 1 <= n
    BY DEF Fed
  <2>3. L - n \in Int /\ L - n <= L
    BY <2>2
  <2> QED BY <2>1, <2>2, <2>3 DEF Done
<1>4. ASSUME NEW p \in 0 .. (d - 1) PROVE draft_kv'[Phys(r, p)'] = Opening(Text(r)', p + 2)
  <2>1. p \in 0 .. (L - 1)
    BY <1>3
  <2>2. Phys(r, p)' = Phys(r, p) /\ draft_kv' = draft_kv /\ Text(r)' = Text(r)
    BY <1>3, <2>1 DEF Undisturbed, Settled
  <2>3. draft_kv[Phys(r, p)] = Opening(Text(r), p + 2)
    BY <1>3 DEF Drafted
  <2> QED BY <2>2, <2>3
<1>5. Drafted(r, Done(r))'
  BY <1>1, <1>3, <1>4 DEF Drafted
<1> QED BY <1>2, <1>5

\* The accepted request's earlier text is where it was.
Carried(h) == \A p \in 0 .. (committed[h] - 1) : draft_kv'[Phys(h, p)'] = Opening(Text(h)', p + 2)

LEMMA HeadCarried ==
    ASSUME IInv, MoveInv, Context, TextInv, SpecPath, NEW h, h = Head(todo),
           NEW path, Walked(h, path), Drafted(h, committed[h])
    PROVE  Carried(h)
<1>1. pc = "accept" /\ todo # << >> /\ TypeOK /\ Locals
  BY DEF SpecPath, AcceptSpec, InAccept, IInv, InCall
<1>2. h \in Todo /\ PoolInv
  BY <1>1, Visits DEF IInv
<1>3. RowsHeld(h) /\ h \in Running /\ h \in Request /\ h \in Id
  BY <1>1, <1>2, TodoHeld
<1>4. TextFits(h) /\ Worded(h)
  <2>1. state[h] = "running"
    BY <1>1, <1>3 DEF IInv, InCall, Queued
  <2> QED BY <1>1, <1>3, <2>1, TextsFit DEF TextInv
<1>5. Text(h)' = Text(h) \o Answer(h, path)
  <2>1. UNCHANGED <<prompt, asked>>
    <3>1. AcceptDone \/ AcceptPlain \/ AcceptSpec
      BY DEF SpecPath
    <3> QED BY <3>1, Accepts
  <2> QED BY <1>1, <1>3, <1>4, <2>1, WalkedWords
<1>6. PICK T \in Seq(Nat) : T = Text(h)
  BY <1>4 DEF TextFits
<1>7. PICK e \in Seq(Nat) : e = Answer(h, path)
  BY DEF Walked
<1>8. PICK L \in Nat, a \in Nat : L = committed[h] /\ a = Len(path)
  BY <1>3 DEF RowsHeld, Walked, PathSpelled
<1> SUFFICES ASSUME NEW p \in 0 .. (L - 1)
             PROVE  draft_kv'[Phys(h, p)'] = Opening(Text(h)', p + 2)
  BY <1>8 DEF Carried
<1>9. h \notin Newly
  BY <1>3, <1>8 DEF RowsHeld
<1>10. Len(T) = L + 1 /\ committed'[h] = L + a + 1
  BY <1>4, <1>6, <1>8, <1>9 DEF TextFits, Walked
<1>11. Opening(T \o e, p + 2) = Opening(T, p + 2)
  <2>1. p + 2 \in 0 .. Len(T)
    BY SMTT(30), <1>10
  <2> QED BY <2>1, OpeningsJoined
<1>12. Phys(h, p)' = Phys(h, p)
  <2>1. PICK n \in Nat : n = committed'[h] /\ n = L + a + 1
    BY <1>10
  <2>2. Rollback(h, n)
    BY <2>1 DEF SpecPath, AcceptSpec
  <2>3. \A i \in 1 .. BlocksFor(n) : blocks'[h][i] = blocks[h][i]
    BY <1>2, <1>3, <2>2, RollbackStays
  <2>4. Settled(h, n)
    BY <2>3, BlocksSettle
  <2>5. p \in 0 .. (n - 1)
    BY <2>1
  <2> QED BY <2>4, <2>5 DEF Settled
<1>13. draft_kv' = draft_kv /\ draft_kv[Phys(h, p)] = Opening(T, p + 2)
  BY <1>6, <1>8 DEF Walked, Drafted
<1> QED BY <1>5, <1>6, <1>7, <1>11, <1>12, <1>13

\* The accept loop's rounds.
LEMMA AcceptDrafts ==
    ASSUME IInv, IInv', MoveInv, Context, TextInv, KvInv, ExtentOK, DraftInv,
           FinishPath \/ PlainPath \/ SpecPath
    PROVE  DraftInv'
<1>0. PICK h : h = Head(todo)
  OBVIOUS
<1>1. AcceptDone \/ AcceptPlain \/ AcceptSpec
  BY DEF FinishPath, PlainPath, SpecPath
<1>2. /\ pc = "accept" /\ todo # << >> /\ admitted' = admitted
      /\ h \in Request /\ h \in Running /\ h \in Todo
      /\ \A r \in Request \ {h} : committed'[r] = committed[r]
      /\ \/ pc' = "accept" /\ todo' = Tail(todo)
         \/ pc' = "regrow" /\ todo' = todo
      /\ Running' \subseteq Running
  BY <1>0, <1>1, Accepts
<1>3. /\ TypeOK /\ PoolInv /\ Locals /\ pc' \in {"accept", "regrow"} /\ pc' # "exhausted" /\ Pending = Todo
      /\ Running \subseteq Request /\ Request \subseteq Id
  BY <1>2, Members DEF IInv, InCall, Pending
<1>4. Pending' = Todo \ {h} /\ Pending' \subseteq Running
  <2>1. Pending' = Pending \ {h}
    BY <1>0, <1>2, <1>3, AcceptedOne
  <2> QED BY <1>2, <1>3, <2>1 DEF Locals
<1>5. Spared(h)
  BY <1>0, AcceptSpares DEF MoveInv
<1>6. /\ draft_kv' = draft_kv /\ DOMAIN ext_rows' = Request
      /\ \A r \in Request \ {h} : ext_rows'[r] = ext_rows[r]
  <2>1. CASE FinishPath \/ PlainPath
    <3>1. draft_kv' = draft_kv /\ ext_rows' = ext_rows
      BY <2>1 DEF FinishPath, PlainPath, AcceptPath
    <3> QED BY <3>1 DEF DraftInv
  <2>2. CASE SpecPath
    <3>1. PICK path : AcceptPath(h, path) /\ ext_rows' = [ext_rows EXCEPT ![h] = ExtRows(h, path)]
      BY <1>0, <2>2 DEF SpecPath
    <3> QED BY <1>2, <3>1 DEF AcceptPath, DraftInv
  <2> QED BY <2>1, <2>2
<1> SUFFICES ASSUME Depth > 0
             PROVE  /\ \A r \in Pending' : Drafted(r, committed[r])'
                    /\ \A r \in Running' \ Pending' : Fed(r)' /\ Drafted(r, Done(r))'
  BY <1>3, <1>6 DEF DraftInv
<1>7. ASSUME NEW r \in Request \ {h}, r \in Running PROVE Undisturbed(r)
  <2>1. committed[r] \in Nat
    BY <1>3 DEF TypeOK, SchedTypeOK
  <2>2. Kept(r)
    BY <1>5 DEF Spared
  <2> QED BY <1>6, <2>1, <2>2 DEF Undisturbed, Kept, Settled
<1>8. ASSUME NEW r \in Pending' PROVE Drafted(r, committed[r])'
  <2>1. r \in Request \ {h} /\ r \in Running /\ Drafted(r, committed[r])
    BY <1>2, <1>3, <1>4 DEF DraftInv
  <2>2. Remains(r)
    BY <1>7, <2>1, DraftedStays
  <2> QED BY <2>1, <2>2 DEF Remains
<1>9. ASSUME NEW r \in Running' \ Pending' PROVE Fed(r)' /\ Drafted(r, Done(r))'
  <2>1. r \in Running /\ r \in Request /\ (r = h \/ r \notin Pending)
    BY <1>2, <1>3, <1>4
  <2>2. CASE r = h
    <3>1. SpecPath
      <4>1. FinishPath => h \notin Running'
        <5>1. running \in Seq(Request) /\ IsInjective(running) /\ h \in ToSet(running)
          BY <1>2, <1>3 DEF Running, IInv, InCall, Queued, TypeOK, SchedTypeOK
        <5>2. FinishPath => running' = Without(running, h)
          BY <1>0 DEF FinishPath, AcceptDone, Finish
        <5> QED BY <5>1, <5>2, RemoveQueue DEF Running
      <4>2. ~PlainPath
        <5> SUFFICES ASSUME PlainPath PROVE FALSE
          OBVIOUS
        <5>1. Depth = 0
          BY DEF PlainPath, AcceptPlain
        <5> QED BY <5>1
      <4> QED BY <2>2, <4>1, <4>2
    <3>2. PICK path : Walked(h, path) /\ Handed(h, path)
      BY <1>0, <3>1, PathTaken
    <3>3. Ran(h) /\ Drafted(h, committed[h]) /\ DOMAIN ext_rows = Request
      BY <1>2, <1>3 DEF KvInv, DraftInv
    <3>4. HandsOn(h) /\ Carried(h)
      BY <1>0, <3>1, <3>2, <3>3, HeadFed, HeadCarried
    <3>5. Drafted(h, Done(h))'
      BY <3>4 DEF HandsOn, Carried, Drafted
    <3> QED BY <2>2, <3>4, <3>5 DEF HandsOn
  <2>3. CASE r # h
    <3>1. Fed(r) /\ Drafted(r, Done(r))
      BY <1>2, <2>1, <2>3 DEF DraftInv
    <3>2. FedRemains(r)
      BY <1>6, <1>7, <2>1, <2>3, FedStays
    <3> QED BY <3>1, <3>2 DEF FedRemains
  <2> QED BY <2>2, <2>3
<1> QED BY <1>8, <1>9

\* Steps between two forwards.
LEMMA DraftFeeding ==
    ASSUME IInv, IInv', DraftInv, Next, draft_kv' = draft_kv, ext_rows' = ext_rows,
           pc \in {"capture", "idle", "admit", "reserve"},
           pc' \in {"capture", "idle", "admit", "reserve"}, Quiet
    PROVE  DraftInv'
<1> SUFFICES ASSUME Depth > 0, NEW r \in Running' PROVE Drafted(r, committed[r])'
  BY DEF DraftInv
<1>1. /\ Queued /\ Queued' /\ TypeOK /\ TypeOK' /\ pc # "exhausted" /\ pc' # "exhausted"
  BY DEF IInv, InCall
<1>2. CASE committed'[r] = 0
  BY <1>2 DEF Drafted
<1>3. CASE r \in Running /\ committed'[r] = committed[r] /\ Text(r)' = Text(r)
  <2>1. r \in Request /\ state[r] = "running" /\ state'[r] = "running" /\ committed[r] \in Nat
    BY <1>1, <1>3, Members DEF Queued, TypeOK, SchedTypeOK
  <2>2. Settled(r, committed[r])
    BY <1>1, <2>1, AddressesStay
  <2>3. Drafted(r, committed[r])
    BY <1>3 DEF DraftInv
  <2>4. Undisturbed(r)
    BY <1>3, <2>1, <2>2 DEF Undisturbed
  <2> QED BY <2>3, <2>4, DraftedStays DEF Remains
<1> QED BY <1>2, <1>3 DEF Quiet

\* The forward starts the accept loop.
LEMMA ForwardDrafts ==
    ASSUME IInv, IInv', DraftInv, RunForward
    PROVE  DraftInv'
<1>1. /\ pc = "reserve" /\ pc' = "accept" /\ todo' = batch \o admitted
      /\ UNCHANGED <<running, committed, asked, blocks, prompt_ids, out_tokens, draft_kv, ext_rows>>
  BY DEF RunForward, Forward, sched, request, pool, texts
<1>2. Pending' = Running /\ Running' = Running
  <2>1. running = batch \o admitted
    BY <1>1 DEF IInv, InCall, Locals
  <2> QED BY <1>1, <2>1 DEF Pending, Todo, Running
<1>3. \A r : Drafted(r, committed[r])' <=> Drafted(r, committed[r])
  BY <1>1 DEF Drafted, Phys, Text
<1> QED BY <1>1, <1>2, <1>3 DEF DraftInv

\* The slots reserved for the next verify are behind those of the last.
LEMMA RegrowDrafts ==
    ASSUME IInv, IInv', DraftInv, Regrow, UNCHANGED contents
    PROVE  DraftInv'
<1>0. PICK h : h = Head(todo)
  OBVIOUS
<1>1. /\ TypeOK /\ Queued /\ Queued' /\ Locals
      /\ pc = "regrow" /\ pc' = "accept" /\ todo' = Tail(todo) /\ pc # "exhausted"
      /\ UNCHANGED <<running, state, out, committed, asked>>
  BY <1>0 DEF IInv, InCall, Regrow, sched, request
<1>2. /\ UNCHANGED <<draft_kv, ext_rows, prompt_ids, out_tokens>>
  BY DEF contents, texts, local
<1>3. todo # << >> /\ ToSet(Tail(todo)) = Todo \ {h}
  BY <1>0, <1>1, Visits DEF Locals
<1>4. Pending = Todo \ {h} /\ Pending' = Pending /\ Running' = Running /\ Running \subseteq Request
      /\ Todo \subseteq Running
  BY <1>0, <1>1, <1>3, Members DEF Pending, Todo, Running, Locals
<1>5. ASSUME NEW r \in Running PROVE Undisturbed(r)
  <2>1. r \in Request /\ state[r] = "running" /\ state'[r] = "running" /\ committed[r] \in Nat
    BY <1>1, <1>4 DEF Queued, TypeOK, SchedTypeOK
  <2>2. Next
    BY DEF Next, StepAction
  <2>3. Settled(r, committed[r])
    BY <1>1, <2>1, <2>2, AddressesStay
  <2>4. Text(r)' = Text(r)
    BY <1>1, <1>2 DEF Text
  <2> QED BY <1>1, <1>2, <2>1, <2>3, <2>4 DEF Undisturbed
<1>6. \A r \in Running : Remains(r) /\ FedRemains(r)
  BY <1>2, <1>5, DraftedStays, FedStays
<1> QED BY <1>1, <1>2, <1>4, <1>6 DEF DraftInv, Remains, FedRemains

\* What the drafter's cache holds when the levels have been grown.
LEMMA GrownDrafted ==
    ASSUME IInv, Context, TextInv, DraftInv, Depth > 0, DraftTrees, NEW r \in Running
    PROVE  Drafted(r, committed[r])'
<1>1. /\ pc = "accept" /\ todo = << >> /\ alive # << >>
      /\ UNCHANGED <<blocks, committed, asked, prompt_ids, out_tokens>>
  BY DEF DraftTrees, Draft, AcceptEnds, pool
<1>2. TypeOK /\ Locals /\ PoolInv /\ pc # "exhausted" /\ Alive = Running /\ Pending = {}
      /\ Running \subseteq Id /\ r \in Id
  <2>1. TypeOK /\ Locals /\ PoolInv
    BY <1>1 DEF IInv, InCall
  <2> QED BY <1>1, <2>1, EmptyQueue, Members DEF Locals, Todo, Pending
<1>3. PICK S \in SUBSET Id : S = ToSet(alive) /\ r \in S
  BY <1>2 DEF Alive
<1>4. PICK d \in Nat \ {0} : d = DraftDepth(Len(alive))
  <2>1. alive \in Seq(Request)
    BY <1>2 DEF TypeOK
  <2>2. PICK b \in Nat \ {0} : b = Len(alive)
    BY <1>1, <2>1
  <2>3. DraftDepth(b) \in Nat /\ DraftDepth(b) * TopK # 0 /\ TopK \in Nat
    BY TreeSize, DraftDepthType, EngineAssumption
  <2>4. 0 * TopK = 0
    BY <2>3
  <2>5. DraftDepth(b) # 0
    BY <2>3, <2>4
  <2> QED BY <2>2, <2>3, <2>5
<1>5. PICK p \in [S -> TreesOf(d)] :
          draft_kv' = Stored(draft_kv, S, [s \in S |-> Levelled(s, p[s], d)])
  BY Zenon, <1>3, <1>4 DEF DraftTrees
<1>6. PICK view : view = [s \in S |-> Levelled(s, p[s], d)]
  OBVIOUS
<1>7. PICK f, e : f = view[r] /\ e = Extended(r)
  OBVIOUS
<1>8. PICK L \in Nat, q \in Nat : L = committed[r] /\ q = seq_len[r] /\ L <= q
  <2>1. committed[r] \in Nat /\ committed[r] <= seq_len[r]
    BY <1>2, CommittedIsHeld DEF CommittedHeld
  <2> QED BY <1>2, <2>1 DEF PoolInv, PoolTypeOK
<1>9. Text(r) \in Seq(Nat) /\ Len(Text(r)) = committed[r] + 1
  <2>1. r \notin Newly
    BY <1>2 DEF Newly
  <2> QED BY <1>2, <2>1, TextsFit DEF TextFits
<1>10. ExtendHolds(r)
  <2>1. Fed(r) /\ Drafted(r, Done(r))
    BY <1>1, <1>2 DEF DraftInv
  <2> QED BY <1>2, <1>3, <1>8, <1>9, <2>1, ExtendFills
<1>11. LevelsAbove(r, p[r], d)
  BY <1>8, LevelsStayAbove
<1>12. ASSUME NEW k \in 0 .. (L - 1) PROVE f[k] = Opening(Text(r), k + 2)
  <2>1. k \in DOMAIN e /\ e[k] = Opening(Text(r), k + 2)
    BY <1>7, <1>8, <1>10 DEF ExtendHolds, Leads
  <2>2. Levelled(r, p[r], d)[k] = e[k]
    BY <1>7, <1>8, <1>11, <2>1 DEF LevelsAbove
  <2>3. f = Levelled(r, p[r], d)
    BY <1>3, <1>6, <1>7
  <2> QED BY <2>1, <2>2, <2>3
<1>13. ASSUME NEW k \in 0 .. (L - 1) PROVE draft_kv'[Phys(r, k)] = f[k]
  <2>1. k \in 0 .. (seq_len[r] - 1)
    BY <1>8
  <2>2. StoredAt(draft_kv, S, view, r, k)
    BY <1>2, <1>3, <2>1, StoredIs
  <2> QED BY <1>5, <1>6, <1>7, <2>2 DEF StoredAt
<1>14. committed'[r] = L /\ Text(r)' = Text(r) /\ \A k : Phys(r, k)' = Phys(r, k)
  BY <1>1, <1>8 DEF Text, Phys, Draft, DraftTrees, ReturnFromStep
<1> QED BY <1>12, <1>13, <1>14 DEF Drafted

\* The extend and the levels follow the loop.
LEMMA EndDrafts ==
    ASSUME IInv, Context, TextInv, DraftInv, DraftTrees \/ EndWithoutDraft
    PROVE  DraftInv'
<1>1. /\ pc = "accept" /\ todo = << >> /\ pc' = "idle" /\ running' = running
      /\ ext_rows' = Nobody(<< >>)
  BY DEF DraftTrees, EndWithoutDraft, Draft, EndStep, AcceptEnds, ReturnFromStep, sched, LocalsDead
<1>2. Running' = Running /\ DOMAIN ext_rows' = Request
  BY <1>1 DEF Running, Nobody
<1> SUFFICES ASSUME Depth > 0, NEW r \in Running PROVE Drafted(r, committed[r])'
  BY <1>1, <1>2 DEF DraftInv
<1>3. CASE DraftTrees
  BY <1>3, GrownDrafted
<1>4. CASE EndWithoutDraft
  <2>1. alive = << >> /\ Locals
    BY <1>1, <1>4 DEF EndWithoutDraft, EndStep, IInv, InCall
  <2>2. Alive = Running \ Todo /\ Alive = {} /\ Todo = {}
    BY <1>1, <2>1, EmptyQueue DEF Locals, Alive, Todo
  <2> QED BY <2>2
<1> QED BY <1>3, <1>4

\* A new request has no contents yet.
LEMMA AddDrafts ==
    ASSUME IInv, IInv', TextInv, DraftInv, AddText
    PROVE  DraftInv'
<1>1. Next /\ pc = "idle" /\ pc' = "idle" /\ draft_kv' = draft_kv /\ ext_rows' = ext_rows
  BY DEF AddText, Add, Next, step, local
<1> QED BY <1>1, AddIsQuiet, DraftFeeding

\* Steps that move no contents.
LEMMA BookkeepingDrafts ==
    ASSUME IInv, IInv', DraftInv, Bookkeeping, pc # "exhausted", pc' # "exhausted"
    PROVE  DraftInv'
<1>1. /\ UNCHANGED <<draft_kv, ext_rows, prompt_ids, out_tokens>> /\ UNCHANGED contents
  BY DEF Bookkeeping, contents, texts, local
<1>2. CASE Admit
  <2>1. Next /\ pc = "admit" /\ pc' = "admit"
    BY <1>2 DEF Next, StepAction, Admit, HeadFits, MayAdmit
  <2> QED BY <1>1, <1>2, <2>1, AdmitIsQuiet, DraftFeeding
<1>3. CASE Regrow
  BY <1>1, <1>3, RegrowDrafts
<1>4. CASE Raise
  BY <1>4 DEF Raise
<1>5. CASE Capture \/ BeginStep \/ StepIsEmpty \/ BeginRun \/ Reserve
  <2>1. /\ UNCHANGED <<running, committed, asked, out>> /\ Next
        /\ pc \in {"capture", "idle", "admit", "reserve"} /\ pc' \in {"capture", "idle", "admit", "reserve"}
    BY <1>5 DEF Next, StepAction, Capture, BeginStep, StepIsEmpty, BeginRun, Reserve, ReturnFromStep,
         sched, request
  <2>2. Quiet
    BY <1>1, <2>1 DEF Quiet, Running, Text
  <2> QED BY <1>1, <2>1, <2>2, DraftFeeding
<1>6. CASE EndUpdate
  <2>1. /\ pc = "restart" /\ todo = << >> /\ running' = running /\ pc' = "idle"
    BY <1>6 DEF EndUpdate, sched
  <2>2. Running = {}
    BY <2>1, EmptyQueue DEF IInv, InCall, Locals, Todo
  <2>3. Running' = {}
    BY <2>1, <2>2 DEF Running
  <2> QED BY <1>1, <2>1, <2>3 DEF DraftInv
<1>7. CASE Rest
  <2>1. UNCHANGED <<running, committed, asked, out, blocks>> /\ pc = "idle" /\ pc' = "idle"
    BY <1>7 DEF Rest, vars, sched, request, pool, step
  <2>2. \A r : Drafted(r, committed[r])' <=> Drafted(r, committed[r])
    BY <1>1, <2>1 DEF Drafted, Text, Phys
  <2>3. Running' = Running
    BY <2>1 DEF Running
  <2> QED BY <1>1, <2>1, <2>2, <2>3 DEF DraftInv
<1> QED BY <1>2, <1>3, <1>4, <1>5, <1>6, <1>7 DEF Bookkeeping

\* Every step keeps what the drafter's cache holds.
LEMMA StepDrafts ==
    ASSUME IInv, IInv', MoveInv, Context, TextInv, KvInv, ExtentOK, DraftInv,
           [CacheNext]_<<vars, contents>>, pc # "exhausted", pc' # "exhausted"
    PROVE  DraftInv'
<1>1. CASE AddText
  BY <1>1, AddDrafts
<1>2. CASE RunForward
  BY <1>2, ForwardDrafts
<1>3. CASE FinishPath \/ PlainPath \/ SpecPath
  BY <1>3, AcceptDrafts
<1>4. CASE DraftTrees \/ EndWithoutDraft
  BY <1>4, EndDrafts
<1>5. CASE NewWeights \/ RestartText
  <2>1. pc' = "restart" /\ ext_rows' = ext_rows
    BY <1>5 DEF NewWeights, UpdateWeights, RestartText, RestartHead, local
  <2> QED BY <2>1 DEF DraftInv
<1>6. CASE Bookkeeping
  BY <1>6, BookkeepingDrafts
<1>7. CASE UNCHANGED <<vars, contents>>
  <2>1. /\ UNCHANGED <<running, committed, asked, out, blocks, pc, todo>>
        /\ UNCHANGED <<draft_kv, ext_rows, prompt_ids, out_tokens>>
    BY <1>7 DEF vars, sched, request, pool, step, contents, texts, local
  <2>2. \A r : \A n : Drafted(r, n)' <=> Drafted(r, n)
    BY <2>1 DEF Drafted, Text, Phys
  <2>3. \A r : (Fed(r)' <=> Fed(r)) /\ (Drafted(r, Done(r))' <=> Drafted(r, Done(r)))
               /\ (Drafted(r, committed[r])' <=> Drafted(r, committed[r]))
    BY <2>1 DEF Drafted, Fed, Done, Text, Phys
  <2>4. Running' = Running /\ Pending' = Pending
    BY <2>1 DEF Running, Pending, Todo
  <2> QED BY <2>1, <2>3, <2>4 DEF DraftInv
<1> QED BY <1>1, <1>2, <1>3, <1>4, <1>5, <1>6, <1>7 DEF CacheNext

DraftUpheld == pc # "exhausted" /\ updates <= 1 => DraftInv

LEMMA InitDrafts == CacheInit => DraftUpheld
<1> SUFFICES ASSUME CacheInit PROVE DraftInv
  BY DEF DraftUpheld
<1>1. running = << >> /\ pc \in {"capture", "idle"} /\ DOMAIN ext_rows = Request
  BY DEF CacheInit, Init, SchedInit, Nobody
<1>2. Running = {}
  BY <1>1, EmptyQueue DEF Running
<1> QED BY <1>1, <1>2 DEF DraftInv

LEMMA StepDraftsUphold ==
    ASSUME IInv, IInv', MoveInv, ExtentOK, ContextUpheld, CacheUpheld, DraftUpheld,
           [CacheNext]_<<vars, contents>>
    PROVE  DraftUpheld'
<1>1. [Next]_vars
  BY CacheStepIsAStep
<1>2. (pc' # "exhausted" => pc # "exhausted") /\ (updates' <= 1 => updates <= 1)
  BY <1>1, UpheldBefore
<1> SUFFICES ASSUME pc # "exhausted", pc' # "exhausted", updates <= 1 PROVE DraftInv'
  BY <1>2 DEF DraftUpheld
<1>3. Context /\ TextInv /\ KvInv /\ DraftInv
  BY DEF ContextUpheld, CacheUpheld, DraftUpheld
<1> QED BY <1>3, StepDrafts

\* Whatever order requests accept, finish, compact, roll back, restart and are padded in, both
\* caches hold the running requests' texts, the drafter's one token ahead, until a request is
\* restarted a second time. (engine.py step, _accept, _draft; kv/cache.py move)
THEOREM CachesHold == CacheSpec => [](updates <= 1 => CachesExact)
<1>1. CacheSpec => [](IInv /\ MoveInv /\ ContextUpheld /\ CacheUpheld /\ ExtentOK)
  BY CacheInvariant, MovesInvariant, RowsExtend, PTL
<1>2. /\ IInv /\ MoveInv /\ ContextUpheld /\ CacheUpheld /\ ExtentOK
      /\ (IInv /\ MoveInv /\ ContextUpheld /\ CacheUpheld /\ ExtentOK)'
      /\ DraftUpheld /\ [CacheNext]_<<vars, contents>>
      => DraftUpheld'
  BY StepDraftsUphold
<1>3. CacheSpec => []DraftUpheld
  BY <1>1, <1>2, InitDrafts, PTL DEF CacheSpec
<1>4. DraftUpheld => (updates <= 1 => DraftCacheExact)
  BY DEF DraftUpheld, DraftInv, Drafted, Opening, DraftCacheExact
<1> QED BY <1>3, <1>4, TargetCacheHolds, PTL DEF CachesExact
=============================================================================
