---------------------------- MODULE Engine_proofs ----------------------------
(***************************************************************************)
(* Theorems about the block allocator, for every pool size, block size,    *)
(* set of ids and order of calls, and about the engine that calls it, for  *)
(* every number of requests and every depth and width of speculation.      *)
(***************************************************************************)
EXTENDS Engine, AllocatorClients, TLAPS, FiniteSetTheorems, SequenceTheorems

----------------------------------------------------------------------------
(***************************************************************************)
(* The allocator: each method keeps the pool well formed and its           *)
(* accounting exact, and the allocator implements BlockOwnership.          *)
(***************************************************************************)

\* The inductive invariant of the pool.
PoolInv == PoolTypeOK /\ EveryBlockOnce /\ TablesSized

----------------------------------------------------------------------------
\* Floor division by a positive divisor, with symbolic operands.
LEMMA FloorDiv ==
    ASSUME NEW a \in Int, NEW d \in Nat \ {0}
    PROVE  /\ a \div d \in Int
           /\ d * (a \div d) <= a
           /\ a < d * (a \div d) + d
  OBVIOUS

\* Multiplication by a positive number reflects order, by one full step at a time.
LEMMA MulStep ==
    ASSUME NEW x \in Int, NEW y \in Int, NEW d \in Nat \ {0}, x < y
    PROVE  d * x + d <= d * y
  OBVIOUS

\* BlocksFor is the ceiling: enough slots, and less than one block too many.
LEMMA BlocksForCeiling ==
    ASSUME NEW n \in Nat
    PROVE  /\ BlocksFor(n) \in Nat
           /\ n <= BlockSize * BlocksFor(n)
           /\ BlockSize * BlocksFor(n) < n + BlockSize
<1> DEFINE q == (-n) \div BlockSize
<1>1. /\ q \in Int
      /\ BlockSize * q <= -n
      /\ -n < BlockSize * q + BlockSize
  BY FloorDiv, PoolAssumption
<1>2. BlockSize * (-q) = -(BlockSize * q)
  BY <1>1, PoolAssumption
<1>3. -q >= 0
  <2>1. SUFFICES ASSUME q > 0 PROVE FALSE
    BY <1>1
  <2>2. BlockSize * 0 + BlockSize <= BlockSize * q
    BY <2>1, <1>1, MulStep, PoolAssumption
  <2> QED BY <2>2, <1>1, PoolAssumption
<1> QED BY <1>1, <1>2, <1>3, PoolAssumption DEF BlocksFor

\* A longer sequence never needs fewer blocks.
LEMMA BlocksForMonotone ==
    ASSUME NEW m \in Nat, NEW n \in Nat, m <= n
    PROVE  BlocksFor(m) <= BlocksFor(n)
<1>1. SUFFICES ASSUME BlocksFor(n) < BlocksFor(m) PROVE FALSE
  BY BlocksForCeiling
<1>2. BlockSize * BlocksFor(n) + BlockSize <= BlockSize * BlocksFor(m)
  BY <1>1, BlocksForCeiling, MulStep, PoolAssumption
<1> QED BY <1>2, BlocksForCeiling, PoolAssumption

\* No tokens, no blocks.
LEMMA BlocksForZero == BlocksFor(0) = 0
<1>1. BlocksFor(0) \in Nat /\ BlockSize * BlocksFor(0) < BlockSize
  BY BlocksForCeiling, PoolAssumption
<1>2. SUFFICES ASSUME 0 < BlocksFor(0) PROVE FALSE
  BY <1>1
<1>3. BlockSize * 0 + BlockSize <= BlockSize * BlocksFor(0)
  BY <1>1, <1>2, MulStep, PoolAssumption
<1> QED BY <1>1, <1>3, PoolAssumption

----------------------------------------------------------------------------
\* The elements of a concatenation.
LEMMA ConcatElements ==
    ASSUME NEW S, NEW s \in Seq(S), NEW t \in Seq(S)
    PROVE  /\ s \o t \in Seq(S) /\ Len(s \o t) = Len(s) + Len(t)
           /\ \A i \in 1 .. Len(s) : (s \o t)[i] = s[i]
           /\ \A i \in (Len(s) + 1) .. (Len(s) + Len(t)) : (s \o t)[i] = t[i - Len(s)]
  OBVIOUS

\* What n pops take and leave: together they are the free list.
LEMMA PoppedLeft ==
    ASSUME free \in Seq(Block), NEW n \in Nat, n <= Len(free)
    PROVE  /\ Popped(n) \in Seq(Block) /\ Len(Popped(n)) = n
           /\ Left(n) \in Seq(Block) /\ Len(Left(n)) = Len(free) - n
           /\ \A i \in 1 .. n : Popped(n)[i] = free[Len(free) + 1 - i]
           /\ \A i \in 1 .. (Len(free) - n) : Left(n)[i] = free[i]
<1>1. Popped(n) \in Seq(Block) /\ Len(Popped(n)) = n
  BY DEF Popped
<1>2. Left(n) \in Seq(Block) /\ Len(Left(n)) = Len(free) - n
  BY DEF Left
<1> QED BY <1>1, <1>2 DEF Popped, Left

(***************************************************************************)
(* The accounting of EveryBlockOnce on a list f of F blocks and tables T   *)
(* of L[r] blocks each, whatever f and T hold past those lengths: the      *)
(* arguments below are about positions, and lengths kept apart from the    *)
(* sequences are what an arithmetic prover works best with.                *)
(***************************************************************************)
FOnce(f, F) == \A i, j \in 1 .. F : f[i] = f[j] => i = j

TOnce(T, L) == \A r, s \in Id : \A i \in 1 .. L[r], j \in 1 .. L[s] :
                   T[r][i] = T[s][j] => r = s /\ i = j

FNotT(f, F, T, L) == \A r \in Id : \A i \in 1 .. F, j \in 1 .. L[r] : f[i] # T[r][j]

Covered(f, F, T, L) == \A b \in Block : \/ \E i \in 1 .. F : f[i] = b
                                        \/ \E r \in Id : \E j \in 1 .. L[r] : T[r][j] = b

Accounted(f, F, T, L) ==
    FOnce(f, F) /\ TOnce(T, L) /\ FNotT(f, F, T, L) /\ Covered(f, F, T, L)

Lengths == [r \in Id |-> Len(blocks[r])]

LEMMA AccountedIsEveryBlockOnce ==
    EveryBlockOnce <=> Accounted(free, Len(free), blocks, Lengths)
<1>1. \A r \in Id : Lengths[r] = Len(blocks[r])
  BY DEF Lengths
<1> QED BY SMTT(30), <1>1 DEF EveryBlockOnce, Accounted, FreeOnce, OwnedOnce, FreeNotOwned, NoneLost,
                    FOnce, TOnce, FNotT, Covered

\* k blocks leave the end of the list for the tail of r's table, which reverses them.
LEMMA PopsKeepAccounting ==
    ASSUME NEW F \in Nat, NEW k \in 0 .. F,
           NEW L \in [Id -> Nat], NEW M \in [Id -> Nat], NEW r \in Id,
           NEW f, NEW g, NEW T, NEW U,
           Accounted(f, F, T, L),
           \A i \in 1 .. (F - k) : g[i] = f[i],
           \A s \in Id \ {r} : U[s] = T[s] /\ M[s] = L[s],
           M[r] = L[r] + k,
           \A i \in 1 .. L[r] : U[r][i] = T[r][i],
           \A j \in (L[r] + 1) .. (L[r] + k) : U[r][j] = f[F + 1 - (j - L[r])]
    PROVE  Accounted(g, F - k, U, M)
<1>1. FOnce(g, F - k)
  BY DEF Accounted, FOnce
<1>2. TOnce(U, M)
  <2> SUFFICES ASSUME NEW s \in Id, NEW u \in Id, NEW i \in 1 .. M[s], NEW j \in 1 .. M[u],
                      U[s][i] = U[u][j]
               PROVE  s = u /\ i = j
    BY DEF TOnce
  <2>1. CASE s # r /\ u # r
    BY <2>1 DEF Accounted, TOnce
  <2>2. CASE s = r /\ u = r
    <3>1. CASE i \in 1 .. L[r] /\ j \in 1 .. L[r]
      BY <2>2, <3>1 DEF Accounted, TOnce
    <3>2. CASE i \notin 1 .. L[r] /\ j \notin 1 .. L[r]
      BY <2>2, <3>2 DEF Accounted, FOnce
    <3>3. CASE i \in 1 .. L[r] /\ j \notin 1 .. L[r]
      BY <2>2, <3>3 DEF Accounted, FNotT
    <3>4. CASE i \notin 1 .. L[r] /\ j \in 1 .. L[r]
      BY <2>2, <3>4 DEF Accounted, FNotT
    <3> QED BY <3>1, <3>2, <3>3, <3>4
  <2>3. CASE s # r /\ u = r
    BY <2>3 DEF Accounted, TOnce, FNotT
  <2>4. CASE s = r /\ u # r
    BY <2>4 DEF Accounted, TOnce, FNotT
  <2> QED BY <2>1, <2>2, <2>3, <2>4
<1>3. FNotT(g, F - k, U, M)
  <2> SUFFICES ASSUME NEW s \in Id, NEW i \in 1 .. (F - k), NEW j \in 1 .. M[s]
               PROVE  g[i] # U[s][j]
    BY DEF FNotT
  <2>1. CASE s # r
    BY <2>1 DEF Accounted, FNotT
  <2>2. CASE s = r /\ j \in 1 .. L[r]
    BY <2>2 DEF Accounted, FNotT
  <2>3. CASE s = r /\ j \notin 1 .. L[r]
    BY <2>3 DEF Accounted, FOnce
  <2> QED BY <2>1, <2>2, <2>3
<1>4. Covered(g, F - k, U, M)
  <2> SUFFICES ASSUME NEW b \in Block
               PROVE  \/ \E i \in 1 .. (F - k) : g[i] = b
                      \/ \E s \in Id : \E j \in 1 .. M[s] : U[s][j] = b
    BY DEF Covered
  <2>1. CASE \E i \in 1 .. F : f[i] = b
    <3>1. PICK i \in 1 .. F : f[i] = b
      BY <2>1
    <3>2. CASE i \in 1 .. (F - k)
      BY <3>1, <3>2
    <3>3. CASE i \notin 1 .. (F - k)
      <4>1. /\ L[r] + (F + 1 - i) \in (L[r] + 1) .. (L[r] + k)
            /\ L[r] + (F + 1 - i) \in 1 .. M[r]
            /\ F + 1 - ((L[r] + (F + 1 - i)) - L[r]) = i
        BY <3>3
      <4>2. U[r][L[r] + (F + 1 - i)] = b
        BY <4>1, <3>1
      <4> QED BY <4>1, <4>2
    <3> QED BY <3>2, <3>3
  <2>2. CASE \E s \in Id : \E j \in 1 .. L[s] : T[s][j] = b
    <3>1. PICK s \in Id : \E j \in 1 .. L[s] : T[s][j] = b
      BY <2>2
    <3>2. PICK j \in 1 .. L[s] : T[s][j] = b
      BY <3>1
    <3>3. j \in 1 .. M[s] /\ U[s][j] = b
      BY <3>2
    <3> QED BY <3>3
  <2> QED BY <2>1, <2>2 DEF Accounted, Covered
<1> QED BY <1>1, <1>2, <1>3, <1>4 DEF Accounted

\* The blocks of r's table past keep return to the end of the list, in order.
LEMMA ReturnsKeepAccounting ==
    ASSUME NEW F \in Nat,
           NEW L \in [Id -> Nat], NEW M \in [Id -> Nat], NEW r \in Id,
           NEW keep \in 0 .. L[r],
           NEW f, NEW g, NEW T, NEW U,
           Accounted(f, F, T, L),
           \A i \in 1 .. F : g[i] = f[i],
           \A i \in (F + 1) .. (F + (L[r] - keep)) : g[i] = T[r][keep + (i - F)],
           \A s \in Id \ {r} : U[s] = T[s] /\ M[s] = L[s],
           M[r] = keep,
           \A i \in 1 .. keep : U[r][i] = T[r][i]
    PROVE  Accounted(g, F + (L[r] - keep), U, M)
<1> DEFINE k == L[r] - keep
\* Where a block in the new part of the list comes from.
<1>0. \A i \in 1 .. (F + k) : i \notin 1 .. F =>
          keep + (i - F) \in (keep + 1) .. L[r] /\ keep + (i - F) \in 1 .. L[r]
          /\ g[i] = T[r][keep + (i - F)]
  OBVIOUS
<1>1. FOnce(g, F + k)
  <2> SUFFICES ASSUME NEW i \in 1 .. (F + k), NEW j \in 1 .. (F + k), g[i] = g[j]
               PROVE  i = j
    BY DEF FOnce
  <2>1. CASE i \in 1 .. F /\ j \in 1 .. F
    BY <2>1 DEF Accounted, FOnce
  <2>2. CASE i \notin 1 .. F /\ j \notin 1 .. F
    <3>1. keep + (i - F) \in 1 .. L[r] /\ g[i] = T[r][keep + (i - F)]
      BY <2>2, <1>0
    <3>2. keep + (j - F) \in 1 .. L[r] /\ g[j] = T[r][keep + (j - F)]
      BY <2>2, <1>0
    <3>3. \A x, y \in 1 .. L[r] : T[r][x] = T[r][y] => x = y
      BY DEF Accounted, TOnce
    <3>4. keep + (i - F) = keep + (j - F)
      BY <3>1, <3>2, <3>3, ZenonT(30)
    <3> QED BY <3>4
  <2>3. CASE i \in 1 .. F /\ j \notin 1 .. F
    BY <2>3 DEF Accounted, FNotT
  <2>4. CASE i \notin 1 .. F /\ j \in 1 .. F
    BY <2>4 DEF Accounted, FNotT
  <2> QED BY <2>1, <2>2, <2>3, <2>4
\* What a table holds after the step it held before, at the same position.
<1>2. \A s \in Id : \A i \in 1 .. M[s] : i \in 1 .. L[s] /\ U[s][i] = T[s][i]
  OBVIOUS
<1>3. TOnce(U, M)
  BY <1>2 DEF Accounted, TOnce
<1>4. FNotT(g, F + k, U, M)
  <2> SUFFICES ASSUME NEW s \in Id, NEW i \in 1 .. (F + k), NEW j \in 1 .. M[s]
               PROVE  g[i] # U[s][j]
    BY DEF FNotT
  <2>1. CASE i \in 1 .. F
    BY <2>1, <1>2 DEF Accounted, FNotT
  <2>2. CASE i \notin 1 .. F
    <3>1. keep + (i - F) \in (keep + 1) .. L[r] /\ g[i] = T[r][keep + (i - F)]
      BY <2>2, <1>0
    <3>2. keep + (i - F) \in 1 .. L[r]
      BY <3>1
    <3>3. j \in 1 .. L[s] /\ U[s][j] = T[s][j]
      BY <1>2
    <3>4. s = r => j <= keep
      OBVIOUS
    <3> QED BY <3>1, <3>2, <3>3, <3>4 DEF Accounted, TOnce
  <2> QED BY <2>1, <2>2
<1>5. Covered(g, F + k, U, M)
  <2> SUFFICES ASSUME NEW b \in Block
               PROVE  \/ \E i \in 1 .. (F + k) : g[i] = b
                      \/ \E s \in Id : \E j \in 1 .. M[s] : U[s][j] = b
    BY DEF Covered
  <2>1. CASE \E i \in 1 .. F : f[i] = b
    BY <2>1
  <2>2. CASE \E s \in Id : \E j \in 1 .. L[s] : T[s][j] = b
    <3>1. PICK s \in Id : \E j \in 1 .. L[s] : T[s][j] = b
      BY <2>2
    <3>2. PICK j \in 1 .. L[s] : T[s][j] = b
      BY <3>1
    <3>3. CASE s = r /\ j > keep
      <4>1. /\ F + (j - keep) \in (F + 1) .. (F + k)
            /\ F + (j - keep) \in 1 .. (F + k)
            /\ keep + ((F + (j - keep)) - F) = j
        BY <3>3
      <4>2. g[F + (j - keep)] = b
        BY <4>1, <3>2, <3>3
      <4> QED BY <4>1, <4>2
    <3>4. CASE ~(s = r /\ j > keep)
      <4>1. j \in 1 .. M[s] /\ U[s][j] = b
        BY <3>2, <3>4
      <4> QED BY <4>1
    <3> QED BY <3>3, <3>4
  <2> QED BY <2>1, <2>2 DEF Accounted, Covered
<1> QED BY <1>1, <1>3, <1>4, <1>5 DEF Accounted

----------------------------------------------------------------------------
\* alloc keeps the pool well formed and exact.
LEMMA AllocKeepsInv ==
    ASSUME PoolInv, NEW r \in Id, NEW n \in Nat, Alloc(r, n)
    PROVE  PoolInv'
<1> DEFINE k == BlocksFor(n)
<1>1. /\ free \in Seq(Block) /\ blocks \in [Id -> Seq(Block)] /\ seq_len \in [Id -> Nat]
      /\ live \in SUBSET Id /\ k \in Nat /\ k <= Len(free) /\ r \notin live
  BY BlocksForCeiling DEF PoolInv, PoolTypeOK, Alloc, FitsAlloc, NumFree
<1>2. /\ Popped(k) \in Seq(Block) /\ Len(Popped(k)) = k
      /\ Left(k) \in Seq(Block) /\ Len(Left(k)) = Len(free) - k
      /\ \A i \in 1 .. k : Popped(k)[i] = free[Len(free) + 1 - i]
      /\ \A i \in 1 .. (Len(free) - k) : Left(k)[i] = free[i]
  BY <1>1, PoppedLeft
<1>3. /\ free' = Left(k) /\ live' = live \cup {r}
      /\ blocks' = [blocks EXCEPT ![r] = Popped(k)]
      /\ seq_len' = [seq_len EXCEPT ![r] = n]
  BY DEF Alloc
<1>4. PoolTypeOK'
  BY <1>1, <1>2, <1>3 DEF PoolTypeOK
<1>5. Len(blocks[r]) = 0
  BY <1>1, BlocksForZero DEF PoolInv, TablesSized
<1>6. TablesSized'
  <2> SUFFICES ASSUME NEW s \in Id
               PROVE  Len(blocks'[s]) = BlocksFor(seq_len'[s]) /\ (s \notin live' => seq_len'[s] = 0)
    BY DEF TablesSized
  <2>1. CASE s = r
    BY <2>1, <1>1, <1>2, <1>3
  <2>2. CASE s # r
    <3>1. blocks'[s] = blocks[s] /\ seq_len'[s] = seq_len[s] /\ (s \notin live' => s \notin live)
      BY <2>2, <1>1, <1>3
    <3> QED BY <3>1 DEF PoolInv, TablesSized
  <2> QED BY <2>1, <2>2
<1>7. EveryBlockOnce'
  <2> DEFINE L == Lengths
             M == Lengths'
             F == Len(free)
  <2>1. /\ L \in [Id -> Nat] /\ M \in [Id -> Nat] /\ F \in Nat
        /\ \A s \in Id : L[s] = Len(blocks[s]) /\ M[s] = Len(blocks'[s])
    BY <1>1, <1>4 DEF Lengths, PoolTypeOK
  <2>2. Accounted(free, F, blocks, L)
    BY AccountedIsEveryBlockOnce DEF PoolInv
  <2>3. \A s \in Id \ {r} : blocks'[s] = blocks[s]
    BY <1>1, <1>3
  <2>4. \A s \in Id \ {r} : M[s] = L[s]
    BY <2>1, <2>3
  <2>5. blocks'[r] = Popped(k) /\ L[r] = 0 /\ M[r] = k
    BY <2>1, <1>1, <1>2, <1>3, <1>5
  <2>6. \A j \in (L[r] + 1) .. (L[r] + k) : blocks'[r][j] = free[F + 1 - (j - L[r])]
    BY <2>5, <1>1, <1>2
  <2>7. \A i \in 1 .. (F - k) : free'[i] = free[i]
    BY <1>2, <1>3
  <2>8. M[r] = L[r] + k /\ k \in 0 .. F /\ \A i \in 1 .. L[r] : blocks'[r][i] = blocks[r][i]
    BY <2>5, <1>1
  <2> HIDE DEF L, M, F, k
  <2>9. Accounted(free', F - k, blocks', M)
    BY <2>1, <2>2, <2>3, <2>4, <2>6, <2>7, <2>8, PopsKeepAccounting, ZenonT(30)
  <2>10. Len(free') = F - k
    BY <1>2, <1>3 DEF F
  <2>11. Accounted(free, Len(free), blocks, Lengths)'
    BY <2>9, <2>10 DEF M
  <2> QED BY <2>11, AccountedIsEveryBlockOnce, PTL
<1> QED BY <1>4, <1>6, <1>7 DEF PoolInv

\* append keeps the pool well formed and exact.
LEMMA AppendKeepsInv ==
    ASSUME PoolInv, NEW r \in Id, NEW n \in Nat, AppendTokens(r, n)
    PROVE  PoolInv'
<1> DEFINE k == Need(r, n)
           m == Len(blocks[r])
<1>1. /\ free \in Seq(Block) /\ blocks \in [Id -> Seq(Block)] /\ seq_len \in [Id -> Nat]
      /\ live \in SUBSET Id /\ r \in live
  BY DEF PoolInv, PoolTypeOK, AppendTokens
<1>2. /\ k \in Nat /\ k <= Len(free) /\ m \in Nat
      /\ m + k = BlocksFor(seq_len[r] + n)
  <2>1. m = BlocksFor(seq_len[r]) /\ seq_len[r] \in Nat /\ seq_len[r] + n \in Nat
    BY <1>1 DEF PoolInv, TablesSized
  <2>2. /\ BlocksFor(seq_len[r]) \in Nat /\ BlocksFor(seq_len[r] + n) \in Nat
        /\ BlocksFor(seq_len[r]) <= BlocksFor(seq_len[r] + n)
    <3>1. seq_len[r] <= seq_len[r] + n
      BY <2>1
    <3> DEFINE a == seq_len[r]
               b == seq_len[r] + n
    <3>2. a \in Nat /\ b \in Nat /\ a <= b
      BY <2>1, <3>1
    <3> HIDE DEF a, b
    <3>3. BlocksFor(a) \in Nat /\ BlocksFor(b) \in Nat /\ BlocksFor(a) <= BlocksFor(b)
      BY <3>2, BlocksForCeiling, BlocksForMonotone
    <3> QED BY <3>3 DEF a, b
  <2> QED BY <2>1, <2>2 DEF AppendTokens, FitsAppend, NumFree, Need
<1>3. /\ Popped(k) \in Seq(Block) /\ Len(Popped(k)) = k
      /\ Left(k) \in Seq(Block) /\ Len(Left(k)) = Len(free) - k
      /\ \A i \in 1 .. k : Popped(k)[i] = free[Len(free) + 1 - i]
      /\ \A i \in 1 .. (Len(free) - k) : Left(k)[i] = free[i]
  BY <1>1, <1>2, PoppedLeft
<1>4. /\ free' = Left(k) /\ live' = live
      /\ blocks' = [blocks EXCEPT ![r] = blocks[r] \o Popped(k)]
      /\ seq_len' = [seq_len EXCEPT ![r] = seq_len[r] + n]
  BY DEF AppendTokens
<1> HIDE DEF k
<1>5. /\ blocks[r] \in Seq(Block)
      /\ blocks[r] \o Popped(k) \in Seq(Block)
      /\ Len(blocks[r] \o Popped(k)) = m + k
      /\ \A i \in 1 .. m : (blocks[r] \o Popped(k))[i] = blocks[r][i]
      /\ \A i \in (m + 1) .. (m + k) : (blocks[r] \o Popped(k))[i] = Popped(k)[i - m]
  <2>1. blocks[r] \in Seq(Block)
    BY <1>1
  <2>2. /\ blocks[r] \o Popped(k) \in Seq(Block)
        /\ Len(blocks[r] \o Popped(k)) = m + Len(Popped(k))
        /\ \A i \in 1 .. m : (blocks[r] \o Popped(k))[i] = blocks[r][i]
        /\ \A i \in (m + 1) .. (m + Len(Popped(k))) : (blocks[r] \o Popped(k))[i] = Popped(k)[i - m]
    <3> DEFINE b == blocks[r]
               t == Popped(k)
    <3>1. b \in Seq(Block) /\ t \in Seq(Block)
      BY <1>3, <2>1
    <3> HIDE DEF b, t
    <3>2. /\ b \o t \in Seq(Block) /\ Len(b \o t) = Len(b) + Len(t)
          /\ \A i \in 1 .. Len(b) : (b \o t)[i] = b[i]
          /\ \A i \in (Len(b) + 1) .. (Len(b) + Len(t)) : (b \o t)[i] = t[i - Len(b)]
      BY <3>1, ConcatElements
    <3> QED BY <3>2 DEF b, t
  <2> QED BY <1>3, <2>1, <2>2
<1>6. blocks'[r] = blocks[r] \o Popped(k) /\ \A s \in Id \ {r} : blocks'[s] = blocks[s]
  BY <1>1, <1>4
<1>7. PoolTypeOK'
  BY <1>1, <1>3, <1>4, <1>5 DEF PoolTypeOK
<1>8. TablesSized'
  <2> SUFFICES ASSUME NEW s \in Id
               PROVE  Len(blocks'[s]) = BlocksFor(seq_len'[s]) /\ (s \notin live' => seq_len'[s] = 0)
    BY DEF TablesSized
  <2>1. CASE s = r
    <3>1. seq_len'[r] = seq_len[r] + n
      BY <1>1, <1>4
    <3> QED BY <2>1, <3>1, <1>1, <1>2, <1>4, <1>5, <1>6
  <2>2. CASE s # r
    <3>1. blocks'[s] = blocks[s] /\ seq_len'[s] = seq_len[s] /\ (s \notin live' => s \notin live)
      BY <2>2, <1>1, <1>4
    <3> QED BY <3>1 DEF PoolInv, TablesSized
  <2> QED BY <2>1, <2>2
<1>9. EveryBlockOnce'
  <2> DEFINE L == Lengths
             M == Lengths'
             F == Len(free)
  <2>1. /\ L \in [Id -> Nat] /\ M \in [Id -> Nat] /\ F \in Nat
        /\ \A s \in Id : L[s] = Len(blocks[s]) /\ M[s] = Len(blocks'[s])
    BY <1>1, <1>7 DEF Lengths, PoolTypeOK
  <2>2. Accounted(free, F, blocks, L)
    BY AccountedIsEveryBlockOnce DEF PoolInv
  <2>3. \A s \in Id \ {r} : M[s] = L[s]
    BY <2>1, <1>6
  <2>4. L[r] = m /\ M[r] = m + k /\ k \in 0 .. F
    <3>1. L[r] = m /\ k \in 0 .. F
      BY <2>1, <1>2
    <3>2. Len(blocks'[r]) = m + k
      BY <1>5, <1>6
    <3> QED BY <2>1, <3>1, <3>2
  <2>5. \A j \in (L[r] + 1) .. (L[r] + k) : blocks'[r][j] = free[F + 1 - (j - L[r])]
    <3> SUFFICES ASSUME NEW j \in (m + 1) .. (m + k)
                 PROVE  blocks'[r][j] = free[F + 1 - (j - m)]
      BY <2>4
    <3>1. j - m \in 1 .. k
      BY <1>2
    <3>2. blocks'[r][j] = Popped(k)[j - m]
      BY <1>5, <1>6
    <3> QED BY <3>1, <3>2, <1>3
  <2>6. \A i \in 1 .. (F - k) : free'[i] = free[i]
    BY <1>3, <1>4
  <2>7. M[r] = L[r] + k /\ \A i \in 1 .. L[r] : blocks'[r][i] = blocks[r][i]
    BY <2>4, <1>5, <1>6
  <2> HIDE DEF L, M, F
  <2>8. Accounted(free', F - k, blocks', M)
    BY <2>1, <2>2, <2>3, <2>4, <2>5, <2>6, <2>7, <1>6, PopsKeepAccounting, ZenonT(30)
  <2>9. Len(free') = F - k
    BY <1>3, <1>4 DEF F
  <2>10. Accounted(free, Len(free), blocks, Lengths)'
    BY <2>8, <2>9 DEF M
  <2> QED BY <2>10, AccountedIsEveryBlockOnce, PTL
<1> QED BY <1>7, <1>8, <1>9 DEF PoolInv

\* What giving back the blocks of r past the first keep does, however many that is.
GaveBack(r, keep) ==
    /\ free' = free \o SubSeq(blocks[r], keep + 1, Len(blocks[r]))
    /\ blocks' = [blocks EXCEPT ![r] = SubSeq(blocks[r], 1, keep)]

LEMMA GiveBackKeepsAccounting ==
    ASSUME PoolInv, NEW r \in Id, NEW keep \in 0 .. Len(blocks[r]), GaveBack(r, keep)
    PROVE  /\ free' \in Seq(Block) /\ blocks' \in [Id -> Seq(Block)]
           /\ Len(blocks'[r]) = keep
           /\ \A s \in Id \ {r} : blocks'[s] = blocks[s]
           /\ EveryBlockOnce'
<1> DEFINE m == Len(blocks[r])
           tail == SubSeq(blocks[r], keep + 1, m)
           head == SubSeq(blocks[r], 1, keep)
<1>1. /\ free \in Seq(Block) /\ blocks \in [Id -> Seq(Block)] /\ blocks[r] \in Seq(Block)
      /\ m \in Nat /\ keep \in Nat
  BY DEF PoolInv, PoolTypeOK
<1>2. /\ tail \in Seq(Block) /\ Len(tail) = m - keep
      /\ \A i \in 1 .. (m - keep) : tail[i] = blocks[r][keep + i]
  BY <1>1
<1>3. /\ head \in Seq(Block) /\ Len(head) = keep
      /\ \A i \in 1 .. keep : head[i] = blocks[r][i]
  BY <1>1
<1> HIDE DEF tail, head
<1>4. /\ free \o tail \in Seq(Block) /\ Len(free \o tail) = Len(free) + (m - keep)
      /\ \A i \in 1 .. Len(free) : (free \o tail)[i] = free[i]
      /\ \A i \in (Len(free) + 1) .. (Len(free) + (m - keep)) : (free \o tail)[i] = tail[i - Len(free)]
  <2>1. /\ free \o tail \in Seq(Block) /\ Len(free \o tail) = Len(free) + Len(tail)
        /\ \A i \in 1 .. Len(free) : (free \o tail)[i] = free[i]
        /\ \A i \in (Len(free) + 1) .. (Len(free) + Len(tail)) : (free \o tail)[i] = tail[i - Len(free)]
    BY <1>1, <1>2, ConcatElements
  <2> QED BY <1>2, <2>1
<1>5. free' = free \o tail /\ blocks' = [blocks EXCEPT ![r] = head]
  BY DEF tail, head, GaveBack
<1>6. /\ blocks' \in [Id -> Seq(Block)] /\ blocks'[r] = head
      /\ \A s \in Id \ {r} : blocks'[s] = blocks[s]
  BY <1>1, <1>3, <1>5
<1>7. EveryBlockOnce'
  <2> DEFINE L == Lengths
             M == Lengths'
             F == Len(free)
  <2>1. /\ L \in [Id -> Nat] /\ M \in [Id -> Nat] /\ F \in Nat
        /\ \A s \in Id : L[s] = Len(blocks[s]) /\ M[s] = Len(blocks'[s])
    BY <1>1, <1>6 DEF Lengths
  <2>2. Accounted(free, F, blocks, L)
    BY AccountedIsEveryBlockOnce DEF PoolInv
  <2>3. \A s \in Id \ {r} : M[s] = L[s]
    BY <2>1, <1>6
  <2>4. L[r] = m /\ M[r] = keep /\ keep \in 0 .. L[r]
    BY <2>1, <1>1, <1>3, <1>6
  <2>5. \A i \in (F + 1) .. (F + (L[r] - keep)) : free'[i] = blocks[r][keep + (i - F)]
    <3> SUFFICES ASSUME NEW i \in (F + 1) .. (F + (m - keep))
                 PROVE  free'[i] = blocks[r][keep + (i - F)]
      BY <2>4
    <3>1. i - F \in 1 .. (m - keep)
      BY <2>1, <1>1
    <3>2. free'[i] = tail[i - F]
      BY <1>4, <1>5
    <3> QED BY <3>1, <3>2, <1>2
  <2>6. \A i \in 1 .. F : free'[i] = free[i]
    BY <1>4, <1>5
  <2>7. \A i \in 1 .. keep : blocks'[r][i] = blocks[r][i]
    BY <1>3, <1>6
  <2> HIDE DEF L, M, F
  <2>8. Accounted(free', F + (L[r] - keep), blocks', M)
    <3>1. \A s \in Id \ {r} : blocks'[s] = blocks[s] /\ M[s] = L[s]
      BY <2>3, <1>6
    <3>2. L \in [Id -> Nat] /\ M \in [Id -> Nat] /\ F \in Nat /\ M[r] = keep /\ keep \in 0 .. L[r]
      BY <2>1, <2>4
    <3> QED BY <2>2, <2>5, <2>6, <2>7, <3>1, <3>2, ReturnsKeepAccounting
  <2>9. Len(free') = F + (L[r] - keep)
    BY <1>4, <1>5, <2>4 DEF F
  <2>10. Accounted(free, Len(free), blocks, Lengths)'
    BY <2>8, <2>9 DEF M
  <2> QED BY <2>10, AccountedIsEveryBlockOnce, PTL
<1> QED BY <1>3, <1>4, <1>5, <1>6, <1>7

\* rollback keeps the pool well formed and exact.
LEMMA RollbackKeepsInv ==
    ASSUME PoolInv, NEW r \in Id, NEW n \in Nat, Rollback(r, n)
    PROVE  PoolInv'
<1> DEFINE keep == BlocksFor(n)
<1>1. /\ seq_len \in [Id -> Nat] /\ live \in SUBSET Id /\ r \in live /\ n <= seq_len[r]
      /\ seq_len[r] \in Nat
  BY DEF PoolInv, PoolTypeOK, Rollback
<1>2. keep \in 0 .. Len(blocks[r])
  BY <1>1, BlocksForCeiling, BlocksForMonotone, SMTT(30) DEF PoolInv, TablesSized
<1>3. /\ free' = free \o SubSeq(blocks[r], keep + 1, Len(blocks[r]))
      /\ blocks' = [blocks EXCEPT ![r] = SubSeq(blocks[r], 1, keep)]
      /\ seq_len' = [seq_len EXCEPT ![r] = n] /\ live' = live
  BY DEF Rollback
<1> HIDE DEF keep
<1>4. /\ free' \in Seq(Block) /\ blocks' \in [Id -> Seq(Block)]
      /\ Len(blocks'[r]) = keep
      /\ \A s \in Id \ {r} : blocks'[s] = blocks[s]
      /\ EveryBlockOnce'
  BY <1>2, <1>3, GiveBackKeepsAccounting DEF GaveBack
<1>5. PoolTypeOK'
  BY <1>1, <1>3, <1>4 DEF PoolTypeOK
<1>6. TablesSized'
  <2> SUFFICES ASSUME NEW s \in Id
               PROVE  Len(blocks'[s]) = BlocksFor(seq_len'[s]) /\ (s \notin live' => seq_len'[s] = 0)
    BY DEF TablesSized
  <2>1. CASE s = r
    BY <2>1, <1>1, <1>3, <1>4 DEF keep
  <2>2. CASE s # r
    <3>1. blocks'[s] = blocks[s] /\ seq_len'[s] = seq_len[s] /\ live' = live
      BY <2>2, <1>1, <1>3, <1>4
    <3> QED BY <3>1 DEF PoolInv, TablesSized
  <2> QED BY <2>1, <2>2
<1> QED BY <1>4, <1>5, <1>6 DEF PoolInv

\* free keeps the pool well formed and exact.
LEMMA FreeKeepsInv ==
    ASSUME PoolInv, NEW r \in Id, FreeTable(r)
    PROVE  PoolInv'
<1>1. /\ seq_len \in [Id -> Nat] /\ live \in SUBSET Id /\ r \in live
      /\ blocks \in [Id -> Seq(Block)] /\ blocks[r] \in Seq(Block)
  BY DEF PoolInv, PoolTypeOK, FreeTable
<1>2. /\ SubSeq(blocks[r], 0 + 1, Len(blocks[r])) = blocks[r]
      /\ SubSeq(blocks[r], 1, 0) = << >>
  BY <1>1
<1>3. /\ free' = free \o SubSeq(blocks[r], 0 + 1, Len(blocks[r]))
      /\ blocks' = [blocks EXCEPT ![r] = SubSeq(blocks[r], 1, 0)]
      /\ seq_len' = [seq_len EXCEPT ![r] = 0] /\ live' = live \ {r}
  BY <1>2 DEF FreeTable
<1>4. 0 \in 0 .. Len(blocks[r])
  BY <1>1
<1>5. /\ free' \in Seq(Block) /\ blocks' \in [Id -> Seq(Block)]
      /\ Len(blocks'[r]) = 0
      /\ \A s \in Id \ {r} : blocks'[s] = blocks[s]
      /\ EveryBlockOnce'
  BY <1>3, <1>4, GiveBackKeepsAccounting DEF GaveBack
<1>6. PoolTypeOK'
  BY <1>1, <1>3, <1>5 DEF PoolTypeOK
<1>7. TablesSized'
  <2> SUFFICES ASSUME NEW s \in Id
               PROVE  Len(blocks'[s]) = BlocksFor(seq_len'[s]) /\ (s \notin live' => seq_len'[s] = 0)
    BY DEF TablesSized
  <2>1. CASE s = r
    BY <2>1, <1>1, <1>3, <1>5, BlocksForZero
  <2>2. CASE s # r
    <3>1. blocks'[s] = blocks[s] /\ seq_len'[s] = seq_len[s] /\ (s \notin live' => s \notin live)
      BY <2>2, <1>1, <1>3, <1>5
    <3> QED BY <3>1 DEF PoolInv, TablesSized
  <2> QED BY <2>1, <2>2
<1> QED BY <1>5, <1>6, <1>7 DEF PoolInv

\* The pool starts well formed and exact: every block free.
LEMMA PoolInitInv == PoolInit => PoolInv
<1> SUFFICES ASSUME PoolInit PROVE PoolInv
  OBVIOUS
<1>1. /\ free \in Seq(Block) /\ Len(free) = NumBlocks
      /\ \A i \in 1 .. NumBlocks : free[i] = NumBlocks - i
  BY PoolAssumption DEF PoolInit, FullFreeList, Block
<1>2. \A r \in Id : blocks[r] = << >> /\ Len(blocks[r]) = 0 /\ seq_len[r] = 0
  BY DEF PoolInit
<1>3. PoolTypeOK
  BY <1>1 DEF PoolInit, PoolTypeOK
<1>4. TablesSized
  BY <1>2, BlocksForZero DEF TablesSized
<1>5. FreeOnce
  BY <1>1, PoolAssumption DEF FreeOnce
<1>6. OwnedOnce /\ FreeNotOwned
  BY <1>2 DEF OwnedOnce, FreeNotOwned
<1>7. NoneLost
  <2> SUFFICES ASSUME NEW b \in Block PROVE \E i \in 1 .. Len(free) : free[i] = b
    BY DEF NoneLost
  <2>1. NumBlocks - b \in 1 .. NumBlocks /\ NumBlocks - (NumBlocks - b) = b
    BY PoolAssumption DEF Block
  <2> QED BY <2>1, <1>1
<1> QED BY <1>3, <1>4, <1>5, <1>6, <1>7 DEF PoolInv, EveryBlockOnce

\* A step that does not touch the pool keeps its invariant.
LEMMA PoolUnchanged ==
    ASSUME PoolInv, UNCHANGED pool
    PROVE  PoolInv'
<1>1. free' = free /\ live' = live /\ blocks' = blocks /\ seq_len' = seq_len
  BY DEF pool
<1>2. PoolTypeOK'
  BY <1>1 DEF PoolInv, PoolTypeOK
<1>3. FreeOnce' /\ OwnedOnce'
  BY <1>1 DEF PoolInv, EveryBlockOnce, FreeOnce, OwnedOnce
<1>4. FreeNotOwned' /\ NoneLost'
  BY <1>1 DEF PoolInv, EveryBlockOnce, FreeNotOwned, NoneLost
<1>5. TablesSized'
  BY <1>1 DEF PoolInv, TablesSized
<1> QED BY <1>2, <1>3, <1>4, <1>5 DEF PoolInv, EveryBlockOnce

----------------------------------------------------------------------------
(***************************************************************************)
(* The allocator under its clients.                                        *)
(***************************************************************************)
\* One call of the allocator, made on behalf of r.
Call(r) == AllocReq(r) \/ AppendReq(r) \/ RollbackReq(r) \/ FreeReq(r)

LEMMA CallKeepsInv ==
    ASSUME PoolInv, NEW r \in Id, Call(r)
    PROVE  PoolInv'
<1>1. CASE AllocReq(r)
  BY <1>1, ClientAssumption, AllocKeepsInv DEF AllocReq
<1>2. CASE AppendReq(r)
  BY <1>2, ClientAssumption, AppendKeepsInv DEF AppendReq
<1>3. CASE RollbackReq(r)
  BY <1>3, ClientAssumption, RollbackKeepsInv DEF RollbackReq
<1>4. CASE FreeReq(r)
  BY <1>4, FreeKeepsInv DEF FreeReq
<1> QED BY <1>1, <1>2, <1>3, <1>4 DEF Call

\* The pool's invariant holds in every reachable state.
LEMMA PoolInvariant == ClientsSpec => []PoolInv
<1>1. PoolInit => PoolInv
  BY PoolInitInv
<1>2. PoolInv /\ [ClientsNext]_pool => PoolInv'
  <2> SUFFICES ASSUME PoolInv, [ClientsNext]_pool PROVE PoolInv'
    OBVIOUS
  <2>1. CASE ClientsNext
    BY <2>1, CallKeepsInv DEF ClientsNext, Call
  <2>2. CASE UNCHANGED pool
    BY <2>2, PoolUnchanged
  <2> QED BY <2>1, <2>2
<1> QED BY <1>1, <1>2, PTL DEF ClientsSpec

\* The variables keep their types: every list the pool holds is a list of its blocks.
THEOREM TypeCorrect == ClientsSpec => []PoolTypeOK
  BY PoolInvariant, PTL DEF PoolInv

\* "Every block accounted for exactly once" (allocator.py:79-85): in every state of every
\* client, no block is lost and none is in two places.
THEOREM AccountingExact == ClientsSpec => []PoolAccounted
  BY PoolInvariant, PTL DEF PoolInv, PoolAccounted

\* The assert of check(): a table holds exactly the blocks its seq_len needs.
THEOREM TablesExact == ClientsSpec => []TablesFit
  BY PoolInvariant, PTL DEF PoolInv, TablesFit

----------------------------------------------------------------------------
\* A call for r changes nobody else's table, and r's only at its tail.
TailOnly(r) ==
    /\ \A s \in Id \ {r} : blocks'[s] = blocks[s]
    /\ \A i \in (1 .. Len(blocks[r])) \cap (1 .. Len(blocks'[r])) : blocks'[r][i] = blocks[r][i]

LEMMA CallIsTailOnly ==
    ASSUME PoolInv, NEW r \in Id, Call(r)
    PROVE  TailOnly(r)
<1>1. blocks \in [Id -> Seq(Block)] /\ blocks[r] \in Seq(Block) /\ free \in Seq(Block)
  BY DEF PoolInv, PoolTypeOK
<1>2. CASE AllocReq(r)
  <2>1. Len(blocks[r]) = 0
    BY <1>2, BlocksForZero DEF PoolInv, TablesSized, AllocReq, Alloc
  <2>2. \A s \in Id \ {r} : blocks'[s] = blocks[s]
    BY <1>1, <1>2 DEF AllocReq, Alloc
  <2> QED BY <2>1, <2>2 DEF TailOnly
<1>3. CASE AppendReq(r)
  <2>1. PICK n \in 0 .. MaxSeqLen : AppendTokens(r, n)
    BY <1>3 DEF AppendReq
  <2> DEFINE k == Need(r, n)
             b == blocks[r]
             t == Popped(k)
  <2>2. blocks' = [blocks EXCEPT ![r] = b \o t]
    BY <2>1 DEF AppendTokens
  <2>3. k \in Nat /\ k <= Len(free)
    <3>1. n \in Nat /\ seq_len[r] \in Nat
      BY ClientAssumption DEF PoolInv, PoolTypeOK
    <3> DEFINE x == seq_len[r]
               y == seq_len[r] + n
    <3>2. x \in Nat /\ y \in Nat /\ x <= y
      BY <3>1
    <3>3. Len(blocks[r]) = BlocksFor(x) /\ k = BlocksFor(y) - Len(blocks[r])
      BY DEF PoolInv, TablesSized, Need
    <3> HIDE DEF x, y, k
    <3>4. BlocksFor(x) \in Nat /\ BlocksFor(y) \in Nat /\ BlocksFor(x) <= BlocksFor(y)
      BY <3>2, BlocksForCeiling, BlocksForMonotone
    <3>5. k <= Len(free)
      BY <2>1 DEF AppendTokens, FitsAppend, NumFree, k
    <3> QED BY <3>3, <3>4, <3>5
  <2>4. b \in Seq(Block) /\ t \in Seq(Block)
    BY <1>1, <2>3, PoppedLeft
  <2> HIDE DEF b, t
  <2>5. \A i \in 1 .. Len(b) : (b \o t)[i] = b[i]
    BY <2>4, ConcatElements
  <2>6. blocks'[r] = b \o t /\ \A s \in Id \ {r} : blocks'[s] = blocks[s]
    BY <1>1, <2>2
  <2> QED BY <2>5, <2>6 DEF TailOnly, b
<1>4. CASE RollbackReq(r)
  <2>1. PICK n \in 0 .. MaxSeqLen : Rollback(r, n)
    BY <1>4 DEF RollbackReq
  <2> DEFINE keep == BlocksFor(n)
             b == blocks[r]
  <2>2. keep \in Nat /\ keep <= Len(b)
    <3>1. n \in Nat /\ seq_len[r] \in Nat /\ n <= seq_len[r] /\ Len(b) = BlocksFor(seq_len[r])
      BY <2>1, ClientAssumption DEF PoolInv, PoolTypeOK, TablesSized, Rollback
    <3> QED BY <3>1, BlocksForCeiling, BlocksForMonotone
  <2>3. blocks' = [blocks EXCEPT ![r] = SubSeq(b, 1, keep)]
    BY <2>1 DEF Rollback
  <2>4. b \in Seq(Block)
    BY <1>1
  <2> HIDE DEF b, keep
  <2>5. Len(SubSeq(b, 1, keep)) = keep /\ \A i \in 1 .. keep : SubSeq(b, 1, keep)[i] = b[i]
    BY <2>2, <2>4
  <2>6. blocks'[r] = SubSeq(b, 1, keep) /\ \A s \in Id \ {r} : blocks'[s] = blocks[s]
    BY <1>1, <2>3
  <2> QED BY <2>5, <2>6 DEF TailOnly, b
<1>5. CASE FreeReq(r)
  <2>1. Len(blocks'[r]) = 0 /\ \A s \in Id \ {r} : blocks'[s] = blocks[s]
    BY <1>1, <1>5 DEF FreeReq, FreeTable
  <2> QED BY <2>1 DEF TailOnly
<1> QED BY <1>2, <1>3, <1>4, <1>5 DEF Call

\* While a position stays reserved its physical slot never changes (cache.py:136).
THEOREM SlotsNeverMove == ClientsSpec => SlotsStable
<1>1. PoolInv /\ [ClientsNext]_pool =>
          [\A r \in live \cap live' :
               \A i \in (1 .. Len(blocks[r])) \cap (1 .. Len(blocks'[r])) :
                   blocks'[r][i] = blocks[r][i]]_pool
  <2> SUFFICES ASSUME PoolInv, ClientsNext, NEW s \in live \cap live',
                      NEW i \in (1 .. Len(blocks[s])) \cap (1 .. Len(blocks'[s]))
               PROVE  blocks'[s][i] = blocks[s][i]
    OBVIOUS
  <2>1. PICK r \in Id : Call(r)
    BY DEF ClientsNext, Call
  <2>2. TailOnly(r) /\ s \in Id
    BY <2>1, CallIsTailOnly DEF PoolInv, PoolTypeOK
  <2>3. CASE s = r
    BY <2>2, <2>3 DEF TailOnly
  <2>4. CASE s # r
    BY <2>2, <2>4 DEF TailOnly
  <2> QED BY <2>3, <2>4
<1> QED BY <1>1, PoolInvariant, PTL DEF ClientsSpec, SlotsStable

\* The allocator implements BlockOwnership: hiding the free list, its calls only grow or
\* shrink one holder's list at the tail, from blocks nobody holds.
THEOREM ImplementsOwnership == ClientsSpec => OwnershipSpec
<1>1. PoolInit => Ownership!Init
  BY DEF PoolInit, Ownership!Init
<1>2. PoolInv /\ PoolInv' /\ [ClientsNext]_pool => [Ownership!Next]_blocks
  <2> SUFFICES ASSUME PoolInv, PoolInv', ClientsNext
               PROVE  Ownership!Next
    BY DEF pool
  <2>1. PICK r \in Id : Call(r)
    BY DEF ClientsNext, Call
  <2>2. TailOnly(r)
    BY <2>1, CallIsTailOnly
  <2>3. /\ blocks \in [Id -> Seq(Block)] /\ blocks' \in [Id -> Seq(Block)]
        /\ Len(blocks[r]) \in Nat /\ Len(blocks'[r]) \in Nat
    BY DEF PoolInv, PoolTypeOK
  <2>4. Ownership!Disjoint(blocks')
    BY DEF PoolInv, EveryBlockOnce, OwnedOnce, Ownership!Disjoint
  <2>5. \/ Ownership!Extends(blocks'[r], blocks[r])
        \/ Ownership!Extends(blocks[r], blocks'[r])
    BY <2>2, <2>3 DEF TailOnly, Ownership!Extends
  <2>6. Ownership!Change(r)
    BY <2>2, <2>3, <2>4, <2>5 DEF TailOnly, Ownership!Change
  <2> QED BY <2>6 DEF Ownership!Next
<1> QED BY <1>1, <1>2, PoolInvariant, PTL DEF ClientsSpec, OwnershipSpec, Ownership!Spec

----------------------------------------------------------------------------
(***************************************************************************)
(* Queues.                                                                 *)
(***************************************************************************)

\* Membership in the set of elements, by position.
LEMMA InToSet ==
    ASSUME NEW S, NEW s \in Seq(S)
    PROVE  /\ ToSet(s) \subseteq S
           /\ \A x : x \in ToSet(s) <=> \E i \in 1 .. Len(s) : s[i] = x
           /\ IsInjective(s) <=> \A i, j \in 1 .. Len(s) : s[i] = s[j] => i = j
           /\ s = << >> <=> ToSet(s) = {}
           /\ s = << >> <=> Len(s) = 0
<1>1. DOMAIN s = 1 .. Len(s) /\ Len(s) \in Nat /\ \A i \in 1 .. Len(s) : s[i] \in S
  OBVIOUS
<1>2. \A x : x \in ToSet(s) <=> \E i \in 1 .. Len(s) : s[i] = x
  BY <1>1 DEF ToSet
<1>3. ToSet(s) \subseteq S
  BY <1>1, <1>2
<1>4. IsInjective(s) <=> \A i, j \in 1 .. Len(s) : s[i] = s[j] => i = j
  BY <1>1 DEF IsInjective
<1>5. s = << >> <=> Len(s) = 0
  OBVIOUS
<1>6. Len(s) = 0 <=> ToSet(s) = {}
  <2>1. Len(s) = 0 => \A x : x \notin ToSet(s)
    BY <1>1, <1>2
  <2>2. Len(s) # 0 => s[1] \in ToSet(s)
    <3>1. Len(s) # 0 => 1 \in 1 .. Len(s)
      BY <1>1
    <3> QED BY <1>2, <3>1
  <2> QED BY <2>1, <2>2
<1> QED BY <1>2, <1>3, <1>4, <1>5, <1>6

\* The elements of a concatenation, by position.
LEMMA ConcatPositions ==
    ASSUME NEW S, NEW s \in Seq(S), NEW t \in Seq(S)
    PROVE  /\ s \o t \in Seq(S) /\ Len(s \o t) = Len(s) + Len(t)
           /\ \A i \in 1 .. Len(s) : (s \o t)[i] = s[i]
           /\ \A i \in (Len(s) + 1) .. (Len(s) + Len(t)) : (s \o t)[i] = t[i - Len(s)]
  OBVIOUS

\* The empty queue.
LEMMA EmptyQueue == ToSet(<< >>) = {} /\ IsInjective(<< >>)
  BY DEF ToSet, IsInjective

\* Append at the tail.
LEMMA AppendQueue ==
    ASSUME NEW S, NEW s \in Seq(S), NEW x \in S
    PROVE  /\ Append(s, x) \in Seq(S) /\ Len(Append(s, x)) = Len(s) + 1
           /\ ToSet(Append(s, x)) = ToSet(s) \cup {x}
           /\ IsInjective(s) /\ x \notin ToSet(s) => IsInjective(Append(s, x))
<1> DEFINE t == Append(s, x)
<1>1. t \in Seq(S) /\ Len(t) = Len(s) + 1 /\ t[Len(s) + 1] = x
      /\ \A i \in 1 .. Len(s) : t[i] = s[i]
  OBVIOUS
<1>2. Len(s) \in Nat
  OBVIOUS
<1> HIDE DEF t
<1>3. \A y : y \in ToSet(t) <=> y \in ToSet(s) \cup {x}
  BY <1>1, <1>2, InToSet
<1>4. IsInjective(s) /\ x \notin ToSet(s) => IsInjective(t)
  <2>1. SUFFICES ASSUME IsInjective(s), x \notin ToSet(s),
                        NEW i \in 1 .. Len(t), NEW j \in 1 .. Len(t), t[i] = t[j]
                 PROVE  i = j
    BY <1>1, InToSet
  <2>2. \A k \in 1 .. Len(s) : s[k] # x
    BY <2>1, InToSet
  <2>3. \A k, l \in 1 .. Len(s) : s[k] = s[l] => k = l
    BY <2>1, InToSet
  <2> QED BY <1>1, <1>2, <2>1, <2>2, <2>3
<1>5. ToSet(t) = ToSet(s) \cup {x}
  BY <1>3
<1> QED BY <1>1, <1>4, <1>5 DEF t

\* Removal of the head.
LEMMA TailQueue ==
    ASSUME NEW S, NEW s \in Seq(S), s # << >>
    PROVE  /\ Head(s) \in S /\ Head(s) \in ToSet(s) /\ Tail(s) \in Seq(S)
           /\ Len(Tail(s)) = Len(s) - 1 /\ ToSet(Tail(s)) \subseteq ToSet(s)
           /\ IsInjective(s) => /\ IsInjective(Tail(s))
                                /\ ToSet(Tail(s)) = ToSet(s) \ {Head(s)}
<1> DEFINE t == Tail(s)
           h == Head(s)
<1>1. /\ h \in S /\ h = s[1] /\ t \in Seq(S) /\ Len(t) = Len(s) - 1 /\ Len(s) \in Nat \ {0}
      /\ \A i \in 1 .. Len(t) : t[i] = s[i + 1]
  OBVIOUS
<1> HIDE DEF t, h
<1>2. h \in ToSet(s)
  BY <1>1, InToSet
<1>3. \A x : x \in ToSet(t) => x \in ToSet(s)
  <2>1. SUFFICES ASSUME NEW x \in ToSet(t) PROVE x \in ToSet(s)
    OBVIOUS
  <2>2. PICK i \in 1 .. Len(t) : t[i] = x
    BY <1>1, InToSet
  <2>3. i + 1 \in 1 .. Len(s) /\ s[i + 1] = x
    BY <1>1, <2>2
  <2> QED BY <2>3, InToSet
<1>4. ASSUME IsInjective(s)
      PROVE  IsInjective(t) /\ ToSet(t) = ToSet(s) \ {h}
  <2>1. \A i, j \in 1 .. Len(s) : s[i] = s[j] => i = j
    BY <1>4, InToSet
  <2>2. IsInjective(t)
    <3>1. SUFFICES ASSUME NEW i \in 1 .. Len(t), NEW j \in 1 .. Len(t), t[i] = t[j]
                   PROVE  i = j
      BY <1>1, InToSet
    <3> QED BY <1>1, <2>1, <3>1
  <2>3. h \notin ToSet(t)
    <3>1. SUFFICES ASSUME NEW i \in 1 .. Len(t), t[i] = h PROVE FALSE
      BY <1>1, InToSet
    <3> QED BY <1>1, <2>1, <3>1
  <2>4. \A x \in ToSet(s) \ {h} : x \in ToSet(t)
    <3>1. SUFFICES ASSUME NEW x \in ToSet(s) \ {h} PROVE x \in ToSet(t)
      OBVIOUS
    <3>2. PICK i \in 1 .. Len(s) : s[i] = x
      BY InToSet
    <3>3. i # 1
      BY <1>1, <3>1, <3>2
    <3>4. i - 1 \in 1 .. Len(t) /\ t[i - 1] = x
      BY <1>1, <3>2, <3>3
    <3> QED BY <1>1, <3>4, InToSet
  <2> QED BY <1>3, <2>2, <2>3, <2>4
<1> QED BY <1>1, <1>2, <1>3, <1>4 DEF t, h

\* Return to the head.
LEMMA ConsQueue ==
    ASSUME NEW S, NEW s \in Seq(S), NEW x \in S
    PROVE  /\ <<x>> \o s \in Seq(S) /\ Len(<<x>> \o s) = Len(s) + 1
           /\ ToSet(<<x>> \o s) = ToSet(s) \cup {x}
           /\ IsInjective(s) /\ x \notin ToSet(s) => IsInjective(<<x>> \o s)
<1> DEFINE t == <<x>> \o s
<1>1. t \in Seq(S) /\ Len(t) = Len(s) + 1 /\ t[1] = x /\ Len(s) \in Nat
      /\ \A i \in 2 .. (Len(s) + 1) : t[i] = s[i - 1]
  OBVIOUS
<1> HIDE DEF t
<1>2. \A y : y \in ToSet(t) <=> y \in ToSet(s) \cup {x}
  <2>1. ASSUME NEW y \in ToSet(t) PROVE y \in ToSet(s) \cup {x}
    <3>1. PICK i \in 1 .. Len(t) : t[i] = y
      BY <1>1, InToSet
    <3>2. i # 1 => i - 1 \in 1 .. Len(s) /\ s[i - 1] = y
      BY <1>1, <3>1
    <3> QED BY <1>1, <3>1, <3>2, InToSet
  <2>2. ASSUME NEW y \in ToSet(s) PROVE y \in ToSet(t)
    <3>1. PICK i \in 1 .. Len(s) : s[i] = y
      BY InToSet
    <3>3. i + 1 \in 2 .. (Len(s) + 1) /\ (i + 1) - 1 = i /\ i + 1 \in 1 .. Len(t)
      BY <1>1
    <3>2. i + 1 \in 1 .. Len(t) /\ t[i + 1] = y
      BY <1>1, <3>1, <3>3
    <3> QED BY <1>1, <3>2, InToSet
  <2>3. x \in ToSet(t)
    BY <1>1, InToSet
  <2> QED BY <2>1, <2>2, <2>3
<1>3. IsInjective(s) /\ x \notin ToSet(s) => IsInjective(t)
  <2>1. SUFFICES ASSUME IsInjective(s), x \notin ToSet(s),
                        NEW i \in 1 .. Len(t), NEW j \in 1 .. Len(t), t[i] = t[j]
                 PROVE  i = j
    BY <1>1, InToSet
  <2>2. \A k \in 1 .. Len(s) : s[k] # x
    BY <2>1, InToSet
  <2>3. \A k, l \in 1 .. Len(s) : s[k] = s[l] => k = l
    BY <2>1, InToSet
  <2>4. \A k \in 2 .. Len(t) : k - 1 \in 1 .. Len(s) /\ t[k] = s[k - 1]
    BY <1>1
  <2>5. i # 1 => j # 1
    BY <1>1, <2>1, <2>2, <2>4
  <2>6. j # 1 => i # 1
    BY <1>1, <2>1, <2>2, <2>4
  <2> QED BY <1>1, <2>1, <2>3, <2>4, <2>5, <2>6
<1>4. ToSet(t) = ToSet(s) \cup {x}
  BY <1>2
<1> QED BY <1>1, <1>3, <1>4 DEF t

\* Concatenation.
LEMMA ConcatQueue ==
    ASSUME NEW S, NEW s \in Seq(S), NEW t \in Seq(S)
    PROVE  /\ s \o t \in Seq(S) /\ Len(s \o t) = Len(s) + Len(t)
           /\ ToSet(s \o t) = ToSet(s) \cup ToSet(t)
           /\ s \o << >> = s
<1> DEFINE u == s \o t
<1>1. /\ u \in Seq(S) /\ Len(u) = Len(s) + Len(t) /\ Len(s) \in Nat /\ Len(t) \in Nat
      /\ \A i \in 1 .. Len(s) : u[i] = s[i]
      /\ \A i \in (Len(s) + 1) .. (Len(s) + Len(t)) : u[i] = t[i - Len(s)]
  OBVIOUS
<1> HIDE DEF u
<1>2. ASSUME NEW y \in ToSet(u) PROVE y \in ToSet(s) \cup ToSet(t)
  <2>1. PICK i \in 1 .. Len(u) : u[i] = y
    BY <1>1, InToSet
  <2>2. CASE i <= Len(s)
    <3>1. i \in 1 .. Len(s) /\ s[i] = y
      BY <1>1, <2>1, <2>2
    <3> QED BY <3>1, InToSet
  <2>3. CASE i > Len(s)
    <3>1. i - Len(s) \in 1 .. Len(t) /\ t[i - Len(s)] = y
      BY <1>1, <2>1, <2>3
    <3> QED BY <3>1, InToSet
  <2> QED BY <2>2, <2>3, <1>1
<1>3. ASSUME NEW y \in ToSet(s) PROVE y \in ToSet(u)
  <2>1. PICK i \in 1 .. Len(s) : s[i] = y
    BY InToSet
  <2>2. i \in 1 .. Len(u) /\ u[i] = y
    BY <1>1, <2>1
  <2> QED BY <1>1, <2>2, InToSet
<1>4. ASSUME NEW y \in ToSet(t) PROVE y \in ToSet(u)
  <2>1. PICK i \in 1 .. Len(t) : t[i] = y
    BY InToSet
  <2> DEFINE j == i + Len(s)
  <2>3. j \in (Len(s) + 1) .. (Len(s) + Len(t)) /\ j - Len(s) = i /\ j \in 1 .. Len(u)
    BY <1>1
  <2>2. j \in 1 .. Len(u) /\ u[j] = y
    BY <1>1, <2>1, <2>3
  <2> QED BY <1>1, <2>2, InToSet
<1>5. s \o << >> = s
  OBVIOUS
<1> QED BY <1>1, <1>2, <1>3, <1>4, <1>5 DEF u

\* list.remove of an element the list holds once.
LEMMA RemoveQueue ==
    ASSUME NEW S, NEW s \in Seq(S), IsInjective(s), NEW x \in ToSet(s)
    PROVE  /\ Without(s, x) \in Seq(S) /\ Len(Without(s, x)) = Len(s) - 1
           /\ ToSet(Without(s, x)) = ToSet(s) \ {x}
           /\ IsInjective(Without(s, x))
<1> DEFINE k == CHOOSE i \in DOMAIN s : s[i] = x
           t == SubSeq(s, 1, k - 1) \o SubSeq(s, k + 1, Len(s))
<1>1. k \in 1 .. Len(s) /\ s[k] = x
  BY InToSet
<1>2. Without(s, x) = t
  BY DEF Without, RemoveAt
<1> HIDE DEF k
<1>3. /\ t \in Seq(S) /\ Len(t) = Len(s) - 1 /\ Len(s) \in Nat
      /\ \A i \in 1 .. (k - 1) : t[i] = s[i]
      /\ \A i \in k .. (Len(s) - 1) : t[i] = s[i + 1]
  <2> DEFINE p == SubSeq(s, 1, k - 1)
             q == SubSeq(s, k + 1, Len(s))
  <2>1. Len(s) \in Nat /\ k \in Int
    BY <1>1
  <2>2. p \in Seq(S) /\ Len(p) = k - 1 /\ \A i \in 1 .. (k - 1) : p[i] = s[i]
    BY <1>1, <2>1
  <2>3. /\ q \in Seq(S) /\ Len(q) = Len(s) - k
        /\ \A i \in 1 .. (Len(s) - k) : q[i] = s[k + i]
    BY <1>1, <2>1
  <2> HIDE DEF p, q
  <2>4. /\ p \o q \in Seq(S) /\ Len(p \o q) = Len(p) + Len(q)
        /\ \A i \in 1 .. Len(p) : (p \o q)[i] = p[i]
        /\ \A i \in (Len(p) + 1) .. (Len(p) + Len(q)) : (p \o q)[i] = q[i - Len(p)]
    BY <2>2, <2>3, ConcatPositions
  <2>5. t = p \o q
    BY DEF p, q
  <2> HIDE DEF t
  <2>8. t \in Seq(S) /\ Len(t) = Len(p) + Len(q)
    BY <2>4, <2>5
  <2>9. Len(t) = Len(s) - 1
    BY <2>1, <2>2, <2>3, <2>8
  <2>10. \A i \in 1 .. (k - 1) : t[i] = p[i]
    BY <2>2, <2>4, <2>5
  <2>6. t \in Seq(S) /\ Len(t) = Len(s) - 1 /\ \A i \in 1 .. (k - 1) : t[i] = s[i]
    BY <2>2, <2>8, <2>9, <2>10
  <2>7. ASSUME NEW i \in k .. (Len(s) - 1) PROVE t[i] = s[i + 1]
    <3>1. /\ i \in (Len(p) + 1) .. (Len(p) + Len(q))
          /\ i - Len(p) \in 1 .. (Len(s) - k) /\ k + (i - Len(p)) = i + 1
      BY <1>1, <2>1, <2>2, <2>3
    <3> QED BY <2>3, <2>4, <2>5, <3>1
  <2> QED BY <2>1, <2>6, <2>7
<1> HIDE DEF t
<1>4. \A i, j \in 1 .. Len(s) : s[i] = s[j] => i = j
  BY InToSet
<1>5. IsInjective(t)
  <2>1. SUFFICES ASSUME NEW i \in 1 .. Len(t), NEW j \in 1 .. Len(t), t[i] = t[j]
                 PROVE  i = j
    BY <1>3, InToSet
  <2> QED BY SMTT(30), <1>1, <1>3, <1>4, <2>1
<1>6. ASSUME NEW y \in ToSet(t) PROVE y \in ToSet(s) \ {x}
  <2>1. PICK i \in 1 .. Len(t) : t[i] = y
    BY <1>3, InToSet
  <2>2. CASE i < k
    <3>1. i \in 1 .. Len(s) /\ s[i] = y /\ i # k
      BY <1>1, <1>3, <2>1, <2>2
    <3> QED BY <1>1, <1>4, <3>1, InToSet
  <2>3. CASE i >= k
    <3>1. i + 1 \in 1 .. Len(s) /\ s[i + 1] = y /\ i + 1 # k
      BY <1>1, <1>3, <2>1, <2>3
    <3> QED BY <1>1, <1>4, <3>1, InToSet
  <2> QED BY <2>2, <2>3, <1>1
<1>7. ASSUME NEW y \in ToSet(s) \ {x} PROVE y \in ToSet(t)
  <2>1. PICK i \in 1 .. Len(s) : s[i] = y
    BY InToSet
  <2>2. i # k
    BY <1>1, <1>7, <2>1
  <2>3. CASE i < k
    <3>1. i \in 1 .. Len(t) /\ t[i] = y
      BY <1>1, <1>3, <2>1, <2>3
    <3> QED BY <1>3, <3>1, InToSet
  <2>4. CASE i > k
    <3>1. i - 1 \in 1 .. Len(t) /\ t[i - 1] = y
      BY <1>1, <1>3, <2>1, <2>4
    <3> QED BY <1>3, <3>1, InToSet
  <2> QED BY <2>2, <2>3, <2>4, <1>1
<1> QED BY <1>2, <1>3, <1>5, <1>6, <1>7

----------------------------------------------------------------------------
(***************************************************************************)
(* Budgets.                                                                *)
(***************************************************************************)

\* One pair per unit that f gives to a member of S.
Pairs(S, f) == UNION {{r} \X (1 .. f[r]) : r \in S}

\* A pair is a client and the number of one of its units.
LEMMA PairsMember ==
    ASSUME NEW S, NEW f, NEW p
    PROVE  p \in Pairs(S, f) <=> \E r \in S : \E i \in 1 .. f[r] : p = <<r, i>>
  BY DEF Pairs

\* One client with n units makes n pairs.
LEMMA OneClient ==
    ASSUME NEW r, NEW n \in Nat
    PROVE  IsFiniteSet({r} \X (1 .. n)) /\ Cardinality({r} \X (1 .. n)) = n
<1>1. IsFiniteSet({r}) /\ Cardinality({r}) = 1
  BY FS_Singleton
<1>2. IsFiniteSet(1 .. n) /\ Cardinality(1 .. n) = n
  BY FS_Interval
<1>3. /\ IsFiniteSet({r} \X (1 .. n))
      /\ Cardinality({r} \X (1 .. n)) = Cardinality({r}) * Cardinality(1 .. n)
  BY <1>1, <1>2, FS_Product
<1> DEFINE c == Cardinality({r} \X (1 .. n))
           x == Cardinality({r})
           y == Cardinality(1 .. n)
<1>4. c = x * y /\ x = 1 /\ y = n
  BY <1>1, <1>2, <1>3
<1> HIDE DEF c, x, y
<1>5. c = n
  BY <1>4
<1> QED BY <1>3, <1>5 DEF c

\* Finitely many clients make finitely many pairs.
LEMMA PairsFinite ==
    ASSUME NEW S, IsFiniteSet(S), NEW f, \A r \in S : f[r] \in Nat
    PROVE  IsFiniteSet(Pairs(S, f)) /\ Cardinality(Pairs(S, f)) \in Nat
<1> DEFINE C == {{r} \X (1 .. f[r]) : r \in S}
           g == [r \in S |-> {r} \X (1 .. f[r])]
<1>1. g \in Surjection(S, C)
  BY DEF Surjection
<1>2. IsFiniteSet(C)
  BY <1>1, FS_Surjection
<1>3. ASSUME NEW c \in C PROVE IsFiniteSet(c)
  <2>1. PICK r \in S : c = {r} \X (1 .. f[r])
    OBVIOUS
  <2> QED BY <2>1, OneClient
<1>4. IsFiniteSet(UNION C)
  BY <1>2, <1>3, FS_UNION
<1> QED BY <1>4, FS_CardinalityType DEF Pairs

\* More clients and larger shares never make fewer pairs.
LEMMA PairsMonotone ==
    ASSUME NEW S, NEW T, S \subseteq T, IsFiniteSet(T), NEW f, NEW g,
           \A r \in T : f[r] \in Nat /\ g[r] \in Nat,
           \A r \in S : f[r] <= g[r]
    PROVE  Cardinality(Pairs(S, f)) <= Cardinality(Pairs(T, g))
<1>1. ASSUME NEW p \in Pairs(S, f) PROVE p \in Pairs(T, g)
  <2>1. PICK r \in S : \E i \in 1 .. f[r] : p = <<r, i>>
    BY <1>1, PairsMember
  <2>2. PICK i \in 1 .. f[r] : p = <<r, i>>
    BY <2>1
  <2>3. i \in 1 .. g[r]
    BY <2>1, <2>2
  <2> QED BY <2>1, <2>2, <2>3, PairsMember
<1>2. IsFiniteSet(Pairs(T, g))
  BY PairsFinite
<1> QED BY <1>1, <1>2, FS_Subset

\* A new client adds its share.
LEMMA PairsAdd ==
    ASSUME NEW S, IsFiniteSet(S), NEW r, r \notin S, NEW f,
           \A s \in S \cup {r} : f[s] \in Nat
    PROVE  Cardinality(Pairs(S \cup {r}, f)) = Cardinality(Pairs(S, f)) + f[r]
<1> DEFINE A == Pairs(S, f)
           B == {r} \X (1 .. f[r])
<1>1. Pairs(S \cup {r}, f) = A \cup B
  BY DEF Pairs
<1>2. A \cap B = {}
  <2>1. \A p \in A : \E s \in S : \E i \in 1 .. f[s] : p = <<s, i>>
    BY PairsMember
  <2>2. \A p \in B : \E i \in 1 .. f[r] : p = <<r, i>>
    OBVIOUS
  <2> QED BY <2>1, <2>2
<1>3. IsFiniteSet(A) /\ Cardinality(A) \in Nat
  BY PairsFinite
<1>4. IsFiniteSet(B) /\ Cardinality(B) = f[r]
  BY OneClient
<1> HIDE DEF A, B
<1>5. Cardinality(A \cup B) = Cardinality(A) + Cardinality(B) - Cardinality({})
  BY <1>2, <1>3, <1>4, FS_Union
<1>6. Cardinality({}) = 0
  BY FS_EmptySet
<1>7. Cardinality(A \cup B) = Cardinality(A) + f[r]
  BY <1>3, <1>4, <1>5, <1>6
<1> QED BY <1>1, <1>7 DEF A

\* Shares that agree on the clients make the same pairs.
LEMMA PairsSame ==
    ASSUME NEW S, NEW f, NEW g, \A r \in S : f[r] = g[r]
    PROVE  Pairs(S, f) = Pairs(S, g)
<1>1. \A p : p \in Pairs(S, f) <=> p \in Pairs(S, g)
  BY PairsMember
<1> QED BY <1>1

----------------------------------------------------------------------------
\* Free blocks and held blocks make up the pool.
LEMMA AccountedCount ==
    ASSUME IsFiniteSet(Id), NEW F \in Nat, NEW f, NEW T, NEW L \in [Id -> Nat],
           Accounted(f, F, T, L),
           \A i \in 1 .. F : f[i] \in Block,
           \A r \in Id : \A i \in 1 .. L[r] : T[r][i] \in Block
    PROVE  F + Cardinality(Pairs(Id, L)) = NumBlocks
<1> DEFINE P == Pairs(Id, L)
           A == {f[i] : i \in 1 .. F}
           B == {T[p[1]][p[2]] : p \in P}
           fm == [i \in 1 .. F |-> f[i]]
           om == [p \in P |-> T[p[1]][p[2]]]
<1>1. \A p : p \in P <=> \E r \in Id : \E i \in 1 .. L[r] : p = <<r, i>>
  BY PairsMember
<1>2. IsFiniteSet(P) /\ Cardinality(P) \in Nat
  BY PairsFinite
<1>3. IsFiniteSet(A) /\ Cardinality(A) = F
  <2>1. fm \in Surjection(1 .. F, A) /\ fm \in Injection(1 .. F, A)
    BY DEF Surjection, Injection, IsInjective, Accounted, FOnce
  <2>2. IsFiniteSet(1 .. F) /\ Cardinality(1 .. F) = F
    <3>1. \A n \in Nat : IsFiniteSet(1 .. n) /\ Cardinality(1 .. n) = n
      BY FS_Interval
    <3> HIDE DEF P, om
    <3> QED BY <3>1
  <2> QED BY <2>1, <2>2, FS_Surjection
<1>4. IsFiniteSet(B) /\ Cardinality(B) = Cardinality(P)
  <2>1. om \in Surjection(P, B)
    BY DEF Surjection
  <2>2. ASSUME NEW p \in P, NEW q \in P, om[p] = om[q] PROVE p = q
    <3>1. PICK r \in Id : \E i \in 1 .. L[r] : p = <<r, i>>
      BY <1>1
    <3>2. PICK i \in 1 .. L[r] : p = <<r, i>>
      BY <3>1
    <3>3. PICK s \in Id : \E j \in 1 .. L[s] : q = <<s, j>>
      BY <1>1
    <3>4. PICK j \in 1 .. L[s] : q = <<s, j>>
      BY <3>3
    <3>5. T[r][i] = T[s][j]
      BY <2>2, <3>2, <3>4
    <3>6. r = s /\ i = j
      BY <3>2, <3>4, <3>5 DEF Accounted, TOnce
    <3> QED BY <3>2, <3>4, <3>6
  <2>3. om \in Injection(P, B)
    BY <2>1, <2>2 DEF Injection, IsInjective, Surjection
  <2> QED BY <1>2, <2>1, <2>3, FS_Surjection
<1>5. A \cup B = Block
  <2>1. ASSUME NEW b \in A \cup B PROVE b \in Block
    <3>1. CASE b \in A
      BY <3>1
    <3>2. CASE b \in B
      <4>1. PICK p \in P : b = T[p[1]][p[2]]
        BY <3>2
      <4>2. PICK r \in Id : \E i \in 1 .. L[r] : p = <<r, i>>
        BY <1>1
      <4> QED BY <4>1, <4>2
    <3> QED BY <2>1, <3>1, <3>2
  <2>2. ASSUME NEW b \in Block PROVE b \in A \cup B
    <3>1. CASE \E i \in 1 .. F : f[i] = b
      BY <3>1
    <3>2. CASE \E r \in Id : \E j \in 1 .. L[r] : T[r][j] = b
      <4>1. PICK r \in Id : \E j \in 1 .. L[r] : T[r][j] = b
        BY <3>2
      <4>2. PICK j \in 1 .. L[r] : T[r][j] = b
        BY <4>1
      <4>3. <<r, j>> \in P /\ T[<<r, j>>[1]][<<r, j>>[2]] = b
        BY <1>1, <4>2
      <4> QED BY <4>3
    <3> QED BY <3>1, <3>2 DEF Accounted, Covered
  <2> QED BY <2>1, <2>2
<1>6. A \cap B = {}
  <2>1. SUFFICES ASSUME NEW b \in A, b \in B PROVE FALSE
    OBVIOUS
  <2>2. PICK i \in 1 .. F : b = f[i]
    BY <2>1
  <2>3. PICK p \in P : b = T[p[1]][p[2]]
    BY <2>1
  <2>4. PICK r \in Id : \E j \in 1 .. L[r] : p = <<r, j>>
    BY <1>1
  <2>5. PICK j \in 1 .. L[r] : p = <<r, j>>
    BY <2>4
  <2> QED BY <2>2, <2>3, <2>5 DEF Accounted, FNotT
<1> HIDE DEF A, B, P
<1>7. Cardinality(A \cup B) = Cardinality(A) + Cardinality(B) - Cardinality({})
  BY <1>3, <1>4, <1>6, FS_Union
<1>8. Cardinality(Block) = NumBlocks
  BY FS_Interval, PoolAssumption DEF Block
<1>9. Cardinality({}) = 0
  BY FS_EmptySet
<1> DEFINE a == Cardinality(A)
           b == Cardinality(B)
           u == Cardinality(A \cup B)
           z == Cardinality({})
           n == Cardinality(P)
<1>11. /\ a = F /\ b = n /\ z = 0 /\ u = NumBlocks /\ n \in Nat
       /\ u = a + b - z
  BY <1>2, <1>3, <1>4, <1>5, <1>7, <1>8, <1>9
<1> HIDE DEF a, b, u, z, n
<1>12. F + n = NumBlocks
  BY <1>11, PoolAssumption
<1>10. F + Cardinality(P) = NumBlocks
  BY <1>12 DEF n
<1> QED BY <1>10 DEF P

----------------------------------------------------------------------------
\* The ids the pool serves.
LEMMA IdFinite == IsFiniteSet(Id) /\ IsFiniteSet(Request) /\ Pad \notin Request
<1>1. IsFiniteSet(Request) /\ Pad \notin Request
  BY SchedulerAssumption, FS_Interval DEF Request, Pad
<1>2. IsFiniteSet({Pad})
  BY FS_Singleton
<1>3. IsFiniteSet(Request \cup {Pad})
  BY <1>1, <1>2, FS_Union
<1> QED BY <1>1, <1>3, SchedulerAssumption

\* What every request is promised.
Promises == [r \in Request |-> MaxBlocks(r)]

LEMMA PromisesType ==
    ASSUME SchedTypeOK
    PROVE  \A r \in Request : Promises[r] = MaxBlocks(r) /\ Promises[r] \in Nat
<1>1. ASSUME NEW r \in Request PROVE MaxBlocks(r) \in Nat
  <2>1. prompt[r] + max_tokens[r] + Spare \in Nat
    BY SchedulerAssumption DEF SchedTypeOK
  <2> QED BY <2>1, BlocksForCeiling DEF MaxBlocks
<1> QED BY <1>1 DEF Promises

\* The scheduler's sums are sizes of sets of pairs.
LEMMA SumsArePairs ==
    ASSUME NEW S \in SUBSET Request
    PROVE  Promised(S) = Pairs(S, Promises) /\ Held(S) = Pairs(S, Lengths)
<1>1. \A r \in S : Promises[r] = MaxBlocks(r) /\ Lengths[r] = Len(blocks[r])
  BY SchedulerAssumption DEF Promises, Lengths
<1>2. \A r \in S : {r} \X (1 .. MaxBlocks(r)) = {r} \X (1 .. Promises[r])
                  /\ {r} \X (1 .. Len(blocks[r])) = {r} \X (1 .. Lengths[r])
  BY <1>1
<1>3. \A p : p \in Promised(S) <=> p \in Pairs(S, Promises)
  BY <1>2 DEF Promised, Pairs
<1>4. \A p : p \in Held(S) <=> p \in Pairs(S, Lengths)
  BY <1>2 DEF Held, Pairs
<1> QED BY <1>3, <1>4

LEMMA LengthsType ==
    ASSUME PoolInv
    PROVE  /\ Lengths \in [Id -> Nat]
           /\ \A r \in Id : Lengths[r] = Len(blocks[r]) /\ Lengths[r] = BlocksFor(seq_len[r])
  BY DEF PoolInv, PoolTypeOK, TablesSized, Lengths

\* When only S and the pad id hold blocks, the free blocks, theirs and the pad's make up
\* the pool.
LEMMA FreeAndHeld ==
    ASSUME PoolInv, NEW S \in SUBSET Request, live \subseteq S \cup {Pad}
    PROVE  /\ Cardinality(Pairs(S, Lengths)) \in Nat /\ Lengths[Pad] \in Nat
           /\ NumFree + Cardinality(Pairs(S, Lengths)) + Lengths[Pad] = NumBlocks
<1> DEFINE T == S \cup {Pad}
<1>1. IsFiniteSet(S) /\ IsFiniteSet(T) /\ T \subseteq Id /\ Pad \notin S
  <2>1. T \subseteq Id /\ Pad \notin S
    BY IdFinite, SchedulerAssumption
  <2> QED BY <2>1, IdFinite, FS_Subset
<1>2. Lengths \in [Id -> Nat] /\ \A r \in Id : Lengths[r] = BlocksFor(seq_len[r])
  BY LengthsType
<1>3. \A r \in Id \ T : Lengths[r] = 0
  BY <1>2, BlocksForZero DEF PoolInv, TablesSized
<1>4. \A p : p \in Pairs(Id, Lengths) <=> p \in Pairs(T, Lengths)
  <2>1. ASSUME NEW p \in Pairs(Id, Lengths) PROVE p \in Pairs(T, Lengths)
    <3>1. PICK r \in Id : \E i \in 1 .. Lengths[r] : p = <<r, i>>
      BY PairsMember
    <3>2. r \in T
      BY <1>3, <3>1
    <3> QED BY <3>1, <3>2, PairsMember
  <2>2. ASSUME NEW p \in Pairs(T, Lengths) PROVE p \in Pairs(Id, Lengths)
    BY <1>1, PairsMember
  <2> QED BY <2>1, <2>2
<1>5. Pairs(Id, Lengths) = Pairs(T, Lengths)
  BY <1>4
<1>6. Len(free) \in Nat /\ Accounted(free, Len(free), blocks, Lengths)
  BY AccountedIsEveryBlockOnce DEF PoolInv, PoolTypeOK
<1>7. /\ \A i \in 1 .. Len(free) : free[i] \in Block
      /\ \A r \in Id : \A i \in 1 .. Lengths[r] : blocks[r][i] \in Block
  <2>1. \A i \in 1 .. Len(free) : free[i] \in Block
    BY DEF PoolInv, PoolTypeOK
  <2>2. ASSUME NEW r \in Id, NEW i \in 1 .. Lengths[r] PROVE blocks[r][i] \in Block
    <3>1. blocks[r] \in Seq(Block) /\ i \in 1 .. Len(blocks[r])
      BY LengthsType DEF PoolInv, PoolTypeOK
    <3> QED BY <3>1
  <2> QED BY <2>1, <2>2
<1>8. Len(free) + Cardinality(Pairs(Id, Lengths)) = NumBlocks
  BY <1>2, <1>6, <1>7, IdFinite, AccountedCount
<1>9. \A s \in T : Lengths[s] \in Nat
  BY <1>1, <1>2
<1>10. Cardinality(Pairs(T, Lengths)) = Cardinality(Pairs(S, Lengths)) + Lengths[Pad]
  BY <1>1, <1>9, PairsAdd
<1>11. Cardinality(Pairs(S, Lengths)) \in Nat
  BY <1>1, <1>9, PairsFinite
<1> DEFINE c == Cardinality(Pairs(S, Lengths))
           d == Cardinality(Pairs(T, Lengths))
<1>12. /\ c \in Nat /\ Lengths[Pad] \in Nat /\ d = c + Lengths[Pad]
       /\ Len(free) \in Nat /\ Len(free) + d = NumBlocks
  BY <1>5, <1>6, <1>8, <1>9, <1>10, <1>11
<1> HIDE DEF c, d
<1>13. c \in Nat /\ Lengths[Pad] \in Nat /\ NumFree + c + Lengths[Pad] = NumBlocks
  BY <1>12, PoolAssumption DEF NumFree
<1> QED BY <1>13 DEF c

(***************************************************************************)
(* The scheduler's argument: as long as every request of S holds no more   *)
(* than it was promised and the promises together fit what S may hold,     *)
(* there are free blocks for q to grow to n, if n is within q's promise.   *)
(***************************************************************************)
LEMMA PromiseIsKept ==
    ASSUME NEW S, IsFiniteSet(S), NEW q \in S, NEW f, NEW g, NEW n \in Nat, NEW cap \in Int,
           \A r \in S : f[r] \in Nat /\ g[r] \in Nat /\ f[r] <= g[r],
           n <= g[q],
           Cardinality(Pairs(S, g)) <= cap
    PROVE  n - f[q] <= cap - Cardinality(Pairs(S, f))
<1> DEFINE R == S \ {q}
           h == [r \in S |-> IF r = q THEN n ELSE f[r]]
<1>1. IsFiniteSet(R) /\ q \notin R /\ R \cup {q} = S
  <2>1. R \subseteq S
    OBVIOUS
  <2> QED BY <2>1, FS_Subset
<1>2. h[q] = n /\ \A r \in S : h[r] \in Nat /\ h[r] <= g[r]
  OBVIOUS
<1>3. \A r \in R : f[r] = h[r]
  OBVIOUS
<1> HIDE DEF h
<1>4. Cardinality(Pairs(S, f)) = Cardinality(Pairs(R, f)) + f[q]
  <2>1. \A r \in R \cup {q} : f[r] \in Nat
    BY <1>1
  <2>2. Cardinality(Pairs(R \cup {q}, f)) = Cardinality(Pairs(R, f)) + f[q]
    BY <1>1, <2>1, PairsAdd
  <2> QED BY <1>1, <2>2
<1>5. Cardinality(Pairs(S, h)) = Cardinality(Pairs(R, h)) + n
  <2>1. \A r \in R \cup {q} : h[r] \in Nat
    BY <1>1, <1>2
  <2>2. Cardinality(Pairs(R \cup {q}, h)) = Cardinality(Pairs(R, h)) + h[q]
    BY <1>1, <2>1, PairsAdd
  <2> QED BY <1>1, <1>2, <2>2
<1>6. Pairs(R, h) = Pairs(R, f)
  BY <1>3, PairsSame
<1>7. Cardinality(Pairs(S, h)) <= Cardinality(Pairs(S, g))
  BY <1>2, PairsMonotone
<1>8. Cardinality(Pairs(R, f)) \in Nat /\ Cardinality(Pairs(S, g)) \in Nat
  <2>1. \A r \in R : f[r] \in Nat
    OBVIOUS
  <2> QED BY <1>1, <2>1, PairsFinite
<1> DEFINE a == Cardinality(Pairs(R, f))
           b == Cardinality(Pairs(S, f))
           c == Cardinality(Pairs(S, h))
           d == Cardinality(Pairs(S, g))
<1>9. /\ a \in Nat /\ d \in Nat /\ f[q] \in Nat
      /\ b = a + f[q] /\ c = a + n /\ c <= d /\ d <= cap
  BY <1>4, <1>5, <1>6, <1>7, <1>8
<1> HIDE DEF a, b, c, d
<1>10. n - f[q] <= cap - b
  BY <1>9
<1> QED BY <1>10 DEF b

----------------------------------------------------------------------------
(***************************************************************************)
(* The inductive invariant.                                                *)
(***************************************************************************)
Batch    == ToSet(batch)
Admitted == ToSet(admitted)
Todo     == ToSet(todo)
Alive    == ToSet(alive)

\* Running requests _accept has not visited, and those of them admitted in this step.
Pending == IF pc \in {"admit", "reserve"} THEN Running
           ELSE IF pc = "accept" THEN Todo
           ELSE IF pc = "regrow" THEN Todo \ {Head(todo)}
           ELSE {}

Newly == Pending \cap Admitted

\* The pad id once its block is reserved.
PadIds == IF Graphs /\ pc # "capture" THEN {Pad} ELSE {}

\* Queues and states agree, ids from next_id on are unused, and the pool serves the
\* running requests and the pad id.
Queued == /\ IsInjective(waiting) /\ ToSet(waiting) = {r \in Request : state[r] = "waiting"}
          /\ IsInjective(running) /\ Running = {r \in Request : state[r] = "running"}
          /\ \A r \in Request : r >= next_id => state[r] = "new"
          /\ live = Running \cup PadIds
          /\ PadIds # {} => seq_len[Pad] = 1
          /\ pc = "capture" => Graphs
          /\ MaxRunning # NoLimit => Len(running) <= MaxRunning

\* The locals of a call against the running list.
Locals == /\ pc \in {"capture", "idle", "restart"} => batch = << >> /\ admitted = << >>
          /\ pc \in {"admit", "reserve"} =>
                /\ running = batch \o admitted
                /\ Batch \cap Admitted = {}
                /\ IsInjective(batch) /\ IsInjective(admitted)
          /\ pc = "reserve" => /\ IsInjective(todo)
                               /\ Todo \subseteq IF Depth = 0 THEN Batch ELSE Admitted
          /\ pc \in {"accept", "regrow"} => /\ IsInjective(todo) /\ Todo \subseteq Running
                                            /\ Depth > 0 => Alive = Running \ Todo
          /\ pc = "regrow" => Depth > 0 /\ todo # << >>
          /\ pc = "restart" => IsInjective(todo) /\ Todo = Running
          /\ pc \notin {"accept", "regrow"} \/ Depth = 0 => alive = << >>

\* How many tokens a request has, has written and may still emit.
CountedFor(r) ==
    /\ state[r] = "new" => out[r] = 0
    /\ state[r] # "new" => max_tokens[r] \in MaxTokens
    /\ state[r] \in {"new", "waiting"} => committed[r] = 0 /\ tree[r] = NoTree
    /\ state[r] = "waiting" => out[r] < max_tokens[r] \/ max_tokens[r] = 0
    /\ r \in Newly => /\ committed[r] = 0 /\ tree[r] = NoTree
                      /\ out[r] < max_tokens[r] \/ max_tokens[r] = 0
    /\ r \in Running \ Newly => committed[r] < prompt[r] + out[r] /\ out[r] < max_tokens[r]

Counted == \A r \in Request : CountedFor(r)

\* A request about to be verified or idle has a tree exactly under speculation.
Treed == \A r \in Running :
    /\ tree[r] <= NumDraft
    /\ Depth = 0 => tree[r] = NoTree
    /\ Depth > 0 /\ (r \in Pending \ Newly \/ pc \in {"capture", "idle", "restart"}) =>
           tree[r] # NoTree

\* Slots a running request keeps reserved past committed between steps.
Extra == IF Depth > 0 THEN Slots ELSE 0

\* How far the reservation of r goes past what r has written or will prefill.
Taken(r) == IF \/ pc = "admit" /\ r \in Newly
               \/ pc = "reserve" /\ r \in Todo
               \/ pc = "regrow" /\ r = Head(todo)
            THEN 0
            ELSE IF pc \in {"reserve", "accept", "regrow"} /\ r \in Pending \ Newly
            THEN Slots
            ELSE Extra

Reserved == \A r \in Running :
    seq_len[r] = (IF r \in Newly THEN prompt[r] ELSE committed[r]) + Taken(r)

\* Running requests are promised no more than the pool has.
Budgeted == /\ Cardinality(Pairs(Running, Promises)) <= Usable
            /\ pc = "admit" => headroom = Usable - Cardinality(Pairs(Running, Promises))

\* Everything an exception may break.
InCall == Queued /\ Locals /\ Counted /\ Treed /\ Reserved /\ Budgeted

IInv == /\ TypeOK
        /\ PoolInv
        /\ pc # "exhausted" => InCall
        /\ OnlyZeroTokensExhaust

----------------------------------------------------------------------------
\* Members of the lists are requests, and no request is the pad id.
LEMMA Members ==
    ASSUME TypeOK
    PROVE  /\ Running \in SUBSET Request /\ ToSet(waiting) \in SUBSET Request
           /\ Batch \in SUBSET Request /\ Admitted \in SUBSET Request
           /\ Todo \in SUBSET Request /\ Alive \in SUBSET Request
           /\ Request \subseteq Id /\ Pad \in Id /\ Pad \notin Request
           /\ IsFiniteSet(Running)
<1>1. /\ Running \in SUBSET Request /\ ToSet(waiting) \in SUBSET Request
      /\ Batch \in SUBSET Request /\ Admitted \in SUBSET Request
      /\ Todo \in SUBSET Request /\ Alive \in SUBSET Request
  BY InToSet DEF TypeOK, SchedTypeOK, Running, Batch, Admitted, Todo, Alive
<1>2. IsFiniteSet(Running)
  BY <1>1, IdFinite, FS_Subset
<1> QED BY <1>1, <1>2, IdFinite, SchedulerAssumption

LEMMA InitHolds == Init => IInv
<1> SUFFICES ASSUME Init PROVE IInv
  OBVIOUS
<1>1. PoolInv
  BY PoolInitInv DEF Init
<1>2. TypeOK
  BY <1>1, EngineAssumption DEF Init, SchedInit, TypeOK, SchedTypeOK, PoolInv, Phase, State, NoTree
<1>3. /\ Running = {} /\ ToSet(waiting) = {} /\ Batch = {} /\ Admitted = {} /\ Todo = {}
      /\ IsInjective(waiting) /\ IsInjective(running)
  BY EmptyQueue DEF Init, SchedInit, Running, Batch, Admitted, Todo
<1>4. Queued
  BY <1>3, SchedulerAssumption DEF Init, SchedInit, PoolInit, Queued, PadIds, NoLimit
<1>5. Locals
  BY DEF Init, Locals
<1>6. Counted /\ Treed /\ Reserved
  BY <1>3 DEF Init, SchedInit, Counted, CountedFor, Treed, Reserved, Newly
<1>7. Budgeted
  <2>1. Pairs(Running, Promises) = {}
    BY <1>3, PairsMember
  <2>2. Cardinality(Pairs(Running, Promises)) = 0
    BY <2>1, FS_EmptySet
  <2> QED BY <2>2, PoolAssumption DEF Init, Budgeted, Usable
<1> QED BY <1>1, <1>2, <1>4, <1>5, <1>6, <1>7 DEF IInv, InCall, OnlyZeroTokensExhaust, Init

----------------------------------------------------------------------------
(***************************************************************************)
(* Each action keeps IInv.                                                 *)
(***************************************************************************)
\* What requests are promised changes only with their lengths.
LEMMA SamePromises ==
    ASSUME prompt' = prompt, max_tokens' = max_tokens
    PROVE  Promises' = Promises
  BY DEF Promises, MaxBlocks

LEMMA CaptureKeeps ==
    ASSUME IInv, Capture
    PROVE  IInv'
<1>1. /\ TypeOK /\ PoolInv /\ Queued /\ Locals /\ Counted /\ Treed /\ Reserved /\ Budgeted
      /\ pc = "capture" /\ pc' = "idle" /\ Graphs
  BY DEF IInv, InCall, Queued, Capture
<1>2. Alloc(Pad, 1) /\ UNCHANGED <<sched, batch, admitted, headroom, todo, alive, ext,
                                    next_id, updates, asked>>
  BY DEF Capture
<1>3. PoolInv'
  BY <1>1, <1>2, Members, AllocKeepsInv
<1>4. TypeOK'
  BY <1>1, <1>2, <1>3 DEF TypeOK, SchedTypeOK, sched, request, PoolInv, Phase
<1>5. \A r \in Running : seq_len'[r] = seq_len[r]
  BY <1>1, <1>2, Members DEF Alloc, TypeOK, PoolTypeOK
<1>6. Queued'
  <2>1. seq_len'[Pad] = 1
    BY <1>1, <1>2, Members DEF Alloc, TypeOK, PoolTypeOK
  <2>2. live' = live \cup {Pad}
    BY <1>2 DEF Alloc
  <2> QED BY <1>1, <1>2, <2>1, <2>2 DEF Queued, PadIds, Running, sched, request
<1>7. Locals'
  BY <1>1, <1>2 DEF Locals, sched
<1>8. Counted' /\ Treed' /\ Reserved'
  BY <1>1, <1>2, <1>5 DEF Counted, CountedFor, Treed, Reserved, Newly, Pending, Taken, Running, sched, request
<1>9. Budgeted'
  BY <1>1, <1>2, SamePromises DEF Budgeted, Running, sched, request, Usable
<1> QED BY <1>1, <1>3, <1>4, <1>6, <1>7, <1>8, <1>9 DEF IInv, InCall, OnlyZeroTokensExhaust

LEMMA AddKeeps ==
    ASSUME IInv, Add
    PROVE  IInv'
<1>1. /\ TypeOK /\ PoolInv /\ Queued /\ Locals /\ Counted /\ Treed /\ Reserved /\ Budgeted
      /\ pc = "idle"
  BY DEF IInv, InCall, Add
<1> DEFINE q == next_id
<1>2. PICK n \in PromptLens : \E m \in MaxTokens :
          AddRequest(q, n, m) /\ asked' = [asked EXCEPT ![q] = n]
  BY DEF Add
<1>3. PICK m \in MaxTokens : AddRequest(q, n, m) /\ asked' = [asked EXCEPT ![q] = n]
  BY <1>2
<1>4. next_id' = q + 1 /\ UNCHANGED <<pool, step, updates, running, out, committed, tree>>
      /\ q \in Request /\ n \in Nat /\ m \in Nat /\ q \in Nat
  BY <1>1, <1>3, EngineAssumption, SchedulerAssumption DEF Add, AddRequest, TypeOK, Request
<1>5. state[q] = "new" /\ q \notin ToSet(waiting) /\ q \notin Running
  BY <1>1, <1>4 DEF Queued
<1>6. PoolInv'
  BY <1>1, <1>4, PoolUnchanged
<1>7. /\ waiting' \in Seq(Request) /\ ToSet(waiting') = ToSet(waiting) \cup {q}
      /\ IsInjective(waiting')
  BY <1>1, <1>3, <1>4, <1>5, AppendQueue, SMTT(30) DEF AddRequest, Queued, TypeOK, SchedTypeOK
<1>8. TypeOK'
  <2>1. SchedTypeOK'
    BY <1>1, <1>3, <1>4, <1>7 DEF TypeOK, SchedTypeOK, AddRequest, State
  <2>2. next_id' \in Nat /\ asked' \in [Request -> Nat]
    BY <1>1, <1>3, <1>4 DEF TypeOK
  <2> QED BY <1>1, <1>4, <1>6, <2>1, <2>2 DEF TypeOK, step, PoolInv
<1>9. state' = [state EXCEPT ![q] = "waiting"] /\ prompt' = [prompt EXCEPT ![q] = n]
      /\ max_tokens' = [max_tokens EXCEPT ![q] = m]
  BY <1>3 DEF AddRequest
<1>10. Queued'
  <2>1. \A r \in Request : r >= next_id' => state'[r] = "new"
    BY <1>1, <1>4, <1>9 DEF Queued, TypeOK, SchedTypeOK, Request
  <2>2. ToSet(waiting') = {r \in Request : state'[r] = "waiting"}
    BY <1>1, <1>4, <1>7, <1>9 DEF Queued, TypeOK, SchedTypeOK
  <2>3. Running' = {r \in Request : state'[r] = "running"}
    BY <1>1, <1>4, <1>5, <1>9 DEF Queued, TypeOK, SchedTypeOK, Running
  <2> QED BY <1>1, <1>4, <1>7, <2>1, <2>2, <2>3 DEF Queued, PadIds, Running, pool, step
<1>11. Locals'
  BY <1>1, <1>4 DEF Locals, step
<1>12. Running' = Running /\ Newly' = {} /\ Newly = {} /\ Pending = {} /\ Pending' = {}
  BY <1>1, <1>4 DEF Running, Newly, Pending, step
<1>13. Counted'
  <2>1. \A r \in Request \ {q} : /\ state'[r] = state[r] /\ prompt'[r] = prompt[r]
                                 /\ max_tokens'[r] = max_tokens[r]
    BY <1>1, <1>9 DEF TypeOK, SchedTypeOK
  <2>2. state'[q] = "waiting" /\ max_tokens'[q] = m /\ out[q] = 0
        /\ committed[q] = 0 /\ tree[q] = NoTree
    BY <1>1, <1>4, <1>5, <1>9 DEF Counted, CountedFor, TypeOK, SchedTypeOK
  <2>3. 0 < m \/ m = 0
    BY <1>4
  <2> QED BY <1>1, <1>4, <1>5, <1>12, <2>1, <2>2, <2>3 DEF Counted, CountedFor
<1>14. Treed' /\ Reserved'
  BY <1>1, <1>4, <1>12 DEF Treed, Reserved, Taken, step, pool
<1>15. Budgeted'
  <2>1. \A r \in Running : Promises'[r] = Promises[r]
    BY <1>1, <1>5, <1>9, Members DEF Promises, MaxBlocks, TypeOK, SchedTypeOK
  <2>2. Pairs(Running, Promises') = Pairs(Running, Promises)
    BY <2>1, PairsSame
  <2> QED BY <1>1, <1>4, <1>12, <2>2 DEF Budgeted, Usable, step
<1> QED BY <1>1, <1>4, <1>6, <1>8, <1>10, <1>11, <1>13, <1>14, <1>15
        DEF IInv, InCall, OnlyZeroTokensExhaust, step

\* One token takes one block.
LEMMA BlocksForOne == BlocksFor(1) = 1
<1>1. /\ BlocksFor(1) \in Nat /\ 1 <= BlockSize * BlocksFor(1)
      /\ BlockSize * BlocksFor(1) < 1 + BlockSize
  BY BlocksForCeiling
<1>2. BlocksFor(1) # 0
  BY <1>1, PoolAssumption
<1>3. ~(1 < BlocksFor(1))
  <2>1. SUFFICES ASSUME 1 < BlocksFor(1) PROVE FALSE
    OBVIOUS
  <2>2. BlockSize * 1 + BlockSize <= BlockSize * BlocksFor(1)
    BY <1>1, <2>1, MulStep, PoolAssumption
  <2> QED BY <1>1, <2>2, PoolAssumption
<1> QED BY <1>1, <1>2, <1>3

\* Once the pad block is reserved, the running requests' blocks and the free ones are
\* usable_blocks.
LEMMA HeldAndFree ==
    ASSUME TypeOK, PoolInv, Queued, pc # "capture"
    PROVE  /\ Cardinality(Pairs(Running, Lengths)) \in Nat
           /\ NumFree + Cardinality(Pairs(Running, Lengths)) = Usable
           /\ NumFree \in Nat /\ Usable \in Int
<1>1. /\ Cardinality(Pairs(Running, Lengths)) \in Nat /\ Lengths[Pad] \in Nat
      /\ NumFree + Cardinality(Pairs(Running, Lengths)) + Lengths[Pad] = NumBlocks
  <2>1. live \subseteq Running \cup {Pad}
    BY DEF Queued, PadIds
  <2> QED BY <2>1, Members, FreeAndHeld
<1>2. Lengths[Pad] = IF Graphs THEN 1 ELSE 0
  <2>1. Lengths[Pad] = BlocksFor(seq_len[Pad])
    BY LengthsType, Members
  <2>2. CASE Graphs
    BY <2>1, <2>2, BlocksForOne DEF Queued, PadIds
  <2>3. CASE ~Graphs
    <3>1. Pad \notin live
      BY <2>3, Members DEF Queued, PadIds
    <3>2. seq_len[Pad] = 0
      BY <3>1, Members DEF PoolInv, TablesSized
    <3> QED BY <2>1, <2>3, <3>2, BlocksForZero
  <2> QED BY <2>2, <2>3
<1>3. NumFree \in Nat /\ Usable \in Int
  BY PoolAssumption DEF NumFree, PoolInv, PoolTypeOK, Usable
<1> DEFINE c == Cardinality(Pairs(Running, Lengths))
<1>4. /\ c \in Nat /\ NumFree \in Nat /\ Lengths[Pad] = IF Graphs THEN 1 ELSE 0
      /\ NumFree + c + Lengths[Pad] = NumBlocks
  BY <1>1, <1>2, <1>3
<1> HIDE DEF c
<1>5. NumFree + c = Usable
  BY <1>4, PoolAssumption DEF Usable
<1> QED BY <1>1, <1>3, <1>5 DEF c

\* The promises to the running requests are finitely many.
LEMMA PromisesFinite ==
    ASSUME TypeOK, NEW S \in SUBSET Request
    PROVE  /\ \A r \in S : Promises[r] \in Nat
           /\ IsFiniteSet(S) /\ Cardinality(Pairs(S, Promises)) \in Nat
<1>1. \A r \in S : Promises[r] \in Nat
  BY PromisesType DEF TypeOK
<1>2. IsFiniteSet(S)
  BY IdFinite, FS_Subset
<1> QED BY <1>1, <1>2, PairsFinite

LEMMA BeginStepKeeps ==
    ASSUME IInv, BeginStep
    PROVE  IInv'
<1>1. /\ TypeOK /\ PoolInv /\ Queued /\ Locals /\ Counted /\ Treed /\ Reserved /\ Budgeted
      /\ pc = "idle" /\ pc' = "admit" /\ batch' = running /\ headroom' = Headroom
      /\ UNCHANGED <<pool, sched, admitted, todo, alive, ext, next_id, updates, asked>>
  BY DEF IInv, InCall, BeginStep
<1>2. PoolInv'
  BY <1>1, PoolUnchanged
<1>3. Headroom = Usable - Cardinality(Pairs(Running, Promises)) /\ Headroom \in Int
  <2> DEFINE h == Cardinality(Pairs(Running, Lengths))
             p == Cardinality(Pairs(Running, Promises))
  <2>1. Headroom = NumFree - (p - h)
    BY Members, <1>1, SumsArePairs DEF Headroom, Running
  <2>2. h \in Nat /\ NumFree \in Nat /\ NumFree + h = Usable /\ p \in Nat
    BY <1>1, HeldAndFree, PromisesFinite, Members
  <2> HIDE DEF h, p
  <2>3. Headroom = Usable - p /\ Headroom \in Int
    BY <2>1, <2>2
  <2> QED BY <2>3 DEF p
<1>4. TypeOK'
  BY <1>1, <1>2, <1>3 DEF TypeOK, SchedTypeOK, sched, request, PoolInv, Phase
<1>5. Queued'
  BY <1>1 DEF Queued, PadIds, Running, pool, sched, request
<1>6. /\ Running' = Running /\ Batch' = Running /\ Admitted' = {}
      /\ Newly = {} /\ Newly' = {} /\ Pending' = Running
  BY <1>1, EmptyQueue DEF Running, Batch, Admitted, Locals, Newly, Pending, sched
<1>7. Locals'
  <2>1. running' = batch' \o admitted'
    BY <1>1, ConcatQueue DEF Locals, sched, TypeOK, SchedTypeOK
  <2>2. IsInjective(batch') /\ IsInjective(admitted')
    BY <1>1, EmptyQueue DEF Queued, Locals
  <2>3. alive' = << >>
    BY <1>1 DEF Locals
  <2> QED BY <1>1, <1>6, <2>1, <2>2, <2>3 DEF Locals
<1>8. Counted' /\ Treed' /\ Reserved'
  BY <1>1, <1>6 DEF Counted, CountedFor, Treed, Reserved, Taken, sched, request, pool
<1>9. Budgeted'
  BY <1>1, <1>3, <1>6, SamePromises DEF Budgeted, sched, request, Usable
<1> QED BY <1>1, <1>2, <1>4, <1>5, <1>7, <1>8, <1>9 DEF IInv, InCall, OnlyZeroTokensExhaust

LEMMA AdmitKeeps ==
    ASSUME IInv, Admit
    PROVE  IInv'
<1> DEFINE h == Head(waiting)
<1>1. /\ TypeOK /\ PoolInv /\ Queued /\ Locals /\ Counted /\ Treed /\ Reserved /\ Budgeted
      /\ pc = "admit" /\ HeadFits /\ AdmitRequest(h)
      /\ headroom' = headroom - MaxBlocks(h) /\ admitted' = Append(admitted, h)
      /\ UNCHANGED <<pc, batch, todo, alive, ext, next_id, updates, asked>>
  BY DEF IInv, InCall, Admit
<1>2. /\ waiting' = Tail(waiting) /\ Alloc(h, prompt[h]) /\ running' = Append(running, h)
      /\ state' = [state EXCEPT ![h] = "running"]
      /\ UNCHANGED <<prompt, out, max_tokens, committed, tree>>
      /\ waiting # << >> /\ Len(running) # MaxRunning /\ MaxBlocks(h) <= headroom
  BY <1>1 DEF AdmitRequest, HeadFits, MayAdmit
<1>3. /\ h \in Request /\ h \in ToSet(waiting) /\ waiting' \in Seq(Request)
      /\ IsInjective(waiting') /\ ToSet(waiting') = ToSet(waiting) \ {h}
  BY <1>1, <1>2, TailQueue DEF TypeOK, SchedTypeOK, Queued
<1>4. state[h] = "waiting" /\ h \notin Running /\ h \in Id /\ h # Pad
  BY <1>1, <1>3, Members DEF Queued
<1>5. prompt[h] \in Nat /\ max_tokens[h] \in Nat /\ MaxBlocks(h) \in Nat /\ Promises[h] = MaxBlocks(h)
  BY <1>1, <1>3, PromisesType DEF TypeOK, SchedTypeOK
<1>6. PoolInv'
  BY <1>1, <1>2, <1>4, <1>5, AllocKeepsInv
<1>7. /\ running' \in Seq(Request) /\ Len(running') = Len(running) + 1
      /\ Running' = Running \cup {h} /\ IsInjective(running')
  <2>1. running \in Seq(Request) /\ IsInjective(running) /\ h \notin ToSet(running)
    BY <1>1, <1>4 DEF TypeOK, SchedTypeOK, Queued, Running
  <2>2. /\ Append(running, h) \in Seq(Request) /\ Len(Append(running, h)) = Len(running) + 1
        /\ ToSet(Append(running, h)) = ToSet(running) \cup {h}
        /\ IsInjective(Append(running, h))
    BY <1>3, <2>1, AppendQueue
  <2> QED BY <1>2, <2>2 DEF Running
<1>8. /\ Batch \cap Admitted = {} /\ IsInjective(admitted) /\ IsInjective(batch)
      /\ Running = Batch \cup Admitted /\ running = batch \o admitted
  <2>1. batch \in Seq(Request) /\ admitted \in Seq(Request) /\ running = batch \o admitted
        /\ Batch \cap Admitted = {} /\ IsInjective(admitted) /\ IsInjective(batch)
    BY <1>1 DEF Locals, TypeOK
  <2>2. ToSet(running) = ToSet(batch) \cup ToSet(admitted)
    BY <2>1, ConcatQueue
  <2> QED BY <2>1, <2>2 DEF Running, Batch, Admitted
<1>9. /\ admitted' \in Seq(Request) /\ Admitted' = Admitted \cup {h} /\ IsInjective(admitted')
  <2>1. admitted \in Seq(Request) /\ h \notin ToSet(admitted)
    BY <1>1, <1>4, <1>8 DEF TypeOK, Admitted
  <2> QED BY <1>1, <1>3, <1>8, <2>1, AppendQueue DEF Admitted
<1>10. TypeOK'
  <2>1. SchedTypeOK'
    BY <1>1, <1>2, <1>3, <1>7 DEF TypeOK, SchedTypeOK, State
  <2>2. headroom' \in Int
    BY <1>1, <1>5 DEF TypeOK
  <2> QED BY <1>1, <1>6, <1>9, <2>1, <2>2 DEF TypeOK, PoolInv
<1>11. /\ \A r \in Request \ {h} : state'[r] = state[r] /\ seq_len'[r] = seq_len[r]
       /\ seq_len'[Pad] = seq_len[Pad] /\ state'[h] = "running" /\ seq_len'[h] = prompt[h]
       /\ live' = live \cup {h}
  BY <1>1, <1>2, <1>3, <1>4, Members DEF Alloc, TypeOK, SchedTypeOK, PoolTypeOK
<1>12. Queued'
  <2>1. ToSet(waiting') = {r \in Request : state'[r] = "waiting"}
    BY <1>1, <1>3, <1>11 DEF Queued
  <2>2. Running' = {r \in Request : state'[r] = "running"}
    BY <1>1, <1>3, <1>7, <1>11 DEF Queued
  <2>3. \A r \in Request : r >= next_id' => state'[r] = "new"
    BY <1>1, <1>3, <1>4, <1>11 DEF Queued
  <2>4. MaxRunning # NoLimit => Len(running') <= MaxRunning
    BY <1>1, <1>2, <1>7, SchedulerAssumption DEF Queued, NoLimit, TypeOK, SchedTypeOK
  <2> QED BY <1>1, <1>3, <1>7, <1>11, <2>1, <2>2, <2>3, <2>4 DEF Queued, PadIds
<1>13. Locals'
  <2>1. running' = batch \o admitted'
    <3>1. batch \in Seq(Request) /\ admitted \in Seq(Request) /\ <<h>> \in Seq(Request)
      BY <1>1, <1>3 DEF TypeOK
    <3>2. running' = (batch \o admitted) \o <<h>>
      <4>1. running \in Seq(Request)
        BY <1>1 DEF TypeOK, SchedTypeOK
      <4>2. Append(running, h) = running \o <<h>>
        BY <1>3, <4>1, AppendIsConcat
      <4> QED BY <1>2, <1>8, <4>2
    <3>3. admitted' = admitted \o <<h>>
      BY <1>1, <1>3, <3>1, AppendIsConcat
    <3> QED BY <3>1, <3>2, <3>3, ConcatAssociative
  <2>2. Batch' = Batch /\ Batch \cap Admitted' = {}
    BY <1>1, <1>4, <1>8, <1>9 DEF Batch
  <2>3. alive' = << >>
    BY <1>1 DEF Locals
  <2> QED BY <1>1, <1>8, <1>9, <2>1, <2>2, <2>3 DEF Locals
<1>14. /\ Pending = Running /\ Pending' = Running' /\ Newly = Admitted
       /\ Newly' = Newly \cup {h} /\ h \notin Newly /\ Newly \subseteq Request
  BY <1>1, <1>4, <1>7, <1>8, <1>9, Members DEF Pending, Newly
<1>15. Counted'
  <2>1. /\ committed[h] = 0 /\ tree[h] = NoTree
        /\ out[h] < max_tokens[h] \/ max_tokens[h] = 0
        /\ max_tokens[h] \in MaxTokens
    BY <1>1, <1>3, <1>4 DEF Counted, CountedFor
  <2> SUFFICES ASSUME NEW r \in Request PROVE CountedFor(r)'
    BY DEF Counted
  <2>2. CASE r = h
    BY <1>2, <1>11, <1>14, <2>1, <2>2 DEF CountedFor
  <2>3. CASE r # h
    BY <1>1, <1>2, <1>7, <1>11, <1>14, <2>3 DEF Counted, CountedFor
  <2> QED BY <2>2, <2>3
<1>16. Treed'
  <2>1. tree[h] = NoTree /\ NoTree <= NumDraft
    BY <1>1, <1>3, <1>4, EngineAssumption DEF Counted, CountedFor, NoTree, NumDraft
  <2> QED BY <1>1, <1>2, <1>7, <1>14, <2>1 DEF Treed
<1>17. Reserved'
  <2> SUFFICES ASSUME NEW r \in Running'
               PROVE  seq_len'[r] = (IF r \in Newly' THEN prompt'[r] ELSE committed'[r]) + Taken(r)'
    BY DEF Reserved
  <2>1. CASE r = h
    BY <1>1, <1>2, <1>5, <1>11, <1>14, <2>1 DEF Taken
  <2>2. CASE r # h
    BY <1>1, <1>2, <1>7, <1>11, <1>14, <2>2, Members DEF Reserved, Taken
  <2> QED BY <2>1, <2>2
<1>18. Budgeted'
  <2>1. Promises' = Promises
    BY <1>2, SamePromises
  <2>2. /\ IsFiniteSet(Running) /\ \A r \in Running \cup {h} : Promises[r] \in Nat
        /\ Cardinality(Pairs(Running, Promises)) \in Nat
    BY <1>1, <1>5, PromisesFinite, Members
  <2>3. Cardinality(Pairs(Running \cup {h}, Promises)) = Cardinality(Pairs(Running, Promises)) + Promises[h]
    BY <1>4, <2>2, PairsAdd
  <2> DEFINE a == Cardinality(Pairs(Running, Promises))
             b == Cardinality(Pairs(Running \cup {h}, Promises))
  <2>4. a \in Nat /\ b = a + MaxBlocks(h) /\ headroom = Usable - a /\ Usable \in Int
    BY <1>1, <1>5, <2>2, <2>3, PoolAssumption DEF Budgeted, Usable
  <2> HIDE DEF a, b
  <2>5. b <= Usable /\ headroom' = Usable - b
    BY <1>1, <1>2, <1>5, <2>4, SMTT(30)
  <2> QED BY <1>1, <1>7, <2>1, <2>5 DEF Budgeted, b, Usable
<1> QED BY <1>1, <1>6, <1>10, <1>12, <1>13, <1>15, <1>16, <1>17, <1>18
        DEF IInv, InCall, OnlyZeroTokensExhaust

\* A step that returns leaves its locals empty.
LEMMA ReturnTyped ==
    ASSUME ReturnFromStep
    PROVE  /\ pc' \in Phase /\ headroom' \in Int
           /\ batch' \in Seq(Request) /\ admitted' \in Seq(Request)
           /\ todo' \in Seq(Request) /\ alive' \in Seq(Request)
<1>1. << >> \in Seq(Request)
  OBVIOUS
<1> QED BY <1>1 DEF ReturnFromStep, Phase

LEMMA StepIsEmptyKeeps ==
    ASSUME IInv, StepIsEmpty
    PROVE  IInv'
<1>1. /\ TypeOK /\ PoolInv /\ Queued /\ Locals /\ Counted /\ Treed /\ Reserved /\ Budgeted
      /\ pc = "admit" /\ batch = << >> /\ admitted = << >> /\ ReturnFromStep
      /\ UNCHANGED <<pool, sched, ext, next_id, updates, asked>>
  BY DEF IInv, InCall, StepIsEmpty
<1>2. PoolInv'
  BY <1>1, PoolUnchanged
<1>3. TypeOK'
  BY <1>1, <1>2, ReturnTyped DEF TypeOK, SchedTypeOK, sched, request, PoolInv
<1>4. Queued'
  BY <1>1 DEF Queued, PadIds, Running, pool, sched, request, ReturnFromStep
<1>5. running = << >>
  <2>1. batch \o admitted = << >>
    BY <1>1
  <2> QED BY <1>1, <2>1 DEF Locals
<1>6. Running = {} /\ Running' = {} /\ Newly = {} /\ Newly' = {}
  BY <1>1, <1>5, EmptyQueue DEF Running, sched, Newly, Pending, ReturnFromStep
<1>7. Locals'
  BY <1>1 DEF Locals, ReturnFromStep
<1>8. Counted' /\ Treed' /\ Reserved'
  <2>1. Counted'
    BY <1>1, <1>6 DEF Counted, CountedFor, sched, request
  <2> QED BY <1>6, <2>1 DEF Treed, Reserved
<1>9. Budgeted'
  BY <1>1, <1>6, SamePromises DEF Budgeted, sched, request, Usable, ReturnFromStep
<1> QED BY <1>1, <1>2, <1>3, <1>4, <1>7, <1>8, <1>9
        DEF IInv, InCall, OnlyZeroTokensExhaust, ReturnFromStep

\* The running list of a step is its batch and the requests it admitted.
LEMMA StepRuns ==
    ASSUME TypeOK, Locals, pc \in {"admit", "reserve"}
    PROVE  /\ Running = Batch \cup Admitted /\ Batch \cap Admitted = {}
           /\ Pending = Running /\ Newly = Admitted
<1>1. batch \in Seq(Request) /\ admitted \in Seq(Request) /\ running = batch \o admitted
      /\ Batch \cap Admitted = {}
  BY DEF TypeOK, Locals
<1>2. ToSet(running) = ToSet(batch) \cup ToSet(admitted)
  BY <1>1, ConcatQueue
<1>3. Running = Batch \cup Admitted
  BY <1>1, <1>2 DEF Running, Batch, Admitted
<1> QED BY <1>1, <1>3 DEF Pending, Newly

LEMMA BeginRunKeeps ==
    ASSUME IInv, BeginRun
    PROVE  IInv'
<1>1. /\ TypeOK /\ PoolInv /\ Queued /\ Locals /\ Counted /\ Treed /\ Reserved /\ Budgeted
      /\ pc = "admit" /\ pc' = "reserve"
      /\ todo' = IF Depth = 0 THEN batch ELSE admitted
      /\ UNCHANGED <<pool, sched, batch, admitted, headroom, alive, ext, next_id, updates, asked>>
  BY DEF IInv, InCall, BeginRun
<1>2. PoolInv'
  BY <1>1, PoolUnchanged
<1>3. TypeOK'
  BY <1>1, <1>2 DEF TypeOK, SchedTypeOK, sched, request, PoolInv, Phase
<1>4. Queued'
  BY <1>1 DEF Queued, PadIds, Running, pool, sched, request
<1>5. /\ Running = Batch \cup Admitted /\ Batch \cap Admitted = {}
      /\ Pending = Running /\ Newly = Admitted
  BY <1>1, StepRuns
<1>6. /\ Running' = Running /\ Batch' = Batch /\ Admitted' = Admitted
      /\ Pending' = Running /\ Newly' = Newly
      /\ Todo' = IF Depth = 0 THEN Batch ELSE Admitted
  BY <1>1, <1>5 DEF Running, Batch, Admitted, Todo, Pending, Newly, sched
<1>7. Locals'
  BY <1>1, <1>6 DEF Locals, sched
<1>8. Counted' /\ Treed'
  BY <1>1, <1>5, <1>6 DEF Counted, CountedFor, Treed, sched, request
<1>9. Reserved'
  BY <1>1, <1>5, <1>6, EngineAssumption DEF Reserved, Taken, Extra, pool, sched, request
<1>10. Budgeted'
  BY <1>1, <1>6, SamePromises DEF Budgeted, sched, request, Usable
<1> QED BY <1>1, <1>2, <1>3, <1>4, <1>7, <1>8, <1>9, <1>10
        DEF IInv, InCall, OnlyZeroTokensExhaust

\* What append does to the reservations.
LEMMA AppendReserves ==
    ASSUME PoolInv, NEW h \in Id, NEW n \in Nat, AppendTokens(h, n)
    PROVE  /\ seq_len'[h] = seq_len[h] + n /\ live' = live
           /\ \A r \in Id \ {h} : seq_len'[r] = seq_len[r]
  BY DEF PoolInv, PoolTypeOK, AppendTokens

LEMMA SlotsType == Slots \in Nat /\ NumDraft \in Nat /\ (Depth = 0 => Slots = 1 /\ NumDraft = 0)
<1>1. NumDraft \in Nat /\ (Depth = 0 => NumDraft = 0)
  BY EngineAssumption DEF NumDraft
<1> QED BY <1>1 DEF Slots

LEMMA ReserveKeeps ==
    ASSUME IInv, Reserve
    PROVE  IInv'
<1> DEFINE h == Head(todo)
<1>1. /\ TypeOK /\ PoolInv /\ Queued /\ Locals /\ Counted /\ Treed /\ Reserved /\ Budgeted
      /\ pc = "reserve" /\ todo # << >> /\ AppendTokens(h, Slots) /\ todo' = Tail(todo)
      /\ UNCHANGED <<sched, pc, batch, admitted, headroom, alive, ext, next_id, updates, asked>>
  BY DEF IInv, InCall, Reserve
<1>2. /\ Running = Batch \cup Admitted /\ Batch \cap Admitted = {}
      /\ Pending = Running /\ Newly = Admitted
  BY <1>1, StepRuns
<1>3. /\ h \in Request /\ h \in Todo /\ todo' \in Seq(Request)
      /\ IsInjective(todo') /\ Todo' = Todo \ {h}
      /\ Todo \subseteq IF Depth = 0 THEN Batch ELSE Admitted
  BY <1>1, TailQueue DEF TypeOK, Locals, Todo
<1>4. h \in Running /\ h \in Id /\ h # Pad /\ Slots \in Nat /\ Running \subseteq Id /\ Pad \in Id
  BY <1>1, <1>2, <1>3, Members, SlotsType
<1>5. /\ seq_len'[h] = seq_len[h] + Slots /\ live' = live
      /\ \A r \in Id \ {h} : seq_len'[r] = seq_len[r]
  BY <1>1, <1>4, AppendReserves
<1>6. PoolInv'
  BY <1>1, <1>4, AppendKeepsInv
<1>7. TypeOK'
  BY <1>1, <1>3, <1>6 DEF TypeOK, SchedTypeOK, sched, request, PoolInv
<1>8. Queued'
  BY <1>1, <1>4, <1>5 DEF Queued, PadIds, Running, sched, request
<1>9. /\ Running' = Running /\ Batch' = Batch /\ Admitted' = Admitted
      /\ Pending' = Running /\ Newly' = Newly
  BY <1>1, <1>2 DEF Running, Batch, Admitted, Pending, Newly, sched
<1>10. Locals'
  BY <1>1, <1>3, <1>9 DEF Locals, sched
<1>11. Counted' /\ Treed'
  BY <1>1, <1>2, <1>9 DEF Counted, CountedFor, Treed, sched, request
<1>12. Reserved'
  <2> SUFFICES ASSUME NEW r \in Running
               PROVE  seq_len'[r] = (IF r \in Newly THEN prompt[r] ELSE committed[r]) + Taken(r)'
    BY <1>1, <1>9 DEF Reserved, sched, request
  <2>1. seq_len[r] = (IF r \in Newly THEN prompt[r] ELSE committed[r]) + Taken(r)
    BY <1>1 DEF Reserved
  <2>2. CASE r = h
    <3>1. Taken(r) = 0
      BY <1>1, <1>3, <2>2 DEF Taken
    <3>2. Taken(r)' = Slots
      BY <1>1, <1>2, <1>3, <1>4, <1>9, <2>2, EngineAssumption DEF Taken, Extra
    <3>3. prompt[r] \in Nat /\ committed[r] \in Nat
      BY <1>1, <1>3, <2>2 DEF TypeOK, SchedTypeOK
    <3> QED BY <1>4, <1>5, <2>1, <2>2, <3>1, <3>2, <3>3
  <2>3. CASE r # h
    <3>1. Taken(r)' = Taken(r)
      BY <1>1, <1>2, <1>3, <1>9, <2>3 DEF Taken, Extra
    <3> QED BY <1>4, <1>5, <2>1, <2>3, <3>1
  <2> QED BY <2>2, <2>3
<1>13. Budgeted'
  BY <1>1, <1>9, SamePromises DEF Budgeted, sched, request, Usable
<1> QED BY <1>1, <1>6, <1>7, <1>8, <1>10, <1>11, <1>12, <1>13
        DEF IInv, InCall, OnlyZeroTokensExhaust

LEMMA ForwardKeeps ==
    ASSUME IInv, Forward
    PROVE  IInv'
<1>1. /\ TypeOK /\ PoolInv /\ Queued /\ Locals /\ Counted /\ Treed /\ Reserved /\ Budgeted
      /\ pc = "reserve" /\ todo = << >> /\ pc' = "accept" /\ todo' = batch \o admitted
      /\ UNCHANGED <<pool, sched, batch, admitted, headroom, alive, ext, next_id, updates, asked>>
  BY DEF IInv, InCall, Forward
<1>2. PoolInv'
  BY <1>1, PoolUnchanged
<1>3. todo' = running /\ todo' \in Seq(Request) /\ Todo' = Running
  BY <1>1 DEF Locals, TypeOK, SchedTypeOK, Todo, Running
<1>4. TypeOK'
  BY <1>1, <1>2, <1>3 DEF TypeOK, SchedTypeOK, sched, request, PoolInv, Phase
<1>5. Queued'
  BY <1>1 DEF Queued, PadIds, Running, pool, sched, request
<1>6. /\ Pending = Running /\ Newly = Admitted /\ Todo = {}
  BY <1>1, StepRuns, EmptyQueue DEF Todo
<1>7. /\ Running' = Running /\ Admitted' = Admitted /\ Alive' = {}
      /\ Pending' = Running /\ Newly' = Newly
  BY <1>1, <1>3, <1>6, EmptyQueue DEF Running, Admitted, Pending, Newly, sched, Alive, Locals
<1>8. Locals'
  BY <1>1, <1>3, <1>7 DEF Locals, sched, Queued
<1>9. Counted' /\ Treed'
  BY <1>1, <1>6, <1>7 DEF Counted, CountedFor, Treed, sched, request
<1>10. Reserved'
  BY <1>1, <1>6, <1>7, EngineAssumption DEF Reserved, Taken, Extra, pool, sched, request
<1>11. Budgeted'
  BY <1>1, <1>7, SamePromises DEF Budgeted, sched, request, Usable
<1> QED BY <1>1, <1>2, <1>4, <1>5, <1>8, <1>9, <1>10, <1>11
        DEF IInv, InCall, OnlyZeroTokensExhaust

----------------------------------------------------------------------------
\* The request _accept visits next.
LEMMA Visits ==
    ASSUME TypeOK, Locals, pc \in {"accept", "regrow", "restart"}, todo # << >>
    PROVE  /\ Head(todo) \in Request /\ Head(todo) \in Running /\ Head(todo) \in Todo
           /\ Head(todo) \in Id /\ Head(todo) # Pad
           /\ Tail(todo) \in Seq(Request) /\ IsInjective(Tail(todo))
           /\ ToSet(Tail(todo)) = Todo \ {Head(todo)} /\ Todo \subseteq Running
<1>1. todo \in Seq(Request) /\ IsInjective(todo) /\ Todo \subseteq Running
  BY DEF TypeOK, Locals
<1>2. /\ Head(todo) \in Request /\ Head(todo) \in Todo /\ Tail(todo) \in Seq(Request)
      /\ IsInjective(Tail(todo)) /\ ToSet(Tail(todo)) = Todo \ {Head(todo)}
  BY <1>1, TailQueue DEF Todo
<1> QED BY <1>1, <1>2, Members

\* The tokens h accepts and emits.
LEMMA AcceptCounts ==
    ASSUME TypeOK, NEW h \in Request, NEW a \in 0 .. Deepest(h), NEW k \in 1 .. (a + 1),
           NEW done, AcceptTokens(h, a, k, done)
    PROVE  /\ a \in Nat /\ k \in Nat /\ (tree[h] = NoTree => a = 0)
           /\ out' \in [Request -> Nat] /\ committed' \in [Request -> Nat]
           /\ out'[h] = out[h] + k
           /\ committed'[h] = committed[h] + IF tree[h] # NoTree THEN a + 1 ELSE Span(h)
           /\ \A r \in Request \ {h} : out'[r] = out[r] /\ committed'[r] = committed[r]
           /\ UNCHANGED <<prompt, max_tokens, tree, waiting>>
           /\ Span(h) \in Nat
<1>1. /\ out \in [Request -> Nat] /\ committed \in [Request -> Nat]
      /\ tree[h] \in Nat /\ Span(h) \in Nat
  BY DEF TypeOK, SchedTypeOK, Span
<1>2. Deepest(h) \in Int /\ (tree[h] = NoTree => Deepest(h) <= 0)
  <2>1. tree[h] \div TopK \in Int /\ TopK * (tree[h] \div TopK) <= tree[h]
    <3>1. tree[h] \in Int /\ TopK \in Nat \ {0}
      BY <1>1, EngineAssumption
    <3> QED BY <3>1, FloorDiv
  <2>2. ASSUME tree[h] = 0, 0 < tree[h] \div TopK PROVE FALSE
    <3>1. TopK * 0 + TopK <= TopK * (tree[h] \div TopK)
      BY <2>1, <2>2, MulStep, EngineAssumption
    <3> QED BY <2>1, <2>2, <3>1, EngineAssumption
  <2> QED BY <2>1, <2>2 DEF Deepest, NoTree
<1>3. a \in Nat /\ k \in Nat /\ (tree[h] = NoTree => a = 0)
  BY <1>2
<1> DEFINE c == IF tree[h] # NoTree THEN a + 1 ELSE Span(h)
<1>4. c \in Nat
  BY <1>1, <1>3
<1>5. out' = [out EXCEPT ![h] = @ + k] /\ committed' = [committed EXCEPT ![h] = @ + c]
      /\ UNCHANGED <<prompt, max_tokens, tree, waiting>>
  BY DEF AcceptTokens
<1> HIDE DEF c
<1>6. /\ out' \in [Request -> Nat] /\ committed' \in [Request -> Nat]
      /\ out'[h] = out[h] + k /\ committed'[h] = committed[h] + c
      /\ \A r \in Request \ {h} : out'[r] = out[r] /\ committed'[r] = committed[r]
  BY <1>1, <1>3, <1>4, <1>5
<1> QED BY <1>1, <1>3, <1>5, <1>6 DEF c

\* Taking h off the running list and its blocks back.
LEMMA Leaves ==
    ASSUME TypeOK, PoolInv, Queued, NEW h \in Running, FreeTable(h),
           running' = Without(running, h)
    PROVE  /\ PoolInv' /\ running' \in Seq(Request) /\ IsInjective(running')
           /\ Running' = Running \ {h} /\ Len(running') <= Len(running)
           /\ live' = live \ {h} /\ h # Pad
           /\ \A r \in Id \ {h} : seq_len'[r] = seq_len[r]
<1>1. h \in Request /\ h \in Id /\ h # Pad
  BY Members
<1>2. PoolInv'
  BY <1>1, FreeKeepsInv
<1>3. running \in Seq(Request) /\ IsInjective(running) /\ h \in ToSet(running)
  BY DEF TypeOK, SchedTypeOK, Queued, Running
<1>4. /\ Without(running, h) \in Seq(Request) /\ Len(Without(running, h)) = Len(running) - 1
      /\ ToSet(Without(running, h)) = ToSet(running) \ {h} /\ IsInjective(Without(running, h))
  BY <1>3, RemoveQueue
<1>5. Len(running) - 1 <= Len(running)
  BY <1>3
<1>6. live' = live \ {h} /\ \A r \in Id \ {h} : seq_len'[r] = seq_len[r]
  BY <1>1 DEF FreeTable, PoolInv, PoolTypeOK
<1> QED BY <1>1, <1>2, <1>4, <1>5, <1>6 DEF Running

\* What remains promised when requests leave.
LEMMA FewerPromises ==
    ASSUME TypeOK, Budgeted, NEW S \in SUBSET Running, NEW f, \A r \in S : f[r] = Promises[r]
    PROVE  Cardinality(Pairs(S, f)) <= Usable
<1>1. Running \in SUBSET Request /\ S \in SUBSET Request
  BY Members
<1>2. /\ IsFiniteSet(Running) /\ \A r \in Running : Promises[r] \in Nat
      /\ Cardinality(Pairs(Running, Promises)) \in Nat
      /\ Cardinality(Pairs(S, Promises)) \in Nat
  BY <1>1, PromisesFinite
<1>3. \A r \in S : Promises[r] <= Promises[r]
  BY <1>2
<1>4. Cardinality(Pairs(S, Promises)) <= Cardinality(Pairs(Running, Promises))
  BY <1>2, <1>3, PairsMonotone
<1>5. Pairs(S, f) = Pairs(S, Promises)
  BY PairsSame
<1> DEFINE x == Cardinality(Pairs(S, Promises))
           y == Cardinality(Pairs(Running, Promises))
<1>6. x \in Nat /\ y \in Nat /\ x <= y /\ y <= Usable /\ Usable \in Int
  BY <1>2, <1>4, PoolAssumption DEF Budgeted, Usable
<1> HIDE DEF x, y
<1>7. x <= Usable
  BY <1>6
<1> QED BY <1>5, <1>7 DEF x

LEMMA AcceptDoneKeeps ==
    ASSUME IInv, AcceptDone
    PROVE  IInv'
<1> DEFINE h == Head(todo)
<1>1. /\ TypeOK /\ PoolInv /\ Queued /\ Locals /\ Counted /\ Treed /\ Reserved /\ Budgeted
      /\ pc = "accept" /\ todo # << >> /\ Finish(h) /\ todo' = Tail(todo)
      /\ UNCHANGED <<pc, batch, admitted, headroom, alive, ext, next_id, updates, asked>>
  BY DEF IInv, InCall, AcceptDone, InAccept
<1>2. PICK a \in 0 .. Deepest(h) : \E k \in 1 .. (a + 1) : AcceptTokens(h, a, k, TRUE)
  BY DEF AcceptDone
<1>3. PICK k \in 1 .. (a + 1) : AcceptTokens(h, a, k, TRUE)
  BY <1>2
<1>4. /\ h \in Request /\ h \in Running /\ h \in Todo
      /\ todo' \in Seq(Request) /\ IsInjective(todo')
      /\ Todo' = Todo \ {h} /\ Todo \subseteq Running
  BY <1>1, Visits DEF Todo
<1>5. /\ out' \in [Request -> Nat] /\ committed' \in [Request -> Nat]
      /\ \A r \in Request \ {h} : out'[r] = out[r] /\ committed'[r] = committed[r]
      /\ UNCHANGED <<prompt, max_tokens, tree, waiting>>
  BY <1>1, <1>3, <1>4, AcceptCounts
<1>6. FreeTable(h) /\ running' = Without(running, h) /\ state' = [state EXCEPT ![h] = "done"]
  BY <1>1 DEF Finish
<1>7. /\ PoolInv' /\ running' \in Seq(Request) /\ IsInjective(running')
      /\ Running' = Running \ {h} /\ Len(running') <= Len(running)
      /\ live' = live \ {h} /\ h # Pad
      /\ \A r \in Id \ {h} : seq_len'[r] = seq_len[r]
  BY <1>1, <1>4, <1>6, Leaves
<1>8. /\ state' \in [Request -> State] /\ state'[h] = "done" /\ state[h] = "running"
      /\ \A r \in Request \ {h} : state'[r] = state[r]
  BY <1>1, <1>4, <1>6 DEF TypeOK, SchedTypeOK, State, Queued
<1>9. TypeOK'
  BY <1>1, <1>4, <1>5, <1>7, <1>8 DEF TypeOK, SchedTypeOK, PoolInv
<1>10. Queued'
  <2>1. /\ ToSet(waiting') = {r \in Request : state'[r] = "waiting"}
        /\ Running' = {r \in Request : state'[r] = "running"}
        /\ \A r \in Request : r >= next_id' => state'[r] = "new"
    BY <1>1, <1>4, <1>5, <1>7, <1>8, ZenonT(30) DEF Queued
  <2>2. live' = Running' \cup PadIds' /\ (PadIds' # {} => seq_len'[Pad] = 1)
    BY <1>1, <1>7, Members DEF Queued, PadIds
  <2>3. MaxRunning # NoLimit => Len(running') <= MaxRunning
    BY <1>1, <1>7, SchedulerAssumption DEF Queued, TypeOK, SchedTypeOK, NoLimit
  <2> QED BY <1>1, <1>5, <1>7, <2>1, <2>2, <2>3 DEF Queued
<1>11. Pending = Todo /\ Pending' = Todo \ {h} /\ Admitted' = Admitted /\ Newly' = Newly \ {h}
  BY <1>1, <1>4 DEF Pending, Newly, Admitted
<1>12. Locals'
  BY <1>1, <1>4, <1>7 DEF Locals, Alive
<1>13. Counted'
  <2> SUFFICES ASSUME NEW r \in Request PROVE CountedFor(r)'
    BY DEF Counted
  <2>1. CASE r = h
    BY <1>1, <1>4, <1>5, <1>7, <1>8, <1>11, <2>1 DEF Counted, CountedFor
  <2>2. CASE r # h
    BY <1>1, <1>4, <1>5, <1>7, <1>8, <1>11, <2>2 DEF Counted, CountedFor
  <2> QED BY <2>1, <2>2
<1>14. Treed'
  BY <1>1, <1>5, <1>7, <1>11 DEF Treed
<1>15. Reserved'
  <2> SUFFICES ASSUME NEW r \in Running, r # h
               PROVE  seq_len'[r] = (IF r \in Newly' THEN prompt'[r] ELSE committed'[r]) + Taken(r)'
    BY <1>7 DEF Reserved
  <2>1. Taken(r)' = Taken(r)
    BY <1>1, <1>11 DEF Taken, Extra
  <2>2. r \in Request /\ r \in Id
    BY <1>1, Members
  <2> QED BY <1>1, <1>5, <1>7, <1>11, <2>1, <2>2 DEF Reserved
<1>16. Budgeted'
  <2>1. Running' \in SUBSET Running /\ Promises' = Promises
    BY <1>5, <1>7, SamePromises
  <2> QED BY <1>1, <2>1, FewerPromises DEF Budgeted, Usable
<1> QED BY <1>1, <1>7, <1>9, <1>10, <1>12, <1>13, <1>14, <1>15, <1>16
        DEF IInv, InCall, OnlyZeroTokensExhaust

\* What a request that goes on has written and may still emit.
LEMMA GoesOn ==
    ASSUME TypeOK, Counted, Treed, NEW h \in Running, pc = "accept", h \in Todo, Todo \subseteq Running,
           NEW a \in 0 .. Deepest(h), NEW k \in 1 .. (a + 1), AcceptTokens(h, a, k, FALSE)
    PROVE  /\ k = a + 1 /\ out'[h] < max_tokens[h]
           /\ committed'[h] = IF h \in Newly THEN prompt[h] ELSE committed[h] + a + 1
           /\ committed'[h] < prompt[h] + out'[h]
           /\ committed'[h] \in Nat
<1>1. h \in Request /\ state[h] \in State
  BY Members DEF TypeOK, SchedTypeOK
<1>2. /\ a \in Nat /\ k \in Nat /\ (tree[h] = NoTree => a = 0)
      /\ out'[h] = out[h] + k /\ committed' \in [Request -> Nat]
      /\ committed'[h] = committed[h] + IF tree[h] # NoTree THEN a + 1 ELSE Span(h)
  BY <1>1, AcceptCounts
<1>3. k = a + 1 /\ out[h] + k < max_tokens[h]
  BY DEF AcceptTokens, Emitted
<1>4. committed[h] \in Nat /\ prompt[h] \in Nat /\ out[h] \in Nat /\ committed'[h] \in Nat
  BY <1>1, <1>2 DEF TypeOK, SchedTypeOK
<1>5. Pending = Todo /\ (h \in Newly <=> h \in Admitted)
  BY DEF Pending, Newly
<1>6. CASE h \in Newly
  <2>1. committed[h] = 0 /\ tree[h] = NoTree /\ Span(h) = prompt[h]
    BY <1>1, <1>5, <1>6 DEF Counted, CountedFor, Span, Admitted
  <2> QED BY <1>2, <1>3, <1>4, <1>6, <2>1
<1>7. CASE h \notin Newly
  <2>1. committed[h] < prompt[h] + out[h]
    BY <1>1, <1>7 DEF Counted, CountedFor
  <2>2. tree[h] = NoTree => Span(h) = a + 1
    BY <1>2, <1>5, <1>7 DEF Span, Admitted
  <2> QED BY <1>2, <1>3, <1>4, <1>7, <2>1, <2>2
<1> QED BY <1>6, <1>7

\* A running request's max_tokens was asked for by the caller.
LEMMA AskedFor ==
    ASSUME Queued, Counted, TypeOK, NEW r \in Running
    PROVE  state[r] = "running" /\ max_tokens[r] \in MaxTokens
<1>1. r \in Request /\ state[r] = "running"
  BY Members DEF Queued
<1> QED BY <1>1 DEF Counted, CountedFor

LEMMA AcceptPlainKeeps ==
    ASSUME IInv, AcceptPlain
    PROVE  IInv'
<1> DEFINE h == Head(todo)
<1>1. /\ TypeOK /\ PoolInv /\ Queued /\ Locals /\ Counted /\ Treed /\ Reserved /\ Budgeted
      /\ pc = "accept" /\ todo # << >> /\ Depth = 0 /\ AcceptTokens(h, 0, 1, FALSE)
      /\ todo' = Tail(todo)
      /\ UNCHANGED <<pool, running, state, pc, batch, admitted, headroom, alive, ext,
                     next_id, updates, asked>>
  BY DEF IInv, InCall, AcceptPlain, InAccept
<1>2. /\ h \in Request /\ h \in Running /\ h \in Todo /\ Running \subseteq Request
      /\ todo' \in Seq(Request) /\ IsInjective(todo')
      /\ Todo' = Todo \ {h} /\ Todo \subseteq Running
  BY <1>1, Visits, Members DEF Todo
<1>3. Deepest(h) \in Int /\ 0 \in 0 .. Deepest(h) /\ 1 \in 1 .. (0 + 1)
  <2>1. tree[h] \in Nat /\ TopK \in Nat \ {0}
    BY <1>1, <1>2, EngineAssumption DEF TypeOK, SchedTypeOK
  <2>2. tree[h] \div TopK \in Nat
    BY <2>1
  <2> QED BY <2>2 DEF Deepest
<1>4. /\ out' \in [Request -> Nat] /\ committed' \in [Request -> Nat]
      /\ \A r \in Request \ {h} : out'[r] = out[r] /\ committed'[r] = committed[r]
      /\ UNCHANGED <<prompt, max_tokens, tree, waiting>>
  BY <1>1, <1>2, <1>3, AcceptCounts
<1>5. /\ out'[h] < max_tokens[h] /\ committed'[h] < prompt[h] + out'[h]
      /\ committed'[h] = IF h \in Newly THEN prompt[h] ELSE committed[h] + 1
      /\ committed[h] \in Nat /\ prompt[h] \in Nat
  <2>1. /\ out'[h] < max_tokens[h] /\ committed'[h] < prompt[h] + out'[h]
        /\ committed'[h] = IF h \in Newly THEN prompt[h] ELSE committed[h] + 0 + 1
    BY <1>1, <1>2, <1>3, GoesOn
  <2>2. committed[h] \in Nat /\ prompt[h] \in Nat
    BY <1>1, <1>2 DEF TypeOK, SchedTypeOK
  <2> QED BY <2>1, <2>2
<1>6. PoolInv'
  BY <1>1, PoolUnchanged
<1>7. TypeOK'
  BY <1>1, <1>2, <1>4, <1>6 DEF TypeOK, SchedTypeOK, PoolInv
<1>8. Queued'
  BY <1>1, <1>4 DEF Queued, PadIds, Running, pool
<1>9. /\ Pending = Todo /\ Pending' = Todo \ {h} /\ Newly' = Newly \ {h}
      /\ Running' = Running /\ Admitted' = Admitted
  BY <1>1, <1>2 DEF Pending, Newly, Admitted, Running
<1>10. Locals'
  BY <1>1, <1>2, <1>9 DEF Locals
<1>11. Counted'
  <2> SUFFICES ASSUME NEW r \in Request PROVE CountedFor(r)'
    BY DEF Counted
  <2>1. CASE r = h
    BY <1>1, <1>2, <1>4, <1>5, <1>9, <2>1, AskedFor DEF CountedFor
  <2>2. CASE r # h
    BY <1>1, <1>4, <1>9, <2>2 DEF Counted, CountedFor
  <2> QED BY <2>1, <2>2
<1>12. Treed'
  BY <1>1, <1>4, <1>9 DEF Treed
<1>13. Reserved'
  <2> SUFFICES ASSUME NEW r \in Running
               PROVE  seq_len[r] = (IF r \in Newly' THEN prompt[r] ELSE committed'[r]) + Taken(r)'
    BY <1>1, <1>4, <1>9 DEF Reserved, pool
  <2>1. CASE r = h
    <3>1. seq_len[h] = (IF h \in Newly THEN prompt[h] ELSE committed[h]) + Taken(h)
      BY <1>1, <1>2 DEF Reserved
    <3>2. Taken(h) = IF h \in Newly THEN 0 ELSE 1
      BY <1>1, <1>2, <1>9, SlotsType DEF Taken, Extra
    <3>3. Taken(r)' = 0
      BY <1>1, <1>9, <2>1 DEF Taken, Extra
    <3> QED BY <1>5, <1>9, <2>1, <3>1, <3>2, <3>3
  <2>2. CASE r # h
    <3>1. Taken(r)' = Taken(r)
      BY <1>1, <1>9, <2>2 DEF Taken, Extra
    <3> QED BY <1>1, <1>2, <1>4, <1>9, <2>2, <3>1 DEF Reserved
  <2> QED BY <2>1, <2>2
<1>14. Budgeted'
  BY <1>1, <1>4, <1>9, SamePromises DEF Budgeted, Usable
<1> QED BY <1>1, <1>6, <1>7, <1>8, <1>10, <1>11, <1>12, <1>13, <1>14
        DEF IInv, InCall, OnlyZeroTokensExhaust

LEMMA AcceptSpecKeeps ==
    ASSUME IInv, AcceptSpec
    PROVE  IInv'
<1> DEFINE h == Head(todo)
<1>1. /\ TypeOK /\ PoolInv /\ Queued /\ Locals /\ Counted /\ Treed /\ Reserved /\ Budgeted
      /\ pc = "accept" /\ todo # << >> /\ Depth > 0 /\ Rollback(h, committed'[h])
      /\ pc' = "regrow"
      /\ UNCHANGED <<running, state, batch, admitted, headroom, todo, alive,
                     next_id, updates, asked>>
  BY DEF IInv, InCall, AcceptSpec, InAccept
<1>2. /\ h \in Request /\ h \in Running /\ h \in Todo /\ Running \subseteq Request
      /\ h \in Id /\ h # Pad /\ Request \subseteq Id /\ Pad \in Id
      /\ IsInjective(todo) /\ Todo \subseteq Running
  BY <1>1, Visits, Members DEF Locals
<1>3. PICK a \in 0 .. Deepest(h) :
          /\ AcceptTokens(h, a, a + 1, FALSE)
          /\ ext' = [ext EXCEPT ![h] = IF tree[h] = NoTree THEN prompt[h] ELSE a + 1]
  BY DEF AcceptSpec
<1>4. a + 1 \in 1 .. (a + 1) /\ a \in Nat
  <2>1. Deepest(h) \in Int
    <3>1. tree[h] \in Nat /\ TopK \in Nat \ {0}
      BY <1>1, <1>2, EngineAssumption DEF TypeOK, SchedTypeOK
    <3>2. tree[h] \div TopK \in Nat
      BY <3>1
    <3> QED BY <3>2 DEF Deepest
  <2> QED BY <2>1
<1>5. /\ out' \in [Request -> Nat] /\ committed' \in [Request -> Nat]
      /\ \A r \in Request \ {h} : out'[r] = out[r] /\ committed'[r] = committed[r]
      /\ UNCHANGED <<prompt, max_tokens, tree, waiting>>
  BY <1>1, <1>2, <1>3, <1>4, AcceptCounts
<1>6. /\ out'[h] < max_tokens[h] /\ committed'[h] < prompt[h] + out'[h] /\ committed'[h] \in Nat
  BY <1>1, <1>2, <1>3, <1>4, GoesOn
<1>7. PoolInv'
  BY <1>1, <1>2, <1>6, RollbackKeepsInv
<1>8. /\ live' = live /\ seq_len'[h] = committed'[h]
      /\ \A r \in Id \ {h} : seq_len'[r] = seq_len[r]
  BY <1>1, <1>2 DEF Rollback, TypeOK, PoolTypeOK
<1>9. TypeOK'
  <2>1. prompt[h] \in Nat /\ ext \in [Request -> Nat]
    BY <1>1, <1>2 DEF TypeOK, SchedTypeOK
  <2>2. ext' \in [Request -> Nat]
    BY <1>2, <1>3, <1>4, <2>1
  <2> QED BY <1>1, <1>5, <1>7, <2>2 DEF TypeOK, SchedTypeOK, PoolInv, Phase
<1>10. Queued'
  BY <1>1, <1>2, <1>5, <1>8 DEF Queued, PadIds, Running
<1>11. /\ Pending = Todo /\ Pending' = Todo \ {h} /\ Newly' = Newly \ {h}
       /\ Running' = Running /\ Admitted' = Admitted /\ Todo' = Todo
  BY <1>1, <1>2 DEF Pending, Newly, Admitted, Running, Todo
<1>12. Locals'
  BY <1>1, <1>2, <1>11 DEF Locals, Alive
<1>13. Counted'
  <2> SUFFICES ASSUME NEW r \in Request PROVE CountedFor(r)'
    BY DEF Counted
  <2>1. CASE r = h
    BY <1>1, <1>2, <1>5, <1>6, <1>11, <2>1, AskedFor DEF CountedFor
  <2>2. CASE r # h
    BY <1>1, <1>5, <1>11, <2>2 DEF Counted, CountedFor
  <2> QED BY <2>1, <2>2
<1>14. Treed'
  BY <1>1, <1>5, <1>11 DEF Treed
<1>15. Reserved'
  <2> SUFFICES ASSUME NEW r \in Running
               PROVE  seq_len'[r] = (IF r \in Newly' THEN prompt[r] ELSE committed'[r]) + Taken(r)'
    BY <1>5, <1>11 DEF Reserved
  <2>1. CASE r = h
    <3>1. Taken(r)' = 0
      BY <1>1, <2>1 DEF Taken
    <3> QED BY <1>6, <1>8, <1>11, <2>1, <3>1
  <2>2. CASE r # h
    <3>1. Taken(r)' = Taken(r)
      BY <1>1, <1>11, <2>2 DEF Taken, Extra
    <3> QED BY <1>1, <1>2, <1>5, <1>8, <1>11, <2>2, <3>1 DEF Reserved
  <2> QED BY <2>1, <2>2
<1>16. Budgeted'
  BY <1>1, <1>5, <1>11, SamePromises DEF Budgeted, Usable
<1> QED BY <1>1, <1>7, <1>9, <1>10, <1>12, <1>13, <1>14, <1>15, <1>16
        DEF IInv, InCall, OnlyZeroTokensExhaust

LEMMA RegrowKeeps ==
    ASSUME IInv, Regrow
    PROVE  IInv'
<1> DEFINE h == Head(todo)
<1>1. /\ TypeOK /\ PoolInv /\ Queued /\ Locals /\ Counted /\ Treed /\ Reserved /\ Budgeted
      /\ pc = "regrow" /\ pc' = "accept" /\ todo # << >> /\ Depth > 0
      /\ AppendTokens(h, Slots) /\ alive' = Append(alive, h) /\ todo' = Tail(todo)
      /\ UNCHANGED <<sched, batch, admitted, headroom, ext, next_id, updates, asked>>
  BY DEF IInv, InCall, Regrow, Locals
<1>2. /\ h \in Request /\ h \in Running /\ h \in Todo /\ Running \subseteq Request
      /\ h \in Id /\ h # Pad /\ Request \subseteq Id /\ Pad \in Id
      /\ todo' \in Seq(Request) /\ IsInjective(todo')
      /\ Todo' = Todo \ {h} /\ Todo \subseteq Running
  BY <1>1, Visits, Members DEF Todo
<1>3. alive' \in Seq(Request) /\ Alive' = Alive \cup {h} /\ Alive = Running \ Todo
  <2>1. alive \in Seq(Request)
    BY <1>1 DEF TypeOK
  <2>2. Append(alive, h) \in Seq(Request) /\ ToSet(Append(alive, h)) = ToSet(alive) \cup {h}
    BY <1>2, <2>1, AppendQueue
  <2>3. Alive = Running \ Todo
    BY <1>1 DEF Locals
  <2> QED BY <1>1, <2>2, <2>3 DEF Alive
<1>4. /\ seq_len'[h] = seq_len[h] + Slots /\ live' = live
      /\ \A r \in Id \ {h} : seq_len'[r] = seq_len[r]
  BY <1>1, <1>2, SlotsType, AppendReserves
<1>5. PoolInv'
  BY <1>1, <1>2, SlotsType, AppendKeepsInv
<1>6. TypeOK'
  BY <1>1, <1>2, <1>3, <1>5 DEF TypeOK, SchedTypeOK, sched, request, PoolInv, Phase
<1>7. Queued'
  BY <1>1, <1>2, <1>4 DEF Queued, PadIds, Running, sched, request
<1>8. /\ Running' = Running /\ Admitted' = Admitted
      /\ Pending = Todo \ {h} /\ Pending' = Todo \ {h} /\ Newly' = Newly
  BY <1>1, <1>2 DEF Running, Admitted, Pending, Newly, sched
<1>9. Locals'
  BY <1>1, <1>2, <1>3, <1>8 DEF Locals
<1>10. Counted' /\ Treed'
  BY <1>1, <1>8 DEF Counted, CountedFor, Treed, sched, request
<1>11. Reserved'
  <2> SUFFICES ASSUME NEW r \in Running
               PROVE  seq_len'[r] = (IF r \in Newly THEN prompt[r] ELSE committed[r]) + Taken(r)'
    BY <1>1, <1>8 DEF Reserved, sched, request
  <2>1. seq_len[r] = (IF r \in Newly THEN prompt[r] ELSE committed[r]) + Taken(r)
    BY <1>1 DEF Reserved
  <2>2. CASE r = h
    <3>1. Taken(r) = 0 /\ Taken(r)' = Slots
      BY <1>1, <1>8, <2>2 DEF Taken, Extra
    <3>2. committed[r] \in Nat /\ r \notin Newly
      BY <1>1, <1>2, <1>8, <2>2 DEF TypeOK, SchedTypeOK, Newly
    <3> QED BY <1>4, <2>1, <2>2, <3>1, <3>2
  <2>3. CASE r # h
    <3>1. Taken(r)' = Taken(r)
      BY <1>1, <1>8, <2>3 DEF Taken, Extra
    <3> QED BY <1>2, <1>4, <2>1, <2>3, <3>1
  <2> QED BY <2>2, <2>3
<1>12. Budgeted'
  BY <1>1, <1>8, SamePromises DEF Budgeted, sched, request, Usable
<1> QED BY <1>1, <1>5, <1>6, <1>7, <1>9, <1>10, <1>11, <1>12
        DEF IInv, InCall, OnlyZeroTokensExhaust

----------------------------------------------------------------------------
(***************************************************************************)
(* Why no call to the pool is refused while every running request may emit *)
(* a token: a reservation never passes the promise, even grown by a step's *)
(* slots.                                                                  *)
(***************************************************************************)
\* What r has in the cache, without the slots reserved past it.
Base(r) == IF r \in Newly THEN prompt[r] ELSE committed[r]

LEMMA BaseIsLow ==
    ASSUME TypeOK, Counted, NEW r \in Running, max_tokens[r] # 0
    PROVE  /\ Base(r) \in Nat
           /\ Base(r) + Slots <= prompt[r] + max_tokens[r] + Spare
<1>1. r \in Request
  BY Members
<1>2. /\ prompt[r] \in Nat /\ committed[r] \in Nat /\ out[r] \in Nat /\ max_tokens[r] \in Nat
      /\ Spare \in Nat /\ Slots = Spare + 1
  BY <1>1, EngineAssumption, SchedulerAssumption DEF TypeOK, SchedTypeOK, Slots
<1>3. CASE r \in Newly
  BY <1>2, <1>3 DEF Base
<1>4. CASE r \notin Newly
  <2>1. committed[r] < prompt[r] + out[r] /\ out[r] < max_tokens[r]
    BY <1>1, <1>4 DEF Counted, CountedFor
  <2> QED BY <1>2, <1>4, <2>1 DEF Base
<1> QED BY <1>3, <1>4

LEMMA WithinPromise ==
    ASSUME TypeOK, PoolInv, Counted, Reserved, NEW r \in Running, max_tokens[r] # 0
    PROVE  Lengths[r] \in Nat /\ Promises[r] \in Nat /\ Lengths[r] <= Promises[r]
<1>1. r \in Request /\ r \in Id
  BY Members
<1>2. Base(r) \in Nat /\ Base(r) + Slots <= prompt[r] + max_tokens[r] + Spare
  BY BaseIsLow
<1>3. Taken(r) \in Nat /\ Taken(r) <= Slots
  BY SlotsType DEF Taken, Extra
<1>4. seq_len[r] = Base(r) + Taken(r)
  BY DEF Reserved, Base
<1>5. prompt[r] + max_tokens[r] + Spare \in Nat
  BY <1>1, SchedulerAssumption, SMTT(30) DEF TypeOK, SchedTypeOK
<1>6. seq_len[r] \in Nat /\ seq_len[r] <= prompt[r] + max_tokens[r] + Spare
  BY <1>2, <1>3, <1>4, <1>5, SlotsType
<1>7. BlocksFor(seq_len[r]) <= MaxBlocks(r)
  BY <1>5, <1>6, BlocksForMonotone DEF MaxBlocks
<1>8. Lengths[r] = BlocksFor(seq_len[r]) /\ Lengths[r] \in Nat
  BY <1>1, LengthsType
<1>9. Promises[r] = MaxBlocks(r) /\ Promises[r] \in Nat
  BY <1>1, PromisesType DEF TypeOK
<1> QED BY <1>7, <1>8, <1>9

\* An append of a step's slots fits.
LEMMA StepFits ==
    ASSUME TypeOK, PoolInv, Queued, Counted, Reserved, Budgeted, pc # "capture",
           \A r \in Running : max_tokens[r] # 0,
           NEW q \in Running, Taken(q) = 0
    PROVE  FitsAppend(q, Slots)
<1>1. q \in Request /\ q \in Id
  BY Members
<1>2. \A r \in Running : Lengths[r] \in Nat /\ Promises[r] \in Nat /\ Lengths[r] <= Promises[r]
  BY WithinPromise
<1>3. Base(q) \in Nat /\ Base(q) + Slots <= prompt[q] + max_tokens[q] + Spare
  BY BaseIsLow
<1>4. seq_len[q] = Base(q) + 0
  BY DEF Reserved, Base
<1>5. prompt[q] + max_tokens[q] + Spare \in Nat
  BY <1>1, SchedulerAssumption, SMTT(30) DEF TypeOK, SchedTypeOK
<1>6. seq_len[q] + Slots \in Nat /\ seq_len[q] + Slots <= prompt[q] + max_tokens[q] + Spare
  BY <1>3, <1>4, SlotsType
<1> DEFINE n == BlocksFor(seq_len[q] + Slots)
<1>7. n \in Nat /\ n <= Promises[q]
  <2>1. n \in Nat /\ n <= MaxBlocks(q)
    BY <1>5, <1>6, BlocksForMonotone, BlocksForCeiling DEF MaxBlocks
  <2>2. Promises[q] = MaxBlocks(q)
    BY <1>1, PromisesType DEF TypeOK
  <2> QED BY <2>1, <2>2
<1> HIDE DEF n
<1>8. IsFiniteSet(Running) /\ Usable \in Int /\ Cardinality(Pairs(Running, Promises)) <= Usable
  BY Members, PoolAssumption DEF Budgeted, Usable
<1>9. n - Lengths[q] <= Usable - Cardinality(Pairs(Running, Lengths))
  BY <1>2, <1>7, <1>8, PromiseIsKept
<1>10. Lengths[q] = Len(blocks[q]) /\ Lengths[q] \in Nat
  BY <1>1, LengthsType
<1> DEFINE c == Cardinality(Pairs(Running, Lengths))
<1>11. c \in Nat /\ NumFree + c = Usable /\ NumFree \in Nat /\ Usable \in Int
       /\ n - Lengths[q] <= Usable - c
  BY <1>9, HeldAndFree
<1> HIDE DEF c
<1>12. n - Lengths[q] <= NumFree
  BY <1>7, <1>10, <1>11
<1> QED BY <1>10, <1>12 DEF FitsAppend, Need, n

\* The prompt of a head that fits the headroom fits the pool.
LEMMA PromptFits ==
    ASSUME TypeOK, PoolInv, Queued, Counted, Reserved, Budgeted, pc = "admit",
           \A r \in Running : max_tokens[r] # 0,
           NEW q \in Request, MaxBlocks(q) <= headroom
    PROVE  FitsAlloc(prompt[q])
<1>1. \A r \in Running : Lengths[r] \in Nat /\ Promises[r] \in Nat /\ Lengths[r] <= Promises[r]
  BY WithinPromise
<1>2. BlocksFor(prompt[q]) \in Nat /\ MaxBlocks(q) \in Nat /\ BlocksFor(prompt[q]) <= MaxBlocks(q)
  <2>1. /\ prompt[q] \in Nat /\ prompt[q] + max_tokens[q] + Spare \in Nat
        /\ prompt[q] <= prompt[q] + max_tokens[q] + Spare
    <3>1. prompt[q] \in Nat /\ max_tokens[q] \in Nat /\ Spare \in Nat
      BY SchedulerAssumption DEF TypeOK, SchedTypeOK
    <3> QED BY <3>1
  <2> DEFINE m == prompt[q] + max_tokens[q] + Spare
  <2>2. prompt[q] \in Nat /\ m \in Nat /\ prompt[q] <= m
    BY <2>1
  <2>3. MaxBlocks(q) = BlocksFor(m)
    BY DEF MaxBlocks
  <2> HIDE DEF m
  <2>4. BlocksFor(prompt[q]) <= BlocksFor(m)
    BY <2>2, BlocksForMonotone
  <2>5. BlocksFor(prompt[q]) \in Nat /\ BlocksFor(m) \in Nat
    BY <2>2, BlocksForCeiling
  <2> QED BY <2>3, <2>4, <2>5
<1> DEFINE p == Cardinality(Pairs(Running, Promises))
           c == Cardinality(Pairs(Running, Lengths))
<1>3. c <= p
  BY <1>1, Members, PairsMonotone
<1>4. /\ c \in Nat /\ NumFree + c = Usable /\ NumFree \in Nat /\ Usable \in Int
      /\ p \in Nat /\ headroom = Usable - p
  BY HeldAndFree, PromisesFinite, Members DEF Budgeted
<1> HIDE DEF p, c
<1>5. BlocksFor(prompt[q]) <= NumFree
  BY <1>2, <1>3, <1>4
<1> QED BY <1>5 DEF FitsAlloc

LEMMA RaiseKeeps ==
    ASSUME IInv, Raise
    PROVE  IInv'
<1>1. /\ TypeOK /\ PoolInv /\ Queued /\ Locals /\ Counted /\ Treed /\ Reserved /\ Budgeted
      /\ Refused /\ pc' = "exhausted" /\ pc # "exhausted"
      /\ waiting' = IF pc = "admit" THEN Tail(waiting) ELSE waiting
      /\ UNCHANGED <<pool, running, request, batch, admitted, headroom, todo, alive, ext,
                     next_id, updates, asked>>
  BY DEF IInv, InCall, Raise, Refused
<1>2. PoolInv'
  BY <1>1, PoolUnchanged
<1>3. waiting \in Seq(Request) /\ (pc = "admit" => waiting # << >>)
  BY <1>1 DEF TypeOK, SchedTypeOK, Refused, HeadFits, MayAdmit
<1>4. waiting' \in Seq(Request)
  BY <1>1, <1>3, TailQueue
<1>5. TypeOK'
  BY <1>1, <1>2, <1>4 DEF TypeOK, SchedTypeOK, request, PoolInv, Phase
<1>6. \E r \in Running : max_tokens[r] = 0
  <2> SUFFICES ASSUME \A r \in Running : max_tokens[r] # 0 PROVE FALSE
    OBVIOUS
  <2>1. CASE pc = "admit" /\ HeadFits /\ ~FitsAlloc(prompt[Head(waiting)])
    <3>1. Head(waiting) \in Request
      BY <1>3, <2>1, TailQueue
    <3>2. MaxBlocks(Head(waiting)) <= headroom
      BY <2>1 DEF HeadFits
    <3> QED BY <1>1, <2>1, <3>1, <3>2, PromptFits
  <2>2. CASE pc = "reserve" /\ todo # << >> /\ ~FitsAppend(Head(todo), Slots)
    <3>1. todo \in Seq(Request) /\ Todo \subseteq Batch \cup Admitted
      BY <1>1, <2>2 DEF TypeOK, Locals
    <3>2. Head(todo) \in Todo
      BY <2>2, <3>1, TailQueue DEF Todo
    <3>3. Head(todo) \in Running
      BY <1>1, <2>2, <3>1, <3>2, StepRuns
    <3>4. Taken(Head(todo)) = 0
      BY <2>2, <3>2 DEF Taken
    <3> QED BY <1>1, <2>2, <3>3, <3>4, StepFits
  <2>3. CASE pc = "regrow" /\ ~FitsAppend(Head(todo), Slots)
    <3>1. Head(todo) \in Running
      BY <1>1, <2>3, Visits DEF Locals
    <3>2. Taken(Head(todo)) = 0
      BY <2>3 DEF Taken
    <3> QED BY <1>1, <2>3, <3>1, <3>2, StepFits
  <2> QED BY <1>1, <2>1, <2>2, <2>3 DEF Refused
<1>7. OnlyZeroTokensExhaust'
  BY <1>1, <1>6 DEF OnlyZeroTokensExhaust, Running, request
<1> QED BY <1>1, <1>2, <1>5, <1>7 DEF IInv

----------------------------------------------------------------------------
LEMMA EndStepKeeps ==
    ASSUME IInv, EndStep
    PROVE  IInv'
<1>1. /\ TypeOK /\ PoolInv /\ Queued /\ Locals /\ Counted /\ Treed /\ Reserved /\ Budgeted
      /\ pc = "accept" /\ todo = << >> /\ alive = << >> /\ ReturnFromStep
      /\ UNCHANGED <<pool, sched, ext, next_id, updates, asked>>
  BY DEF IInv, InCall, EndStep, AcceptEnds
<1>2. PoolInv'
  BY <1>1, PoolUnchanged
<1>3. TypeOK'
  BY <1>1, <1>2, ReturnTyped DEF TypeOK, SchedTypeOK, sched, request, PoolInv
<1>4. Queued'
  BY <1>1 DEF Queued, PadIds, Running, pool, sched, request, ReturnFromStep
<1>5. Todo = {} /\ Alive = {}
  BY <1>1, EmptyQueue DEF Todo, Alive
<1>6. /\ Running' = Running /\ Newly = {} /\ Newly' = {} /\ Pending = {} /\ Pending' = {}
      /\ pc' = "idle"
  BY <1>1, <1>5 DEF Running, sched, Newly, Pending, ReturnFromStep
<1>7. Depth > 0 => Running = {}
  BY <1>1, <1>5 DEF Locals
<1>8. Locals'
  BY <1>1 DEF Locals, ReturnFromStep
<1>9. Counted' /\ Treed'
  BY <1>1, <1>6, <1>7 DEF Counted, CountedFor, Treed, sched, request
<1>10. Reserved'
  BY <1>1, <1>6 DEF Reserved, Taken, Extra, pool, sched, request
<1>11. Budgeted'
  BY <1>1, <1>6, SamePromises DEF Budgeted, sched, request, Usable
<1> QED BY <1>1, <1>2, <1>3, <1>4, <1>6, <1>8, <1>9, <1>10, <1>11
        DEF IInv, InCall, OnlyZeroTokensExhaust

\* A tree has at least one node and at most num_draft.
LEMMA TreeSize ==
    ASSUME Depth > 0, NEW b \in Nat \ {0}
    PROVE  /\ DraftDepth(b) * TopK \in Nat \ {0}
           /\ DraftDepth(b) * TopK <= NumDraft
<1>1. DraftDepth(b) \in 1 .. Depth
  <2>1. RowBudget \div b \in Int /\ Depth \in Nat /\ RowBudget \in Nat
    BY FloorDiv, EngineAssumption
  <2> DEFINE q == RowBudget \div b
             d == IF q > 1 THEN q ELSE 1
  <2>2. DraftDepth(b) = IF TopK = 1 /\ RowBudget > 0 THEN (IF d < Depth THEN d ELSE Depth)
                        ELSE Depth
    BY DEF DraftDepth
  <2>3. q \in Int
    BY <2>1
  <2> HIDE DEF q
  <2>4. d \in Int /\ d >= 1
    BY <2>3
  <2> HIDE DEF d
  <2> QED BY <2>1, <2>2, <2>4
<1> DEFINE D == DraftDepth(b)
<1>2. D \in Nat \ {0} /\ D <= Depth /\ TopK \in Nat \ {0} /\ Depth \in Nat
  BY <1>1, EngineAssumption
<1> HIDE DEF D
<1>3. D * TopK \in Nat \ {0}
  BY <1>2
<1>4. D * TopK <= Depth * TopK
  <2>1. CASE D = Depth
    BY <1>2, <2>1
  <2>2. CASE D < Depth
    <3>1. TopK * D + TopK <= TopK * Depth
      BY <1>2, <2>2, MulStep
    <3>2. TopK * D = D * TopK /\ TopK * Depth = Depth * TopK
      BY <1>2
    <3> QED BY <1>2, <1>3, <3>1, <3>2
  <2> QED BY <1>2, <2>1, <2>2
<1> QED BY <1>3, <1>4 DEF D, NumDraft

LEMMA DraftKeeps ==
    ASSUME IInv, Draft
    PROVE  IInv'
<1>1. /\ TypeOK /\ PoolInv /\ Queued /\ Locals /\ Counted /\ Treed /\ Reserved /\ Budgeted
      /\ pc = "accept" /\ todo = << >> /\ alive # << >> /\ ReturnFromStep
      /\ UNCHANGED <<pool, waiting, running, state, prompt, out, max_tokens, committed,
                     next_id, updates, asked>>
  BY DEF IInv, InCall, Draft, AcceptEnds
<1>2. Depth > 0
  BY <1>1, EngineAssumption DEF Locals
<1>3. Todo = {} /\ Alive = Running
  <2>1. Todo = {}
    BY <1>1, EmptyQueue DEF Todo
  <2> QED BY <1>1, <1>2, <2>1 DEF Locals
<1> DEFINE n == DraftDepth(Len(alive)) * TopK
<1>4. n \in Nat \ {0} /\ n <= NumDraft
  <2>1. Len(alive) \in Nat \ {0}
    BY <1>1 DEF TypeOK
  <2> QED BY <1>2, <2>1, TreeSize
<1>5. /\ tree' = [r \in Request |-> IF r \in Alive THEN n ELSE tree[r]]
      /\ ext' = [r \in Request |-> IF r \in Alive THEN 0 ELSE ext[r]]
  BY DEF Draft, Alive
<1> HIDE DEF n
<1>6. tree' \in [Request -> Nat] /\ ext' \in [Request -> Nat]
  BY <1>1, <1>4, <1>5 DEF TypeOK, SchedTypeOK
<1>7. PoolInv'
  BY <1>1, PoolUnchanged
<1>8. TypeOK'
  BY <1>1, <1>6, <1>7, ReturnTyped DEF TypeOK, SchedTypeOK, PoolInv
<1>9. Queued'
  BY <1>1 DEF Queued, PadIds, Running, pool, ReturnFromStep
<1>10. /\ Running' = Running /\ Running \subseteq Request /\ pc' = "idle"
       /\ Newly = {} /\ Newly' = {} /\ Pending = {} /\ Pending' = {}
  BY <1>1, <1>3, Members DEF Running, Newly, Pending, ReturnFromStep
<1>11. Locals'
  BY <1>1 DEF Locals, ReturnFromStep
<1>12. Counted'
  <2>1. \A r \in Request : r \in Alive => state[r] = "running"
    BY <1>1, <1>3 DEF Queued
  <2> QED BY <1>1, <1>3, <1>5, <1>10, <2>1 DEF Counted, CountedFor
<1>13. Treed'
  BY <1>1, <1>2, <1>3, <1>4, <1>5, <1>10 DEF Treed, NoTree
<1>14. Reserved'
  BY <1>1, <1>10 DEF Reserved, Taken, Extra, pool
<1>15. Budgeted'
  BY <1>1, <1>10, SamePromises DEF Budgeted, Usable
<1> QED BY <1>1, <1>7, <1>8, <1>9, <1>10, <1>11, <1>12, <1>13, <1>14, <1>15
        DEF IInv, InCall, OnlyZeroTokensExhaust

LEMMA UpdateWeightsKeeps ==
    ASSUME IInv, UpdateWeights
    PROVE  IInv'
<1>1. /\ TypeOK /\ PoolInv /\ Queued /\ Locals /\ Counted /\ Treed /\ Reserved /\ Budgeted
      /\ pc = "idle" /\ pc' = "restart" /\ todo' = running
      /\ updates < MaxUpdates /\ updates' = updates + 1
      /\ UNCHANGED <<pool, sched, batch, admitted, headroom, alive, ext, next_id, asked>>
  BY DEF IInv, InCall, UpdateWeights
<1>2. PoolInv'
  BY <1>1, PoolUnchanged
<1>3. TypeOK'
  <2>1. updates' \in 0 .. MaxUpdates
    BY <1>1, EngineAssumption DEF TypeOK
  <2> QED BY <1>1, <1>2, <2>1 DEF TypeOK, SchedTypeOK, sched, request, PoolInv, Phase
<1>4. Queued'
  BY <1>1 DEF Queued, PadIds, Running, pool, sched, request
<1>5. Running' = Running /\ Newly = {} /\ Newly' = {} /\ Pending = {} /\ Pending' = {}
  BY <1>1 DEF Running, sched, Newly, Pending
<1>6. Locals'
  BY <1>1, <1>5 DEF Locals, Queued, Todo, Running
<1>7. Counted' /\ Treed' /\ Reserved'
  BY <1>1, <1>5 DEF Counted, CountedFor, Treed, Reserved, Taken, Extra, pool, sched, request
<1>8. Budgeted'
  BY <1>1, <1>5, SamePromises DEF Budgeted, sched, request, Usable
<1> QED BY <1>1, <1>2, <1>3, <1>4, <1>6, <1>7, <1>8 DEF IInv, InCall, OnlyZeroTokensExhaust

LEMMA RestartHeadKeeps ==
    ASSUME IInv, RestartHead
    PROVE  IInv'
<1> DEFINE h == Head(todo)
<1>1. /\ TypeOK /\ PoolInv /\ Queued /\ Locals /\ Counted /\ Treed /\ Reserved /\ Budgeted
      /\ pc = "restart" /\ todo # << >> /\ Restart(h) /\ todo' = Tail(todo)
      /\ UNCHANGED <<pc, batch, admitted, headroom, alive, ext, next_id, updates, asked>>
  BY DEF IInv, InCall, RestartHead
<1>2. /\ FreeTable(h) /\ running' = Without(running, h) /\ waiting' = <<h>> \o waiting
      /\ prompt' = [prompt EXCEPT ![h] = @ + out[h]]
      /\ state' = [state EXCEPT ![h] = "waiting"]
      /\ committed' = [committed EXCEPT ![h] = 0] /\ tree' = [tree EXCEPT ![h] = NoTree]
      /\ UNCHANGED <<out, max_tokens>>
  BY <1>1 DEF Restart
<1>3. /\ h \in Request /\ h \in Running /\ h \in Todo /\ Running \subseteq Request
      /\ todo' \in Seq(Request) /\ IsInjective(todo')
      /\ Todo' = Todo \ {h} /\ Todo = Running
  BY <1>1, Visits, Members DEF Todo, Locals
<1>4. /\ PoolInv' /\ running' \in Seq(Request) /\ IsInjective(running')
      /\ Running' = Running \ {h} /\ Len(running') <= Len(running)
      /\ live' = live \ {h} /\ h # Pad
      /\ \A r \in Id \ {h} : seq_len'[r] = seq_len[r]
  BY <1>1, <1>2, <1>3, Leaves
<1>5. state[h] = "running" /\ h \notin ToSet(waiting)
  BY <1>1, <1>3 DEF Queued
<1>6. /\ waiting' \in Seq(Request) /\ IsInjective(waiting')
      /\ ToSet(waiting') = ToSet(waiting) \cup {h}
  <2>1. waiting \in Seq(Request) /\ IsInjective(waiting)
    BY <1>1 DEF TypeOK, SchedTypeOK, Queued
  <2>2. /\ <<h>> \o waiting \in Seq(Request) /\ IsInjective(<<h>> \o waiting)
        /\ ToSet(<<h>> \o waiting) = ToSet(waiting) \cup {h}
    BY <1>3, <1>5, <2>1, ConsQueue
  <2> QED BY <1>2, <2>2
<1>7. /\ prompt' \in [Request -> Nat] /\ committed' \in [Request -> Nat]
      /\ tree' \in [Request -> Nat] /\ state' \in [Request -> State]
      /\ state'[h] = "waiting" /\ committed'[h] = 0 /\ tree'[h] = NoTree
      /\ \A r \in Request \ {h} : /\ prompt'[r] = prompt[r] /\ committed'[r] = committed[r]
                                  /\ tree'[r] = tree[r] /\ state'[r] = state[r]
  <2>1. /\ prompt \in [Request -> Nat] /\ committed \in [Request -> Nat] /\ out[h] \in Nat
        /\ tree \in [Request -> Nat] /\ state \in [Request -> State] /\ prompt[h] \in Nat
        /\ NoTree \in Nat /\ "waiting" \in State
    BY <1>1, <1>3 DEF TypeOK, SchedTypeOK, State, NoTree
  <2>2. prompt' \in [Request -> Nat] /\ \A r \in Request \ {h} : prompt'[r] = prompt[r]
    BY <1>2, <1>3, <2>1
  <2>3. /\ committed' \in [Request -> Nat] /\ committed'[h] = 0
        /\ \A r \in Request \ {h} : committed'[r] = committed[r]
    BY <1>2, <1>3, <2>1
  <2>4. /\ tree' \in [Request -> Nat] /\ tree'[h] = NoTree
        /\ \A r \in Request \ {h} : tree'[r] = tree[r]
    BY <1>2, <1>3, <2>1
  <2>5. /\ state' \in [Request -> State] /\ state'[h] = "waiting"
        /\ \A r \in Request \ {h} : state'[r] = state[r]
    BY <1>2, <1>3, <2>1
  <2> QED BY <2>2, <2>3, <2>4, <2>5
<1>8. TypeOK'
  <2>1. SchedTypeOK'
    BY <1>1, <1>2, <1>4, <1>6, <1>7 DEF TypeOK, SchedTypeOK
  <2> QED BY <1>1, <1>3, <1>4, <2>1 DEF TypeOK, PoolInv
<1>9. Queued'
  <2>1. /\ ToSet(waiting') = {r \in Request : state'[r] = "waiting"}
        /\ Running' = {r \in Request : state'[r] = "running"}
        /\ \A r \in Request : r >= next_id' => state'[r] = "new"
    <3>1. ToSet(waiting') = {r \in Request : state'[r] = "waiting"}
      BY <1>1, <1>3, <1>6, <1>7 DEF Queued
    <3>2. Running' = {r \in Request : state'[r] = "running"}
      BY <1>1, <1>3, <1>4, <1>7 DEF Queued
    <3>3. \A r \in Request : r >= next_id' => state'[r] = "new"
      BY <1>1, <1>3, <1>5, <1>7 DEF Queued
    <3> QED BY <3>1, <3>2, <3>3
  <2>2. live' = Running' \cup PadIds' /\ (PadIds' # {} => seq_len'[Pad] = 1)
    BY <1>1, <1>4, Members DEF Queued, PadIds
  <2>3. MaxRunning # NoLimit => Len(running') <= MaxRunning
    BY <1>1, <1>4, SchedulerAssumption DEF Queued, TypeOK, SchedTypeOK, NoLimit
  <2> QED BY <1>1, <1>4, <1>6, <2>1, <2>2, <2>3 DEF Queued
<1>10. Newly = {} /\ Newly' = {} /\ Pending = {} /\ Pending' = {}
  BY <1>1 DEF Newly, Pending
<1>11. Locals'
  BY <1>1, <1>3, <1>4 DEF Locals
<1>12. Counted'
  <2> SUFFICES ASSUME NEW r \in Request PROVE CountedFor(r)'
    BY DEF Counted
  <2>1. CASE r = h
    <3>1. max_tokens[h] \in MaxTokens /\ out[h] < max_tokens[h]
      BY <1>1, <1>3, <1>5, <1>10 DEF Counted, CountedFor
    <3> QED BY <1>2, <1>3, <1>4, <1>7, <1>10, <2>1, <3>1 DEF CountedFor
  <2>2. CASE r # h
    BY <1>1, <1>2, <1>4, <1>7, <1>10, <2>2 DEF Counted, CountedFor
  <2> QED BY <2>1, <2>2
<1>13. Treed'
  BY <1>1, <1>3, <1>4, <1>7, <1>10 DEF Treed
<1>14. Reserved'
  <2> SUFFICES ASSUME NEW r \in Running, r # h
               PROVE  seq_len'[r] = committed'[r] + Taken(r)'
    BY <1>4, <1>10 DEF Reserved
  <2>1. Taken(r)' = Taken(r)
    BY <1>1, <1>10 DEF Taken, Extra
  <2>2. r \in Request /\ r \in Id
    BY <1>1, Members
  <2> QED BY <1>1, <1>4, <1>7, <1>10, <2>1, <2>2 DEF Reserved
<1>15. Budgeted'
  <2>1. \A r \in Running' : Promises'[r] = Promises[r]
    BY <1>2, <1>3, <1>4, <1>7 DEF Promises, MaxBlocks
  <2>2. Running' \in SUBSET Running
    BY <1>4
  <2>3. Cardinality(Pairs(Running', Promises')) <= Usable
    BY <1>1, <2>1, <2>2, FewerPromises
  <2> QED BY <1>1, <2>3 DEF Budgeted, Usable
<1> QED BY <1>1, <1>4, <1>8, <1>9, <1>11, <1>12, <1>13, <1>14, <1>15
        DEF IInv, InCall, OnlyZeroTokensExhaust

LEMMA EndUpdateKeeps ==
    ASSUME IInv, EndUpdate
    PROVE  IInv'
<1>1. /\ TypeOK /\ PoolInv /\ Queued /\ Locals /\ Counted /\ Treed /\ Reserved /\ Budgeted
      /\ pc = "restart" /\ todo = << >> /\ pc' = "idle"
      /\ UNCHANGED <<pool, sched, batch, admitted, headroom, todo, alive, ext,
                     next_id, updates, asked>>
  BY DEF IInv, InCall, EndUpdate
<1>2. PoolInv'
  BY <1>1, PoolUnchanged
<1>3. TypeOK'
  BY <1>1, <1>2 DEF TypeOK, SchedTypeOK, sched, request, PoolInv, Phase
<1>4. Queued'
  BY <1>1 DEF Queued, PadIds, Running, pool, sched, request
<1>5. Running' = Running /\ Newly = {} /\ Newly' = {} /\ Pending = {} /\ Pending' = {}
  BY <1>1 DEF Running, sched, Newly, Pending
<1>6. Locals'
  BY <1>1 DEF Locals
<1>7. Counted' /\ Treed' /\ Reserved'
  BY <1>1, <1>5 DEF Counted, CountedFor, Treed, Reserved, Taken, Extra, pool, sched, request
<1>8. Budgeted'
  BY <1>1, <1>5, SamePromises DEF Budgeted, sched, request, Usable
<1> QED BY <1>1, <1>2, <1>3, <1>4, <1>6, <1>7, <1>8 DEF IInv, InCall, OnlyZeroTokensExhaust

----------------------------------------------------------------------------
LEMMA StutterKeeps ==
    ASSUME IInv, UNCHANGED vars
    PROVE  IInv'
<1>1. PoolInv'
  BY PoolUnchanged DEF vars, IInv
<1>2. TypeOK'
  BY <1>1 DEF vars, IInv, TypeOK, SchedTypeOK, sched, request, step, PoolInv
<1>3. /\ Running' = Running /\ Newly' = Newly /\ Pending' = Pending /\ Todo' = Todo
      /\ Promises' = Promises
  BY SamePromises DEF vars, sched, request, step, Running, Newly, Pending, Todo, Admitted
<1>4. OnlyZeroTokensExhaust'
  BY <1>3 DEF vars, sched, request, step, IInv, OnlyZeroTokensExhaust
<1>5. ASSUME pc # "exhausted" PROVE InCall'
  <2>1. Queued /\ Locals /\ Counted /\ Treed /\ Reserved /\ Budgeted
    BY <1>5 DEF IInv, InCall
  <2>2. Queued' /\ Locals'
    BY <1>3, <2>1 DEF vars, sched, request, step, pool, Queued, PadIds, Locals, Batch, Admitted, Alive
  <2>3. Counted' /\ Treed' /\ Reserved'
    BY <1>3, <2>1 DEF vars, sched, request, step, pool, Counted, CountedFor, Treed, Reserved, Taken
  <2>4. Budgeted'
    BY <1>3, <2>1 DEF vars, step, Budgeted, Usable
  <2> QED BY <2>2, <2>3, <2>4 DEF InCall
<1> QED BY <1>1, <1>2, <1>4, <1>5 DEF IInv, vars, step

LEMMA NextKeeps ==
    ASSUME IInv, [Next]_vars
    PROVE  IInv'
<1>1. CASE Capture
  BY <1>1, CaptureKeeps
<1>2. CASE Add
  BY <1>2, AddKeeps
<1>3. CASE BeginStep
  BY <1>3, BeginStepKeeps
<1>4. CASE Admit
  BY <1>4, AdmitKeeps
<1>5. CASE StepIsEmpty
  BY <1>5, StepIsEmptyKeeps
<1>6. CASE BeginRun
  BY <1>6, BeginRunKeeps
<1>7. CASE Reserve
  BY <1>7, ReserveKeeps
<1>8. CASE Forward
  BY <1>8, ForwardKeeps
<1>9. CASE AcceptDone
  BY <1>9, AcceptDoneKeeps
<1>10. CASE AcceptPlain
  BY <1>10, AcceptPlainKeeps
<1>11. CASE AcceptSpec
  BY <1>11, AcceptSpecKeeps
<1>12. CASE Regrow
  BY <1>12, RegrowKeeps
<1>13. CASE EndStep
  BY <1>13, EndStepKeeps
<1>14. CASE Draft
  BY <1>14, DraftKeeps
<1>15. CASE Raise
  BY <1>15, RaiseKeeps
<1>16. CASE UpdateWeights
  BY <1>16, UpdateWeightsKeeps
<1>17. CASE RestartHead
  BY <1>17, RestartHeadKeeps
<1>18. CASE EndUpdate
  BY <1>18, EndUpdateKeeps
<1>19. CASE Rest
  BY <1>19, StutterKeeps DEF Rest
<1>20. CASE UNCHANGED vars
  BY <1>20, StutterKeeps
<1> QED BY <1>1, <1>2, <1>3, <1>4, <1>5, <1>6, <1>7, <1>8, <1>9, <1>10, <1>11, <1>12, <1>13,
           <1>14, <1>15, <1>16, <1>17, <1>18, <1>19, <1>20
        DEF Next, StepAction, UpdateAction

\* The inductive invariant holds in every reachable state of the engine.
LEMMA Invariant == Spec => []IInv
<1>1. IInv /\ [Next]_vars => IInv'
  BY NextKeeps
<1> QED BY InitHolds, <1>1, PTL DEF Spec

(***************************************************************************)
(* What follows from it.                                                   *)
(***************************************************************************)
\* The engine's variables keep their types.
THEOREM EngineTypeCorrect == Spec => []TypeOK
<1>1. IInv => TypeOK
  BY DEF IInv
<1> QED BY <1>1, Invariant, PTL

\* In every state of every step, update or exception, each block is free, the pad's or one
\* request's, once (check(), allocator.py:79-85).
THEOREM EngineAccounting == Spec => []BlocksAccounted
<1>1. IInv => BlocksAccounted
  BY DEF IInv, PoolInv, BlocksAccounted
<1> QED BY <1>1, Invariant, PTL

\* The queues, the states of requests and the live tables agree, and max_running is kept
\* (scheduler.py:105-134).
THEOREM QueuesAgree == Spec => []QueuesConsistent
<1>1. IInv => QueuesConsistent
  BY DEF IInv, InCall, Queued, PadIds, QueuesConsistent
<1> QED BY <1>1, Invariant, PTL

\* The headroom argument of the Scheduler (scheduler.py:84-86, 105-120): for every pool,
\* queue and depth and width of speculation, no call to the pool is refused unless a
\* running request asked for no token.
THEOREM HeadroomSuffices == Spec => []OnlyZeroTokensExhaust
<1>1. IInv => OnlyZeroTokensExhaust
  BY DEF IInv
<1> QED BY <1>1, Invariant, PTL

\* The rows of a forward are reserved.
LEMMA RowsAreReserved == IInv => RowsFit
<1> SUFFICES ASSUME IInv, pc = "reserve", todo = << >> PROVE RowsFit
  BY DEF RowsFit
<1>1. TypeOK /\ PoolInv /\ Locals /\ Counted /\ Treed /\ Reserved
  BY DEF IInv, InCall
<1>2. /\ Running = Batch \cup Admitted /\ Batch \cap Admitted = {}
      /\ Pending = Running /\ Newly = Admitted /\ Todo = {} /\ Running \subseteq Request
  BY <1>1, StepRuns, Members, EmptyQueue DEF Todo
<1>3. ASSUME NEW r \in Batch
      PROVE  (Depth > 0 <=> tree[r] # NoTree) /\ committed[r] + 1 + tree[r] <= seq_len[r]
  <2>1. r \in Running /\ r \notin Newly /\ r \in Request
    BY <1>2
  <2>2. seq_len[r] = committed[r] + Slots
    BY <1>1, <1>2, <2>1 DEF Reserved, Taken
  <2>3. tree[r] <= NumDraft /\ (Depth = 0 => tree[r] = NoTree) /\ (Depth > 0 => tree[r] # NoTree)
    BY <1>1, <1>2, <2>1 DEF Treed
  <2>4. committed[r] \in Nat /\ tree[r] \in Nat
    BY <1>1, <2>1 DEF TypeOK, SchedTypeOK
  <2> QED BY <2>2, <2>3, <2>4, SlotsType, EngineAssumption DEF Slots
<1>4. ASSUME NEW r \in Admitted
      PROVE  tree[r] = NoTree /\ prompt[r] <= seq_len[r]
  <2>1. r \in Running /\ r \in Newly /\ r \in Request
    BY <1>2
  <2>2. seq_len[r] = prompt[r] + Taken(r) /\ Taken(r) \in Nat
    BY <1>1, <1>2, <2>1, SlotsType DEF Reserved, Taken, Extra
  <2>3. prompt[r] \in Nat
    BY <1>1, <2>1 DEF TypeOK, SchedTypeOK
  <2> QED BY <1>1, <2>1, <2>2, <2>3 DEF Counted, CountedFor
<1> QED BY <1>3, <1>4 DEF RowsFit, Batch, Admitted

\* Every row a forward of a step is given, verify, decode or prompt, has a reserved slot
\* (the assert of AttnMeta.from_rows, cache.py:128).
THEOREM RowsAlwaysFit == Spec => []RowsFit
<1> QED BY RowsAreReserved, Invariant, PTL

\* Between steps a running request holds committed + num_draft + 1 slots, committed
\* without speculation (engine.py:45-47, 356-357).
THEOREM ReservationsExact == Spec => []ReservationExact
<1>1. IInv => ReservationExact
  BY DEF IInv, InCall, Reserved, Taken, Extra, Slots, Newly, Pending, ReservationExact
<1> QED BY <1>1, Invariant, PTL

\* Between the first and the last of update_weights' restarts the list it iterates and the
\* list they shrink hold the same requests, so none survives it (engine.py:173-176).
THEOREM UpdatesComplete == Spec => UpdateRestartsAll
<1>1. ASSUME IInv, [Next]_vars, pc = "restart", pc' = "idle" PROVE running' = << >>
  <2>1. EndUpdate
    BY <1>1 DEF Next, StepAction, UpdateAction, Capture, Add, BeginStep, Admit, StepIsEmpty,
       BeginRun, Reserve, Forward, AcceptDone, AcceptPlain, AcceptSpec, InAccept, Regrow,
       EndStep, Draft, AcceptEnds, Raise, Refused, UpdateWeights, RestartHead, Rest, vars, step
  <2>2. todo = << >> /\ running' = running
    BY <2>1 DEF EndUpdate, sched
  <2>3. TypeOK /\ Todo = Running
    BY <1>1 DEF IInv, InCall, Locals
  <2>4. Running = {}
    BY <2>2, <2>3, EmptyQueue DEF Todo
  <2> QED BY <2>2, <2>3, <2>4, InToSet DEF Running, TypeOK, SchedTypeOK
<1>2. IInv /\ [Next]_vars => [pc = "restart" /\ pc' = "idle" => running' = << >>]_vars
  BY <1>1
<1> QED BY <1>2, Invariant, PTL DEF Spec, UpdateRestartsAll

----------------------------------------------------------------------------
(***************************************************************************)
(* What steps never do, and the abstract specification they implement.     *)
(***************************************************************************)
\* The Scheduler's docstring promise ("append() never fails mid-decode",
\* scheduler.py:84-86) holds for every caller that never asks for zero tokens.
THEOREM AppendIsSafe ==
    ASSUME 0 \notin MaxTokens
    PROVE  Spec => []AppendNeverFails
<1>1. Init => AppendNeverFails
  BY DEF Init, AppendNeverFails
<1>2. ASSUME IInv, IInv', AppendNeverFails, [Next]_vars PROVE AppendNeverFails'
  <2>1. SUFFICES ASSUME pc' = "exhausted" PROVE FALSE
    BY DEF AppendNeverFails
  <2>2. Raise
    BY <1>2, <2>1 DEF AppendNeverFails, Next, StepAction, UpdateAction, Capture, Add, BeginStep,
       Admit, StepIsEmpty, BeginRun, Reserve, Forward, AcceptDone, AcceptPlain, AcceptSpec,
       InAccept, Regrow, EndStep, Draft, AcceptEnds, UpdateWeights, RestartHead, EndUpdate,
       Rest, ReturnFromStep, vars, step
  <2>3. running' = running /\ max_tokens' = max_tokens
    BY <2>2 DEF Raise, request
  <2>4. PICK r \in Running : max_tokens[r] = 0
    BY <1>2, <2>1, <2>3 DEF IInv, OnlyZeroTokensExhaust, Running
  <2>5. TypeOK /\ Queued /\ Counted
    BY <1>2 DEF IInv, InCall, AppendNeverFails
  <2> QED BY <2>4, <2>5, AskedFor
<1> QED BY <1>1, <1>2, Invariant, PTL DEF Spec

----------------------------------------------------------------------------
\* Requests that emit, and by how much.
LEMMA Emits ==
    ASSUME IInv, [Next]_vars, out' # out
    PROVE  /\ pc = "accept" /\ todo # << >> /\ max_tokens' = max_tokens
           /\ \E a \in 0 .. Deepest(Head(todo)) : \E k \in 1 .. (a + 1) : \E done \in BOOLEAN :
                  AcceptTokens(Head(todo), a, k, done)
<1>1. AcceptDone \/ AcceptPlain \/ AcceptSpec
  BY DEF Next, StepAction, UpdateAction, Capture, Add, AddRequest, BeginStep, Admit,
     AdmitRequest, StepIsEmpty, BeginRun, Reserve, Forward, Regrow, EndStep, Draft, Raise,
     UpdateWeights, RestartHead, Restart, EndUpdate, Rest, vars, sched, request
<1>2. TypeOK /\ Locals /\ pc = "accept" /\ todo # << >>
  BY <1>1 DEF AcceptDone, AcceptPlain, AcceptSpec, InAccept, IInv, InCall
<1>3. Deepest(Head(todo)) \in Nat
  <2>1. Head(todo) \in Request
    BY <1>2, Visits
  <2>2. tree[Head(todo)] \in Nat /\ TopK \in Nat \ {0}
    BY <1>2, <2>1, EngineAssumption DEF TypeOK, SchedTypeOK
  <2>3. tree[Head(todo)] \div TopK \in Nat
    BY <2>2
  <2> QED BY <2>3 DEF Deepest
<1> DEFINE Some == \E a \in 0 .. Deepest(Head(todo)) : \E k \in 1 .. (a + 1) : \E done \in BOOLEAN :
                       AcceptTokens(Head(todo), a, k, done)
<1>4. CASE AcceptDone
  <2>1. Some
    BY <1>4 DEF AcceptDone
  <2> QED BY <1>2, <1>4, <2>1 DEF AcceptDone, AcceptTokens
<1>5. CASE AcceptPlain
  <2>1. 0 \in 0 .. Deepest(Head(todo)) /\ 1 \in 1 .. (0 + 1)
    BY <1>3
  <2>2. Some
    BY <1>5, <2>1 DEF AcceptPlain
  <2> QED BY <1>2, <1>5, <2>2 DEF AcceptPlain, AcceptTokens
<1>6. CASE AcceptSpec
  <2>1. PICK a \in 0 .. Deepest(Head(todo)) : AcceptTokens(Head(todo), a, a + 1, FALSE)
    BY <1>6 DEF AcceptSpec
  <2>2. a + 1 \in 1 .. (a + 1)
    BY <1>3
  <2>3. Some
    BY <2>1, <2>2
  <2> QED BY <1>2, <2>1, <2>3 DEF AcceptTokens
<1> QED BY <1>1, <1>4, <1>5, <1>6

\* Nobody is given more tokens than it asked for, and a request that goes on has tokens
\* left to emit (_emit, engine.py:155-163), if nobody asks for zero tokens.
THEOREM TokensBounded ==
    ASSUME 0 \notin MaxTokens
    PROVE  Spec => []WithinMaxTokens
<1> DEFINE Bounded == \A r \in Request : out[r] <= max_tokens[r]
<1>1. Init => Bounded
  BY DEF Init, SchedInit
<1>2. ASSUME IInv, Bounded, [Next]_vars PROVE Bounded'
  <2>1. TypeOK
    BY <1>2 DEF IInv
  <2>2. CASE out' = out
    <3>1. CASE max_tokens' = max_tokens
      BY <1>2, <2>2, <3>1
    <3>2. CASE max_tokens' # max_tokens
      <4>1. Add
        BY <1>2, <3>2 DEF Next, StepAction, UpdateAction, Capture, BeginStep, Admit, AdmitRequest,
           StepIsEmpty, BeginRun, Reserve, Forward, AcceptDone, AcceptPlain, AcceptSpec,
           AcceptTokens, Regrow, EndStep, Draft, Raise, UpdateWeights, RestartHead, Restart,
           EndUpdate, Rest, vars, sched, request
      <4>2. PICK n \in PromptLens : \E m \in MaxTokens : AddRequest(next_id, n, m)
        BY <4>1 DEF Add
      <4>3. PICK m \in MaxTokens : AddRequest(next_id, n, m)
        BY <4>2
      <4>4. next_id \in Request /\ m \in Nat
        BY <2>1, <4>1, EngineAssumption, SchedulerAssumption DEF Add, Request, TypeOK
      <4>5. Queued /\ Counted
        BY <1>2, <4>1 DEF Add, IInv, InCall
      <4>6. state[next_id] = "new"
        BY <4>4, <4>5 DEF Queued, Request
      <4>7. out[next_id] = 0
        BY <4>4, <4>5, <4>6 DEF Counted, CountedFor
      <4> QED BY <1>2, <2>1, <2>2, <4>3, <4>4, <4>7 DEF AddRequest, TypeOK, SchedTypeOK
    <3> QED BY <3>1, <3>2
  <2>3. CASE out' # out
    <3> DEFINE h == Head(todo)
    <3>1. /\ pc = "accept" /\ todo # << >> /\ max_tokens' = max_tokens
          /\ \E a \in 0 .. Deepest(h) : \E k \in 1 .. (a + 1) : \E done \in BOOLEAN :
                 AcceptTokens(h, a, k, done)
      BY <1>2, <2>3, Emits
    <3>2. PICK a \in 0 .. Deepest(h) : \E k \in 1 .. (a + 1) : \E done \in BOOLEAN :
                 AcceptTokens(h, a, k, done)
      BY <3>1
    <3>3. PICK k \in 1 .. (a + 1) : \E done \in BOOLEAN : AcceptTokens(h, a, k, done)
      BY <3>2
    <3>4. PICK done \in BOOLEAN : AcceptTokens(h, a, k, done)
      BY <3>3
    <3>5. Queued /\ Locals /\ Counted
      BY <1>2, <3>1 DEF IInv, InCall
    <3>6. h \in Request /\ h \in Running
      BY <2>1, <3>1, <3>5, Visits
    <3>7. /\ k \in Nat /\ out'[h] = out[h] + k
          /\ \A r \in Request \ {h} : out'[r] = out[r]
      BY <2>1, <3>4, <3>6, AcceptCounts
    <3>8. out[h] \in Nat /\ max_tokens[h] \in Nat /\ max_tokens[h] # 0
      BY <2>1, <3>5, <3>6, AskedFor DEF TypeOK, SchedTypeOK
    <3>9. out[h] < max_tokens[h]
      BY <3>5, <3>6, <3>8 DEF Counted, CountedFor
    <3>10. out[h] + k <= max_tokens[h]
      <4>1. \A i \in 1 .. (k - 1) : out[h] + i < max_tokens[h]
        BY <3>4 DEF AcceptTokens, Emitted
      <4>2. k # 1 => out[h] + (k - 1) < max_tokens[h]
        BY <3>3, <3>7, <4>1
      <4> QED BY <3>3, <3>7, <3>8, <3>9, <4>2
    <3> QED BY <1>2, <3>1, <3>6, <3>7, <3>10
  <2> QED BY <2>2, <2>3
<1>3. ASSUME IInv, Bounded PROVE WithinMaxTokens
  <2>1. ASSUME pc = "idle", NEW r \in Request, state[r] = "running"
        PROVE  out[r] < max_tokens[r]
    <3>1. Queued /\ Counted /\ Newly = {}
      BY <1>3, <2>1 DEF IInv, InCall, Newly, Pending
    <3>2. r \in Running
      BY <2>1, <3>1 DEF Queued
    <3> QED BY <3>1, <3>2, <2>1 DEF Counted, CountedFor
  <2> QED BY <1>3, <2>1 DEF WithinMaxTokens
<1> QED BY <1>1, <1>2, <1>3, Invariant, PTL DEF Spec

----------------------------------------------------------------------------
\* How far back the draft cache is extended: over tokens the target has committed.
Back(r) == ext[r] \in 1 .. committed[r]

ExtentOK == /\ \A r \in Request : state[r] # "new" => prompt[r] >= 1
            /\ pc \in {"accept", "regrow"} => \A r \in Alive : Back(r)
            /\ pc = "regrow" => Back(Head(todo))

LEMMA AcceptSpecExtends ==
    ASSUME IInv, ExtentOK, AcceptSpec
    PROVE  ExtentOK'
<1> DEFINE h == Head(todo)
<1>1. /\ TypeOK /\ Queued /\ Locals /\ Counted /\ Treed
      /\ pc = "accept" /\ todo # << >> /\ Depth > 0
      /\ UNCHANGED <<running, state, batch, admitted, headroom, todo, alive,
                     next_id, updates, asked>>
  BY DEF IInv, InCall, AcceptSpec, InAccept
<1>2. /\ h \in Request /\ h \in Running /\ h \in Todo /\ Todo \subseteq Running
      /\ Alive = Running \ Todo /\ Alive \subseteq Request
  BY <1>1, Visits, Members DEF Locals
<1>3. PICK a \in 0 .. Deepest(h) :
          /\ AcceptTokens(h, a, a + 1, FALSE)
          /\ ext' = [ext EXCEPT ![h] = IF tree[h] = NoTree THEN prompt[h] ELSE a + 1]
  BY DEF AcceptSpec
<1>4. a + 1 \in 1 .. (a + 1) /\ a \in Nat
  <2>1. tree[h] \in Nat /\ TopK \in Nat \ {0}
    BY <1>1, <1>2, EngineAssumption DEF TypeOK, SchedTypeOK
  <2>2. tree[h] \div TopK \in Nat
    BY <2>1
  <2> QED BY <2>2 DEF Deepest
<1>5. /\ prompt' = prompt /\ committed[h] \in Nat /\ prompt[h] \in Nat
      /\ committed'[h] = committed[h] + IF tree[h] # NoTree THEN a + 1 ELSE Span(h)
      /\ \A r \in Request \ {h} : committed'[r] = committed[r]
  BY <1>1, <1>2, <1>3, <1>4, AcceptCounts DEF TypeOK, SchedTypeOK
<1>6. /\ ext'[h] = IF tree[h] = NoTree THEN prompt[h] ELSE a + 1
      /\ \A r \in Request \ {h} : ext'[r] = ext[r]
  BY <1>1, <1>2, <1>3 DEF TypeOK
<1>7. prompt[h] >= 1
  <2>1. state[h] # "new"
    BY <1>1, <1>2 DEF Queued
  <2> QED BY <1>2, <2>1 DEF ExtentOK
<1>8. ext'[h] \in 1 .. committed'[h]
  <2>1. CASE tree[h] # NoTree
    BY <1>4, <1>5, <1>6, <2>1
  <2>2. CASE tree[h] = NoTree
    <3>1. Pending = Todo
      BY <1>1 DEF Pending
    <3>2. h \in Newly
      BY <1>1, <1>2, <2>2, <3>1 DEF Treed
    <3>3. committed[h] = 0 /\ Span(h) = prompt[h]
      BY <1>1, <1>2, <3>2 DEF Counted, CountedFor, Span, Newly, Admitted
    <3> QED BY <1>5, <1>6, <1>7, <2>2, <3>3
  <2> QED BY <2>1, <2>2
<1>9. \A r \in Alive : r # h /\ Back(r)
  BY <1>1, <1>2 DEF ExtentOK
<1>10. Alive' = Alive /\ \A r \in Alive : ext'[r] = ext[r] /\ committed'[r] = committed[r]
  BY <1>1, <1>2, <1>5, <1>6, <1>9 DEF Alive
<1>11. \A r \in Alive' : Back(r)'
  BY <1>9, <1>10 DEF Back
<1>12. Back(Head(todo))'
  BY <1>1, <1>8 DEF Back
<1> QED BY <1>1, <1>5, <1>11, <1>12 DEF ExtentOK

LEMMA NextExtends ==
    ASSUME IInv, ExtentOK, [Next]_vars
    PROVE  ExtentOK'
<1>1. TypeOK
  BY DEF IInv
<1>2. CASE Add
  <2>1. PICK n \in PromptLens : \E m \in MaxTokens : AddRequest(next_id, n, m)
    BY <1>2 DEF Add
  <2>2. PICK m \in MaxTokens : AddRequest(next_id, n, m)
    BY <2>1
  <2>3. next_id \in Request /\ n \in Nat \ {0} /\ pc' = "idle"
    BY <1>1, <1>2, EngineAssumption, SchedulerAssumption DEF Add, Request, TypeOK, step
  <2>4. /\ prompt'[next_id] = n
        /\ \A r \in Request \ {next_id} : prompt'[r] = prompt[r] /\ state'[r] = state[r]
    BY <1>1, <2>2, <2>3 DEF AddRequest, TypeOK, SchedTypeOK
  <2> QED BY <2>3, <2>4 DEF ExtentOK
<1>3. CASE Admit
  <2>1. Queued /\ waiting # << >>
    BY <1>3 DEF Admit, HeadFits, MayAdmit, IInv, InCall
  <2>2. Head(waiting) \in Request /\ Head(waiting) \in ToSet(waiting)
    BY <1>1, <2>1, TailQueue DEF TypeOK, SchedTypeOK
  <2>3. state[Head(waiting)] = "waiting"
    BY <2>1, <2>2 DEF Queued
  <2>4. prompt' = prompt /\ pc' = "admit"
        /\ \A r \in Request : state'[r] # "new" => state[r] # "new"
    BY <1>1, <1>3, <2>2, <2>3 DEF Admit, AdmitRequest, TypeOK, SchedTypeOK
  <2> QED BY <2>4 DEF ExtentOK
<1>4. CASE AcceptDone
  <2>1. Locals /\ Queued /\ pc = "accept" /\ todo # << >> /\ pc' = "accept" /\ alive' = alive
        /\ ext' = ext
    BY <1>4 DEF AcceptDone, InAccept, IInv, InCall
  <2>2. Head(todo) \in Request /\ Head(todo) \in Running /\ Head(todo) \in Todo
    BY <1>1, <2>1, Visits
  <2>3. state[Head(todo)] = "running"
    BY <2>1, <2>2 DEF Queued
  <2>4. prompt' = prompt /\ \A r \in Request \ {Head(todo)} : committed'[r] = committed[r]
    BY <1>1, <1>4, <2>2 DEF AcceptDone, AcceptTokens, TypeOK, SchedTypeOK
  <2>5. \A r \in Request : state'[r] # "new" => state[r] # "new"
    BY <1>1, <1>4, <2>2, <2>3 DEF AcceptDone, Finish, TypeOK, SchedTypeOK
  <2>6. \A r \in Alive : r \in Request /\ r # Head(todo)
    <3>1. Depth > 0 => Alive = Running \ Todo
      BY <2>1 DEF Locals
    <3>2. ~(Depth > 0) => Alive = {}
      BY <2>1, EmptyQueue, EngineAssumption DEF Locals, Alive
    <3> QED BY <1>1, <2>2, <3>1, <3>2, Members
  <2>7. Alive' = Alive /\ \A r \in Alive : Back(r)'
    BY <2>1, <2>4, <2>6 DEF Alive, Back, ExtentOK
  <2> QED BY <2>1, <2>4, <2>5, <2>7 DEF ExtentOK
<1>5. CASE AcceptSpec
  BY <1>5, AcceptSpecExtends
<1>6. CASE AcceptPlain
  <2>1. Depth = 0 /\ alive' = alive /\ Locals
    BY <1>6 DEF AcceptPlain, InAccept, IInv, InCall
  <2>2. Alive' = {}
    BY <2>1, EmptyQueue DEF Alive, Locals
  <2> QED BY <1>6, <2>2 DEF AcceptPlain, InAccept, AcceptTokens, ExtentOK
<1>7. CASE Regrow
  <2>1. Locals /\ pc = "regrow" /\ pc' = "accept" /\ alive' = Append(alive, Head(todo))
        /\ UNCHANGED <<sched, ext>>
    BY <1>7 DEF Regrow, IInv, InCall
  <2>2. Head(todo) \in Request /\ alive \in Seq(Request)
    BY <1>1, <2>1, Visits DEF Locals, TypeOK
  <2>3. Alive' = Alive \cup {Head(todo)}
    BY <2>1, <2>2, AppendQueue DEF Alive
  <2>4. \A r \in Alive' : Back(r)'
    BY <2>1, <2>3 DEF Back, ExtentOK, sched, request
  <2> QED BY <2>1, <2>4 DEF ExtentOK, sched, request
<1>8. CASE Forward
  <2>1. alive' = << >> /\ UNCHANGED sched /\ pc' = "accept"
    BY <1>8 DEF Forward, IInv, InCall, Locals
  <2>2. Alive' = {}
    BY <2>1, EmptyQueue DEF Alive
  <2> QED BY <2>1, <2>2 DEF ExtentOK, sched, request
<1>9. CASE RestartHead
  <2>1. Locals /\ Queued /\ pc = "restart" /\ todo # << >> /\ pc' = "restart"
    BY <1>9 DEF RestartHead, IInv, InCall
  <2>2. Head(todo) \in Request /\ Head(todo) \in Running
    BY <1>1, <2>1, Visits
  <2>3. state[Head(todo)] = "running"
    BY <2>1, <2>2 DEF Queued
  <2>4. \A r \in Request : /\ prompt[r] \in Nat /\ prompt'[r] \in Nat /\ prompt'[r] >= prompt[r]
                           /\ state'[r] # "new" => state[r] # "new"
    <3>1. /\ prompt' = [prompt EXCEPT ![Head(todo)] = @ + out[Head(todo)]]
          /\ state' = [state EXCEPT ![Head(todo)] = "waiting"]
      BY <1>9 DEF RestartHead, Restart
    <3>2. prompt \in [Request -> Nat] /\ state \in [Request -> State] /\ out[Head(todo)] \in Nat
      BY <1>1, <2>2 DEF TypeOK, SchedTypeOK
    <3> QED BY <2>2, <2>3, <3>1, <3>2
  <2>5. \A r \in Request : state'[r] # "new" => prompt'[r] >= 1
    BY <2>4 DEF ExtentOK
  <2> QED BY <2>1, <2>5 DEF ExtentOK
<1>10. CASE Capture \/ BeginStep \/ StepIsEmpty \/ BeginRun \/ EndStep \/ UpdateWeights \/ EndUpdate
  BY <1>10 DEF Capture, BeginStep, StepIsEmpty, BeginRun, EndStep, UpdateWeights, EndUpdate,
     ReturnFromStep, sched, request, ExtentOK
<1>11. CASE Reserve \/ Raise \/ Draft
  BY <1>11 DEF Reserve, Raise, Draft, ReturnFromStep, sched, request, ExtentOK
<1>12. CASE Rest \/ UNCHANGED vars
  BY <1>12 DEF Rest, vars, step, sched, request, ExtentOK, Back, Alive
<1> QED BY <1>2, <1>3, <1>4, <1>5, <1>6, <1>7, <1>8, <1>9, <1>10, <1>11, <1>12
        DEF Next, StepAction, UpdateAction

\* The draft cache's rows have reserved slots: a level of the tree, the extend over the new
\* tokens, and the extend padded to Depth + 1 rows for a graph (engine.py:410-515).
THEOREM DraftRowsAlwaysFit == Spec => []DraftRowsFit
<1>1. Init => ExtentOK
  BY DEF Init, SchedInit, ExtentOK
<1>2. IInv /\ ExtentOK /\ [Next]_vars => ExtentOK'
  BY NextExtends
<1>3. ASSUME IInv, ExtentOK PROVE DraftRowsFit
  <2> SUFFICES ASSUME pc = "accept", todo = << >>, NEW r \in Alive
               PROVE  /\ committed[r] + NumDraft <= seq_len[r]
                      /\ ext[r] \in 1 .. committed[r]
                      /\ ext[r] <= Depth + 1 => committed[r] - ext[r] + Depth + 1 <= seq_len[r]
    BY DEF DraftRowsFit, AcceptEnds, Alive
  <2>1. TypeOK /\ Locals /\ Reserved
    BY <1>3 DEF IInv, InCall
  <2>2. Todo = {} /\ Pending = {} /\ Newly = {}
    BY EmptyQueue DEF Todo, Pending, Newly
  <2>3. Depth > 0
    <3>1. Depth = 0 => Alive = {}
      BY <2>1, EmptyQueue DEF Locals, Alive
    <3> QED BY <3>1, EngineAssumption
  <2>4. r \in Running /\ r \in Request
    BY <2>1, <2>2, <2>3, Members DEF Locals
  <2>5. seq_len[r] = committed[r] + Slots
    BY <2>1, <2>2, <2>3, <2>4 DEF Reserved, Taken, Extra
  <2>6. committed[r] \in Nat /\ ext[r] \in 1 .. committed[r]
    BY <1>3, <2>1, <2>4 DEF TypeOK, SchedTypeOK, ExtentOK, Back
  <2>7. NumDraft \in Nat /\ Depth <= NumDraft /\ Slots = NumDraft + 1 /\ Depth \in Nat
    <3>1. Depth * TopK >= Depth
      BY EngineAssumption
    <3> QED BY <3>1, SlotsType, EngineAssumption DEF NumDraft, Slots
  <2> QED BY <2>5, <2>6, <2>7
<1> QED BY <1>1, <1>2, <1>3, Invariant, PTL DEF Spec

----------------------------------------------------------------------------
\* A running request's committed positions lie in its blocks.
CommittedHeld == pc # "exhausted" =>
    \A r \in Running : /\ committed[r] \in Nat /\ committed[r] <= seq_len[r]
                       /\ BlocksFor(committed[r]) \in Nat
                       /\ BlocksFor(committed[r]) <= Len(blocks[r])

LEMMA CommittedIsHeld == IInv => CommittedHeld
<1> SUFFICES ASSUME IInv, pc # "exhausted", NEW r \in Running
             PROVE  /\ committed[r] \in Nat /\ committed[r] <= seq_len[r]
                    /\ BlocksFor(committed[r]) \in Nat
                    /\ BlocksFor(committed[r]) <= Len(blocks[r])
  BY DEF CommittedHeld
<1>1. TypeOK /\ PoolInv /\ Counted /\ Reserved
  BY DEF IInv, InCall
<1>2. r \in Request /\ r \in Id
  BY <1>1, Members
<1>3. committed[r] \in Nat /\ prompt[r] \in Nat /\ seq_len[r] \in Nat
  BY <1>1, <1>2 DEF TypeOK, SchedTypeOK, PoolTypeOK
<1>4. Taken(r) \in Nat
  BY SlotsType DEF Taken, Extra
<1>5. committed[r] <= seq_len[r]
  <2>1. seq_len[r] = (IF r \in Newly THEN prompt[r] ELSE committed[r]) + Taken(r)
    BY <1>1 DEF Reserved
  <2>2. r \in Newly => committed[r] = 0
    BY <1>1, <1>2 DEF Counted, CountedFor
  <2> QED BY <1>3, <1>4, <2>1, <2>2
<1>6. BlocksFor(committed[r]) \in Nat /\ BlocksFor(committed[r]) <= BlocksFor(seq_len[r])
  BY <1>3, <1>5, BlocksForCeiling, BlocksForMonotone
<1>7. Len(blocks[r]) = BlocksFor(seq_len[r])
  BY <1>1, <1>2 DEF PoolInv, TablesSized
<1> QED BY <1>3, <1>5, <1>6, <1>7

\* append leaves the blocks a table has in place.
LEMMA AppendStays ==
    ASSUME PoolInv, NEW h \in Id, NEW n \in Nat, AppendTokens(h, n)
    PROVE  /\ \A i \in 1 .. Len(blocks[h]) : blocks'[h][i] = blocks[h][i]
           /\ \A r \in Id \ {h} : blocks'[r] = blocks[r]
<1>1. blocks \in [Id -> Seq(Block)] /\ blocks[h] \in Seq(Block) /\ free \in Seq(Block)
      /\ seq_len[h] \in Nat /\ Len(blocks[h]) = BlocksFor(seq_len[h])
  BY DEF PoolInv, PoolTypeOK, TablesSized
<1> DEFINE k == Need(h, n)
           x == seq_len[h]
           y == seq_len[h] + n
<1>2. x \in Nat /\ y \in Nat /\ x <= y /\ k = BlocksFor(y) - BlocksFor(x) /\ k <= Len(free)
  BY <1>1 DEF Need, AppendTokens, FitsAppend, NumFree
<1>3. blocks' = [blocks EXCEPT ![h] = blocks[h] \o Popped(k)]
  BY DEF AppendTokens
<1> HIDE DEF k, x, y
<1>4. k \in Nat
  <2>1. BlocksFor(x) \in Nat /\ BlocksFor(y) \in Nat /\ BlocksFor(x) <= BlocksFor(y)
    BY <1>2, BlocksForCeiling, BlocksForMonotone
  <2> QED BY <1>2, <2>1
<1>5. Popped(k) \in Seq(Block)
  BY <1>1, <1>2, <1>4, PoppedLeft
<1>6. \A i \in 1 .. Len(blocks[h]) : (blocks[h] \o Popped(k))[i] = blocks[h][i]
  BY <1>1, <1>5, ConcatElements
<1>7. blocks'[h] = blocks[h] \o Popped(k) /\ \A r \in Id \ {h} : blocks'[r] = blocks[r]
  BY <1>1, <1>3
<1> QED BY <1>6, <1>7

\* rollback leaves the blocks it keeps in place.
LEMMA RollbackStays ==
    ASSUME PoolInv, NEW h \in Id, NEW n \in Nat, Rollback(h, n)
    PROVE  /\ \A i \in 1 .. BlocksFor(n) : blocks'[h][i] = blocks[h][i]
           /\ \A r \in Id \ {h} : blocks'[r] = blocks[r]
<1>1. blocks \in [Id -> Seq(Block)] /\ blocks[h] \in Seq(Block)
      /\ seq_len[h] \in Nat /\ Len(blocks[h]) = BlocksFor(seq_len[h]) /\ n <= seq_len[h]
  BY DEF PoolInv, PoolTypeOK, TablesSized, Rollback
<1>2. BlocksFor(n) \in Nat /\ BlocksFor(n) <= Len(blocks[h])
  BY <1>1, BlocksForCeiling, BlocksForMonotone
<1> DEFINE m == BlocksFor(n)
           b == blocks[h]
           t == SubSeq(b, 1, m)
<1>3. blocks' = [blocks EXCEPT ![h] = t]
  BY DEF Rollback
<1>4. \A i \in 1 .. m : t[i] = b[i]
  <2>1. m \in Nat /\ b \in Seq(Block)
    BY <1>1, <1>2
  <2> HIDE DEF m, b
  <2> QED BY <2>1
<1> HIDE DEF t
<1>5. blocks'[h] = t /\ \A r \in Id \ {h} : blocks'[r] = blocks[r]
  BY <1>1, <1>3
<1> QED BY <1>4, <1>5

\* What a step does to the table of a request that runs before and after it.
LEMMA StepStays ==
    ASSUME IInv, Next, pc # "exhausted",
           NEW r \in Request, state[r] = "running", state'[r] = "running",
           NEW i \in 1 .. BlocksFor(committed[r])
    PROVE  blocks'[r][i] = blocks[r][i]
<1>1. TypeOK /\ PoolInv /\ Queued /\ Locals /\ Counted
  BY DEF IInv, InCall
<1>2. r \in Running /\ r \in Id /\ r # Pad /\ Pad \in Id
  BY <1>1, Members DEF Queued
<1>3. /\ committed[r] \in Nat /\ BlocksFor(committed[r]) \in Nat
      /\ BlocksFor(committed[r]) <= Len(blocks[r])
  BY <1>2, CommittedIsHeld DEF CommittedHeld
<1>4. blocks \in [Id -> Seq(Block)] /\ blocks[r] \in Seq(Block) /\ i \in 1 .. Len(blocks[r])
  BY <1>1, <1>2, <1>3 DEF PoolInv, PoolTypeOK
<1>5. CASE Capture
  BY <1>2, <1>4, <1>5 DEF Capture, Alloc
<1>6. CASE Admit
  <2>1. waiting # << >> /\ waiting \in Seq(Request)
    BY <1>1, <1>6 DEF Admit, HeadFits, MayAdmit, TypeOK, SchedTypeOK
  <2>2. Head(waiting) # r
    BY <1>1, <2>1, TailQueue DEF Queued
  <2> QED BY <1>2, <1>4, <1>6, <2>2 DEF Admit, AdmitRequest, Alloc
<1>7. CASE Reserve
  <2>1. todo # << >> /\ todo \in Seq(Request) /\ AppendTokens(Head(todo), Slots)
    BY <1>1, <1>7 DEF Reserve, TypeOK
  <2>2. Head(todo) \in Id
    BY <1>1, <2>1, TailQueue, Members
  <2> QED BY <1>1, <1>2, <1>4, <2>1, <2>2, SlotsType, AppendStays
<1>8. CASE Regrow
  <2>1. AppendTokens(Head(todo), Slots) /\ Head(todo) \in Id
    BY <1>1, <1>8, Visits DEF Regrow, Locals
  <2> QED BY <1>1, <1>2, <1>4, <2>1, SlotsType, AppendStays
<1>9. CASE AcceptDone
  <2>1. Head(todo) \in Request /\ Finish(Head(todo))
    BY <1>1, <1>9, Visits DEF AcceptDone, InAccept
  <2>2. Head(todo) # r
    BY <1>1, <2>1 DEF Finish, TypeOK, SchedTypeOK
  <2> QED BY <1>2, <1>4, <2>1, <2>2 DEF Finish, FreeTable
<1>10. CASE RestartHead
  <2>1. Head(todo) \in Request /\ Restart(Head(todo))
    BY <1>1, <1>10, Visits DEF RestartHead
  <2>2. Head(todo) # r
    BY <1>1, <2>1 DEF Restart, TypeOK, SchedTypeOK
  <2> QED BY <1>2, <1>4, <2>1, <2>2 DEF Restart, FreeTable
<1>11. CASE AcceptSpec
  <2> DEFINE h == Head(todo)
  <2>1. h \in Request /\ h \in Id /\ h \in Running /\ h \in Todo /\ Todo \subseteq Running
        /\ pc = "accept"
    BY <1>1, <1>11, Visits DEF AcceptSpec, InAccept
  <2>2. PICK a \in 0 .. Deepest(h) : AcceptTokens(h, a, a + 1, FALSE)
    BY <1>11 DEF AcceptSpec
  <2>3. Rollback(h, committed'[h])
    BY <1>11 DEF AcceptSpec
  <2>4. committed'[h] \in Nat /\ committed[h] \in Nat /\ committed[h] <= committed'[h]
    <3>1. a \in Nat /\ a + 1 \in 1 .. (a + 1)
      <4>1. tree[h] \in Nat /\ TopK \in Nat \ {0}
        BY <1>1, <2>1, EngineAssumption DEF TypeOK, SchedTypeOK
      <4>2. tree[h] \div TopK \in Nat
        BY <4>1
      <4> QED BY <4>2 DEF Deepest
    <3>2. /\ committed'[h] = committed[h] + IF tree[h] # NoTree THEN a + 1 ELSE Span(h)
          /\ Span(h) \in Nat
      BY <1>1, <2>1, <2>2, <3>1, AcceptCounts
    <3>3. committed[h] \in Nat
      BY <1>1, <2>1 DEF TypeOK, SchedTypeOK
    <3> QED BY <3>1, <3>2, <3>3
  <2>5. /\ \A j \in 1 .. BlocksFor(committed'[h]) : blocks'[h][j] = blocks[h][j]
        /\ \A s \in Id \ {h} : blocks'[s] = blocks[s]
    BY <1>1, <2>1, <2>3, <2>4, RollbackStays
  <2>6. BlocksFor(committed[h]) <= BlocksFor(committed'[h]) /\ BlocksFor(committed'[h]) \in Nat
    BY <2>4, BlocksForMonotone, BlocksForCeiling
  <2>7. CASE r = h
    BY <1>3, <2>5, <2>6, <2>7
  <2>8. CASE r # h
    BY <1>2, <2>5, <2>8
  <2> QED BY <2>7, <2>8
<1>12. CASE UNCHANGED pool
  BY <1>12 DEF pool
<1> QED BY <1>5, <1>6, <1>7, <1>8, <1>9, <1>10, <1>11, <1>12
        DEF Next, StepAction, UpdateAction, Add, BeginStep, StepIsEmpty, BeginRun, Forward,
            AcceptPlain, EndStep, Draft, Raise, UpdateWeights, EndUpdate, Rest, vars

\* The blocks under what a running request has committed stay its own, in place, as long as
\* it runs: neither the rollback of rejected rows (engine.py:356-357) nor anything another
\* request does gives one of them away.
THEOREM CommittedNeverMoves == Spec => CommittedStays
<1> DEFINE Stays == \A r \in Request :
                        state[r] = "running" /\ state'[r] = "running" =>
                            /\ BlocksFor(committed'[r]) <= Len(blocks'[r])
                            /\ \A i \in 1 .. BlocksFor(committed[r]) : blocks'[r][i] = blocks[r][i]
<1>1. ASSUME IInv, IInv', CommittedHeld, CommittedHeld', Next, vars' # vars PROVE Stays
  <2> SUFFICES ASSUME NEW r \in Request, state[r] = "running", state'[r] = "running"
               PROVE  /\ BlocksFor(committed'[r]) <= Len(blocks'[r])
                      /\ \A i \in 1 .. BlocksFor(committed[r]) : blocks'[r][i] = blocks[r][i]
    OBVIOUS
  <2>1. pc # "exhausted"
    BY <1>1 DEF Next, StepAction, UpdateAction, Capture, Add, BeginStep, Admit, StepIsEmpty,
       BeginRun, Reserve, Forward, AcceptDone, AcceptPlain, AcceptSpec, InAccept, Regrow,
       EndStep, Draft, AcceptEnds, Raise, Refused, UpdateWeights, RestartHead, EndUpdate, Rest
  <2>2. \A i \in 1 .. BlocksFor(committed[r]) : blocks'[r][i] = blocks[r][i]
    BY <1>1, <2>1, StepStays
  <2>3. r \in Running
    BY <1>1, <2>1 DEF IInv, InCall, Queued
  <2>4. BlocksFor(committed'[r]) <= Len(blocks'[r])
    <3>1. CASE pc' # "exhausted"
      <4>1. r \in Running'
        BY <1>1, <3>1 DEF IInv, InCall, Queued
      <4> QED BY <1>1, <3>1, <4>1 DEF CommittedHeld
    <3>2. CASE pc' = "exhausted"
      <4>1. Raise
        BY <1>1, <2>1, <3>2 DEF Next, StepAction, UpdateAction, Capture, Add, BeginStep, Admit,
           StepIsEmpty, BeginRun, Reserve, Forward, AcceptDone, AcceptPlain, AcceptSpec, InAccept,
           Regrow, EndStep, Draft, AcceptEnds, UpdateWeights, RestartHead, EndUpdate, Rest,
           ReturnFromStep, step
      <4>2. committed' = committed /\ blocks' = blocks
        BY <4>1 DEF Raise, pool, request
      <4> QED BY <1>1, <2>1, <2>3, <4>2 DEF CommittedHeld
    <3> QED BY <3>1, <3>2
  <2> QED BY <2>2, <2>4
<1>2. IInv /\ IInv' /\ CommittedHeld /\ CommittedHeld' /\ [Next]_vars => [Stays]_vars
  BY <1>1
<1> QED BY <1>2, CommittedIsHeld, Invariant, PTL DEF Spec, CommittedStays

----------------------------------------------------------------------------
(***************************************************************************)
(* Admission control implements BlockBudgets, if nobody asks for zero      *)
(* tokens: what running requests hold stays within what they were          *)
(* promised, and the promises fit the pool together.                       *)
(***************************************************************************)
Granted == [r \in Request |-> IF state[r] = "running" THEN MaxBlocks(r) ELSE 0]
Used    == [r \in Request |-> Len(blocks[r])]

\* Requests keep to their budgets.
WithinBudgets == pc # "exhausted" =>
    /\ \A r \in Running : /\ Len(blocks[r]) \in Nat /\ Len(blocks[r]) <= MaxBlocks(r)
                          /\ MaxBlocks(r) \in Nat /\ MaxBlocks(r) <= Usable
    /\ Cardinality(Budgets!Units(Granted)) <= Usable

\* A share is no larger than all of them.
LEMMA OneShare ==
    ASSUME NEW S, IsFiniteSet(S), NEW f, \A s \in S : f[s] \in Nat, NEW r \in S
    PROVE  f[r] <= Cardinality(Pairs(S, f))
<1>1. IsFiniteSet({}) /\ {r} \subseteq S /\ r \notin {}
  BY FS_EmptySet
<1>2. Cardinality(Pairs({} \cup {r}, f)) = Cardinality(Pairs({}, f)) + f[r]
  BY <1>1, PairsAdd
<1>3. {} \cup {r} = {r} /\ Pairs({}, f) = {}
  BY PairsMember
<1>4. Cardinality(Pairs({}, f)) = 0
  BY <1>3, FS_EmptySet
<1>5. Cardinality(Pairs({r}, f)) <= Cardinality(Pairs(S, f))
  <2>1. \A s \in {r} : f[s] <= f[s]
    OBVIOUS
  <2> QED BY <1>1, <2>1, PairsMonotone
<1>6. Cardinality(Pairs({r}, f)) = 0 + f[r]
  BY <1>2, <1>3, <1>4
<1> QED BY <1>5, <1>6

LEMMA BudgetsKept ==
    ASSUME 0 \notin MaxTokens
    PROVE  IInv => WithinBudgets
<1> SUFFICES ASSUME IInv, pc # "exhausted" PROVE WithinBudgets
  BY DEF WithinBudgets
<1>1. TypeOK /\ PoolInv /\ Queued /\ Counted /\ Reserved /\ Budgeted
  BY DEF IInv, InCall
<1>2. Running \in SUBSET Request /\ IsFiniteSet(Running)
  BY <1>1, Members
<1>3. \A r \in Running : Promises[r] = MaxBlocks(r) /\ Promises[r] \in Nat
  BY <1>1, <1>2, PromisesType DEF TypeOK
<1>4. Cardinality(Pairs(Running, Promises)) \in Nat
      /\ Cardinality(Pairs(Running, Promises)) <= Usable
  BY <1>1, <1>2, PromisesFinite DEF Budgeted
<1>5. ASSUME NEW r \in Running
      PROVE  /\ Len(blocks[r]) \in Nat /\ Len(blocks[r]) <= MaxBlocks(r)
             /\ MaxBlocks(r) \in Nat /\ MaxBlocks(r) <= Usable
  <2>1. max_tokens[r] # 0
    BY <1>1, AskedFor
  <2>2. Lengths[r] \in Nat /\ Lengths[r] <= Promises[r]
    BY <1>1, <2>1, WithinPromise
  <2>3. Lengths[r] = Len(blocks[r])
    BY <1>1, <1>2, LengthsType, Members
  <2>4. Promises[r] <= Cardinality(Pairs(Running, Promises))
    BY <1>2, <1>3, OneShare
  <2> DEFINE c == Cardinality(Pairs(Running, Promises))
  <2>5. Promises[r] <= c /\ c \in Nat /\ c <= Usable /\ Usable \in Int
    BY <1>4, <2>4, PoolAssumption DEF Usable
  <2> HIDE DEF c
  <2> QED BY <1>3, <2>2, <2>3, <2>5
<1>6. Budgets!Units(Granted) = Pairs(Running, Promises)
  <2>1. \A p : p \in Pairs(Request, Granted) <=> p \in Pairs(Running, Promises)
    <3>1. ASSUME NEW p \in Pairs(Request, Granted) PROVE p \in Pairs(Running, Promises)
      <4>1. PICK r \in Request : \E i \in 1 .. Granted[r] : p = <<r, i>>
        BY PairsMember
      <4>2. PICK i \in 1 .. Granted[r] : p = <<r, i>>
        BY <4>1
      <4>3. r \in Running /\ Granted[r] = Promises[r]
        BY <1>1, <4>1, <4>2 DEF Granted, Promises, Queued
      <4> QED BY <4>2, <4>3, PairsMember
    <3>2. ASSUME NEW p \in Pairs(Running, Promises) PROVE p \in Pairs(Request, Granted)
      <4>1. PICK r \in Running : \E i \in 1 .. Promises[r] : p = <<r, i>>
        BY PairsMember
      <4>2. r \in Request /\ Granted[r] = Promises[r]
        BY <1>1, <1>2 DEF Granted, Promises, Queued
      <4> QED BY <4>1, <4>2, PairsMember
    <3> QED BY <3>1, <3>2
  <2>2. Budgets!Units(Granted) = Pairs(Request, Granted)
    BY DEF Budgets!Units, Pairs
  <2> QED BY <2>1, <2>2
<1> QED BY <1>4, <1>5, <1>6 DEF WithinBudgets

\* A step that leaves the tables, the states and the lengths of running requests alone.
LEMMA BudgetStutters ==
    ASSUME \A r \in Request : /\ state'[r] = "running" <=> state[r] = "running"
                              /\ state[r] = "running" => MaxBlocks(r)' = MaxBlocks(r)
                              /\ blocks'[r] = blocks[r]
    PROVE  UNCHANGED <<Granted, Used>>
<1>1. Granted' = Granted
  BY DEF Granted
<1>2. Used' = Used
  BY DEF Used
<1> QED BY <1>1, <1>2

\* The abstract specification counts with the same operator.
LEMMA SameCount == \A S : Budgets!Cardinality(S) = Cardinality(S)
  BY DEF Budgets!Cardinality, Cardinality

\* h's table grows or shrinks while it runs.
LEMMA BudgetUse ==
    ASSUME WithinBudgets', NEW h \in Request, h \in Running', pc' # "exhausted",
           state' = state, prompt' = prompt, max_tokens' = max_tokens, state[h] = "running",
           \A r \in Request \ {h} : blocks'[r] = blocks[r]
    PROVE  Budgets!Next
<1>1. MaxBlocks(h)' = MaxBlocks(h)
  BY DEF MaxBlocks
<1>2. /\ Len(blocks'[h]) \in Nat /\ MaxBlocks(h) \in Nat /\ Usable \in Int
      /\ Len(blocks'[h]) <= MaxBlocks(h) /\ MaxBlocks(h) <= Usable
  BY <1>1, PoolAssumption DEF WithinBudgets, Usable
<1>3. PICK u \in 0 .. Usable : u = Len(blocks'[h])
  BY <1>2
<1>4. Granted[h] = MaxBlocks(h) /\ Granted' = Granted
  <2>1. \A r \in Request : MaxBlocks(r)' = MaxBlocks(r)
    BY DEF MaxBlocks
  <2> QED BY <2>1 DEF Granted
<1>5. Used' = [Used EXCEPT ![h] = u]
  BY <1>3 DEF Used
<1>6. Budgets!Use(h, u)
  BY <1>2, <1>3, <1>4, <1>5 DEF Budgets!Use, Granted, Used
<1> QED BY <1>6 DEF Budgets!Next

\* h is admitted.
LEMMA BudgetGrant ==
    ASSUME WithinBudgets', NEW h \in Request, h \in Running', pc' # "exhausted",
           state \in [Request -> State], state[h] # "running",
           state' = [state EXCEPT ![h] = "running"],
           prompt' = prompt, max_tokens' = max_tokens,
           \A r \in Request \ {h} : blocks'[r] = blocks[r]
    PROVE  Budgets!Next
<1>1. \A r \in Request : MaxBlocks(r)' = MaxBlocks(r)
  BY DEF MaxBlocks
<1>2. /\ Len(blocks'[h]) \in Nat /\ MaxBlocks(h) \in Nat /\ Usable \in Int
      /\ Len(blocks'[h]) <= MaxBlocks(h) /\ MaxBlocks(h) <= Usable
  BY <1>1, PoolAssumption DEF WithinBudgets, Usable
<1>3. PICK u \in 0 .. Usable : u = Len(blocks'[h])
  BY <1>2
<1>4. PICK n \in 0 .. Usable : n = MaxBlocks(h)
  BY <1>2
<1>5. Granted[h] = 0 /\ Granted' = [Granted EXCEPT ![h] = n]
  BY <1>1, <1>4 DEF Granted
<1>6. Used' = [Used EXCEPT ![h] = u]
  BY <1>3 DEF Used
<1>7. Budgets!Cardinality(Budgets!Units(Granted')) <= Usable
  BY SameCount DEF WithinBudgets, Budgets!Units, Usable
<1>8. u <= n
  BY <1>2, <1>3, <1>4
<1>9. Budgets!Grant(h, n, u)
  BY <1>5, <1>6, <1>7, <1>8 DEF Budgets!Grant, Granted, Used
<1> QED BY <1>9 DEF Budgets!Next

\* h gives its blocks back.
LEMMA BudgetRelease ==
    ASSUME NEW h \in Request, state \in [Request -> State], NEW s \in State, s # "running",
           state' = [state EXCEPT ![h] = s],
           \A r \in Request \ {h} : MaxBlocks(r)' = MaxBlocks(r) /\ blocks'[r] = blocks[r],
           blocks'[h] = << >>
    PROVE  Budgets!Next
<1>1. Granted' = [Granted EXCEPT ![h] = 0]
  BY DEF Granted
<1>2. Used' = [Used EXCEPT ![h] = 0]
  <2>1. Len(blocks'[h]) = 0
    OBVIOUS
  <2> QED BY <2>1 DEF Used
<1>3. Budgets!Release(h)
  BY <1>1, <1>2 DEF Budgets!Release, Granted, Used
<1> QED BY <1>3 DEF Budgets!Next

LEMMA NextKeepsBudgets ==
    ASSUME IInv, IInv', WithinBudgets', pc # "exhausted", pc' # "exhausted", Next
    PROVE  Budgets!Next \/ UNCHANGED <<Granted, Used>>
<1>1. TypeOK /\ PoolInv /\ Queued /\ Locals /\ Counted
  BY DEF IInv, InCall
<1>2. Running' = {r \in Request : state'[r] = "running"}
  BY DEF IInv, InCall, Queued
<1>3. state \in [Request -> State] /\ blocks \in [Id -> Seq(Block)]
      /\ Request \subseteq Id /\ Pad \in Id /\ Pad \notin Request
  BY <1>1, Members DEF TypeOK, SchedTypeOK, PoolTypeOK
<1>4. CASE Capture
  <2>1. \A r \in Request : blocks'[r] = blocks[r]
    BY <1>3, <1>4 DEF Capture, Alloc
  <2>2. UNCHANGED <<state, prompt, max_tokens>>
    BY <1>4 DEF Capture, sched, request
  <2> QED BY <2>1, <2>2, BudgetStutters DEF MaxBlocks
<1>5. CASE Add
  <2>1. PICK n \in PromptLens : \E m \in MaxTokens : AddRequest(next_id, n, m)
    BY <1>5 DEF Add
  <2>2. PICK m \in MaxTokens : AddRequest(next_id, n, m)
    BY <2>1
  <2>3. next_id \in Request /\ blocks' = blocks
    BY <1>1, <1>5, SchedulerAssumption DEF Add, TypeOK, Request, pool
  <2>4. state[next_id] = "new"
    BY <1>1, <2>3 DEF Queued, Request
  <2>5. /\ state'[next_id] = "waiting"
        /\ \A r \in Request \ {next_id} : state'[r] = state[r] /\ prompt'[r] = prompt[r]
                                          /\ max_tokens'[r] = max_tokens[r]
    BY <1>1, <2>2, <2>3 DEF AddRequest, TypeOK, SchedTypeOK
  <2>6. \A r \in Request \ {next_id} : MaxBlocks(r)' = MaxBlocks(r)
    BY <2>5 DEF MaxBlocks
  <2> QED BY <2>3, <2>4, <2>5, <2>6, BudgetStutters
<1>6. CASE Admit
  <2>1. waiting # << >> /\ waiting \in Seq(Request)
    BY <1>1, <1>6 DEF Admit, HeadFits, MayAdmit, TypeOK, SchedTypeOK
  <2>2. Head(waiting) \in Request /\ state[Head(waiting)] = "waiting"
    BY <1>1, <2>1, TailQueue DEF Queued
  <2>3. /\ state' = [state EXCEPT ![Head(waiting)] = "running"]
        /\ prompt' = prompt /\ max_tokens' = max_tokens
        /\ \A r \in Request \ {Head(waiting)} : blocks'[r] = blocks[r]
    BY <1>3, <1>6 DEF Admit, AdmitRequest, Alloc
  <2>4. Head(waiting) \in Running'
    BY <1>2, <1>3, <2>2, <2>3
  <2> QED BY <1>3, <2>2, <2>3, <2>4, BudgetGrant
<1>7. CASE Reserve
  <2>1. /\ todo # << >> /\ todo \in Seq(Request) /\ AppendTokens(Head(todo), Slots)
        /\ UNCHANGED sched /\ pc = "reserve" /\ Todo \subseteq Batch \cup Admitted
    BY <1>1, <1>7 DEF Reserve, TypeOK, Locals
  <2>2. Head(todo) \in Request /\ Head(todo) \in Running
    BY <1>1, <2>1, TailQueue, StepRuns DEF Todo
  <2>3. state[Head(todo)] = "running"
    BY <1>1, <2>2 DEF Queued
  <2>4. \A r \in Request \ {Head(todo)} : blocks'[r] = blocks[r]
    BY <1>3, <2>1 DEF AppendTokens
  <2>5. state' = state /\ prompt' = prompt /\ max_tokens' = max_tokens /\ Running' = Running
    BY <2>1 DEF sched, request, Running
  <2> QED BY <2>2, <2>3, <2>4, <2>5, BudgetUse
<1>8. CASE Regrow
  <2>1. /\ Head(todo) \in Request /\ Head(todo) \in Running
        /\ AppendTokens(Head(todo), Slots) /\ UNCHANGED sched
    BY <1>1, <1>8, Visits DEF Regrow, Locals
  <2>2. state[Head(todo)] = "running"
    BY <1>1, <2>1 DEF Queued
  <2>3. \A r \in Request \ {Head(todo)} : blocks'[r] = blocks[r]
    BY <1>3, <2>1 DEF AppendTokens
  <2>4. state' = state /\ prompt' = prompt /\ max_tokens' = max_tokens /\ Running' = Running
    BY <2>1 DEF sched, request, Running
  <2> QED BY <2>1, <2>2, <2>3, <2>4, BudgetUse
<1>9. CASE AcceptSpec
  <2>1. /\ Head(todo) \in Request /\ Head(todo) \in Running
        /\ Rollback(Head(todo), committed'[Head(todo)])
        /\ UNCHANGED <<running, state>>
    BY <1>1, <1>9, Visits DEF AcceptSpec, InAccept
  <2>2. state[Head(todo)] = "running"
    BY <1>1, <2>1 DEF Queued
  <2>3. \A r \in Request \ {Head(todo)} : blocks'[r] = blocks[r]
    BY <1>3, <2>1 DEF Rollback
  <2>4. state' = state /\ prompt' = prompt /\ max_tokens' = max_tokens /\ Running' = Running
    BY <1>9, <2>1 DEF AcceptSpec, AcceptTokens, Running
  <2> QED BY <2>1, <2>2, <2>3, <2>4, BudgetUse
<1>10. CASE AcceptDone
  <2>1. /\ Head(todo) \in Request /\ Finish(Head(todo))
        /\ prompt' = prompt /\ max_tokens' = max_tokens
    BY <1>1, <1>10, Visits DEF AcceptDone, InAccept, AcceptTokens
  <2>2. /\ blocks'[Head(todo)] = << >>
        /\ \A r \in Request \ {Head(todo)} : blocks'[r] = blocks[r]
        /\ state' = [state EXCEPT ![Head(todo)] = "done"]
    BY <1>3, <2>1 DEF Finish, FreeTable
  <2>3. \A r \in Request : MaxBlocks(r)' = MaxBlocks(r)
    BY <2>1 DEF MaxBlocks
  <2>4. "done" \in State
    BY DEF State
  <2> QED BY <1>3, <2>1, <2>2, <2>3, <2>4, BudgetRelease
<1>11. CASE RestartHead
  <2>1. /\ Head(todo) \in Request /\ Restart(Head(todo))
    BY <1>1, <1>11, Visits DEF RestartHead
  <2>2. /\ blocks'[Head(todo)] = << >>
        /\ \A r \in Request \ {Head(todo)} : blocks'[r] = blocks[r] /\ prompt'[r] = prompt[r]
        /\ max_tokens' = max_tokens
        /\ state' = [state EXCEPT ![Head(todo)] = "waiting"]
    BY <1>1, <1>3, <2>1 DEF Restart, FreeTable, TypeOK, SchedTypeOK
  <2>3. \A r \in Request \ {Head(todo)} : MaxBlocks(r)' = MaxBlocks(r)
    BY <2>2 DEF MaxBlocks
  <2>4. "waiting" \in State
    BY DEF State
  <2> QED BY <1>3, <2>1, <2>2, <2>3, <2>4, BudgetRelease
<1>12. CASE UNCHANGED <<pool, state, prompt, max_tokens>>
  BY <1>12, BudgetStutters DEF pool, MaxBlocks
<1> QED BY <1>4, <1>5, <1>6, <1>7, <1>8, <1>9, <1>10, <1>11, <1>12
        DEF Next, StepAction, UpdateAction, BeginStep, StepIsEmpty, BeginRun, Forward,
            AcceptPlain, AcceptTokens, EndStep, Draft, Raise, UpdateWeights, EndUpdate, Rest,
            vars, sched, request

\* Admission control implements the abstract budgets: every step of the engine grants,
\* uses within its budget, or releases, and the pool can always honour every budget
\* (scheduler.py:102-120).
THEOREM ImplementsBudgets ==
    ASSUME 0 \notin MaxTokens
    PROVE  Spec => BudgetsSpec
<1>1. Init => Budgets!Init
  <2> SUFFICES ASSUME Init PROVE Budgets!Init
    OBVIOUS
  <2>1. \A r \in Request : state[r] # "running"
    BY DEF Init, SchedInit
  <2>2. \A r \in Request : Len(blocks[r]) = 0
    <3>1. \A r \in Request : blocks[r] = << >>
      BY SchedulerAssumption DEF Init, PoolInit
    <3>2. Len(<< >>) = 0
      OBVIOUS
    <3> QED BY <3>1, <3>2
  <2> QED BY <2>1, <2>2 DEF Budgets!Init
<1>2. IInv /\ IInv' /\ WithinBudgets' /\ AppendNeverFails /\ AppendNeverFails' /\ [Next]_vars
          => [Budgets!Next]_(Budgets!vars)
  <2> SUFFICES ASSUME IInv, IInv', WithinBudgets', AppendNeverFails, AppendNeverFails', [Next]_vars
               PROVE  Budgets!Next \/ UNCHANGED <<Granted, Used>>
    BY DEF Budgets!vars, Granted, Used
  <2>1. CASE Next
    BY <2>1, NextKeepsBudgets DEF AppendNeverFails
  <2>2. CASE UNCHANGED vars
    BY <2>2, BudgetStutters DEF vars, pool, sched, request, MaxBlocks
  <2> QED BY <2>1, <2>2
<1>3. IInv => WithinBudgets
  BY BudgetsKept
<1>4. Spec => []AppendNeverFails
  BY AppendIsSafe
<1> QED BY <1>1, <1>2, <1>3, <1>4, Invariant, PTL DEF Spec, BudgetsSpec, Budgets!Spec

----------------------------------------------------------------------------
(***************************************************************************)
(* Admission is first in, first out but for restarted requests.            *)
(***************************************************************************)
\* r is served before s for its age, or an update has sent both back.
Before(r, s) == r < s \/ (Restarted(r) /\ Restarted(s))

\* While an update restarts requests, those it has sent back are before the ones it will.
Fifo ==
    /\ \A i, j \in 1 .. Len(waiting) : i < j => Before(waiting[i], waiting[j])
    /\ \A r \in Running : \A s \in ToSet(waiting) :
           Before(r, s) \/ (pc = "restart" /\ Restarted(s))
    /\ \A r \in Request : prompt[r] >= asked[r]
    /\ \A r \in Running \ Newly : out[r] >= 1

\* A step that leaves the queues and the lengths alone.
LEMMA FifoStays ==
    ASSUME TypeOK, Fifo, UNCHANGED <<waiting, running, prompt, asked>>,
           pc = "restart" => pc' = "restart",
           \A r \in (Running \ Newly)' : out'[r] = out[r] /\ r \in Running \ Newly
    PROVE  Fifo'
<1>1. Running' = Running
  BY DEF Running
<1>2. \A r : Restarted(r)' = Restarted(r)
  BY DEF Restarted
<1>3. \A r, s : Before(r, s)' = Before(r, s)
  BY <1>2 DEF Before
<1> QED BY <1>1, <1>2, <1>3 DEF Fifo

\* _accept's loop leaves one request fewer to visit.
LEMMA AcceptedOne ==
    ASSUME IInv, IInv', pc = "accept", todo # << >>, pc' # "exhausted",
           UNCHANGED admitted,
           \/ pc' = "accept" /\ todo' = Tail(todo)
           \/ pc' = "regrow" /\ todo' = todo
    PROVE  /\ Pending' = Pending \ {Head(todo)} /\ Newly' = Newly \ {Head(todo)}
           /\ Head(todo) \in Request /\ Head(todo) \in Running
<1>1. TypeOK /\ Locals
  BY DEF IInv, InCall
<1>2. IsInjective(todo) /\ todo \in Seq(Request)
  BY <1>1 DEF Locals, TypeOK
<1>3. ToSet(Tail(todo)) = ToSet(todo) \ {Head(todo)}
  BY <1>2, TailQueue
<1>4. Pending' = Pending \ {Head(todo)}
  BY <1>3 DEF Pending, Todo
<1> QED BY <1>1, <1>4, Visits DEF Newly, Admitted

\* A new request is the youngest, and goes to the end of the queue.
LEMMA AddFifo ==
    ASSUME IInv, Fifo, Add
    PROVE  Fifo'
<1>0. PICK n : n = next_id
  OBVIOUS
<1>1. TypeOK /\ Queued /\ pc = "idle" /\ n \in Request /\ waiting \in Seq(Request)
  <2>1. TypeOK /\ pc = "idle" /\ next_id < MaxRequests
    BY DEF Add, IInv
  <2>2. Queued
    BY <2>1 DEF IInv, InCall
  <2>3. next_id \in Nat /\ waiting \in Seq(Request)
    BY <2>1 DEF TypeOK, SchedTypeOK
  <2>4. next_id \in 0 .. (MaxRequests - 1)
    BY <2>1, <2>3, SchedulerAssumption
  <2> QED BY <1>0, <2>1, <2>2, <2>3, <2>4 DEF Request
<1>2. PICK l \in PromptLens : \E m \in MaxTokens : AddRequest(n, l, m) /\ asked' = [asked EXCEPT ![n] = l]
  BY <1>0 DEF Add
<1>3. PICK m \in MaxTokens : AddRequest(n, l, m)
  BY <1>2
<1>4. /\ prompt'[n] = l /\ asked'[n] = l /\ l \in Nat
      /\ \A r \in Request \ {n} : prompt'[r] = prompt[r] /\ asked'[r] = asked[r]
  BY <1>1, <1>2, <1>3, EngineAssumption DEF AddRequest, TypeOK, SchedTypeOK
<1>5. waiting' = Append(waiting, n) /\ running' = running /\ out' = out /\ pc' = "idle"
      /\ Newly' = Newly
  BY <1>0, <1>1, <1>3 DEF Add, AddRequest, step, Newly, Pending, Admitted
<1>6. \A r \in Request : r \in Running \/ r \in ToSet(waiting) => r < n /\ r # n
  <2>1. \A r \in Request : r >= n => state[r] = "new"
    BY <1>0, <1>1 DEF Queued
  <2>2. \A r \in Request : r \in Int /\ n \in Int
    BY <1>1, SchedulerAssumption DEF Request
  <2> QED BY <1>0, <1>1, <2>1, <2>2 DEF Queued
<1>7. ToSet(waiting') = ToSet(waiting) \cup {n} /\ Running' = Running
      /\ ToSet(waiting) \subseteq Request /\ Running \subseteq Request
  BY <1>1, <1>5, AppendQueue, Members DEF Running
<1>8. \A r, s \in Request \ {n} : Before(r, s)' = Before(r, s)
  BY <1>4 DEF Before, Restarted
<1>9. \A r \in Request : r < n => Before(r, n)'
  BY <1>5 DEF Before
<1>10. \A i, j \in 1 .. Len(waiting') : i < j => Before(waiting[i], waiting[j])'
  <2> SUFFICES ASSUME NEW i \in 1 .. Len(waiting'), NEW j \in 1 .. Len(waiting'), i < j
               PROVE  Before(waiting[i], waiting[j])'
    OBVIOUS
  <2>1. /\ Len(waiting') = Len(waiting) + 1 /\ i \in 1 .. Len(waiting) /\ waiting'[i] = waiting[i]
        /\ j \in 1 .. Len(waiting) => waiting'[j] = waiting[j]
        /\ j \notin 1 .. Len(waiting) => waiting'[j] = n
    BY <1>1, <1>5
  <2>2. waiting[i] \in ToSet(waiting) /\ (j \in 1 .. Len(waiting) => waiting[j] \in ToSet(waiting))
    BY <1>1, <2>1, InToSet
  <2>3. j \in 1 .. Len(waiting) => Before(waiting[i], waiting[j])
    BY <2>1 DEF Fifo
  <2> QED BY <1>6, <1>7, <1>8, <1>9, <2>1, <2>2, <2>3
<1>11. \A r \in Running' : \A s \in ToSet(waiting') : Before(r, s)'
  BY <1>1, <1>6, <1>7, <1>8, <1>9 DEF Fifo
<1>12. \A r \in Request : prompt'[r] >= asked'[r]
  BY <1>4 DEF Fifo
<1> QED BY <1>5, <1>7, <1>10, <1>11, <1>12 DEF Fifo

\* The head of the queue, admitted, is before all that are left in it.
LEMMA AdmitFifo ==
    ASSUME IInv, IInv', Fifo, Admit
    PROVE  Fifo'
<1>0. PICK h : h = Head(waiting)
  OBVIOUS
<1>1. TypeOK /\ Queued /\ Locals /\ pc = "admit" /\ pc' = "admit" /\ waiting # << >>
      /\ waiting \in Seq(Request) /\ running \in Seq(Request) /\ admitted \in Seq(Request)
      /\ TypeOK' /\ Locals'
  BY DEF IInv, InCall, Admit, HeadFits, MayAdmit, TypeOK, SchedTypeOK
<1>2. /\ waiting' = Tail(waiting) /\ running' = Append(running, h)
      /\ admitted' = Append(admitted, h) /\ UNCHANGED <<prompt, asked, out>>
  BY <1>0 DEF Admit, AdmitRequest
<1>3. /\ h \in Request /\ ToSet(waiting') = ToSet(waiting) \ {h} /\ h = waiting[1]
      /\ Len(waiting') = Len(waiting) - 1 /\ Len(waiting) \in Nat \ {0}
      /\ \A i \in 1 .. Len(waiting') : waiting'[i] = waiting[i + 1]
  BY <1>0, <1>1, <1>2, TailQueue DEF Queued
<1>4. Running' = Running \cup {h}
  BY <1>1, <1>2, <1>3, AppendQueue DEF Running
<1>5. \A r, s : Before(r, s)' = Before(r, s)
  BY <1>2 DEF Before, Restarted
<1>6. \A i, j \in 1 .. Len(waiting') : i < j => Before(waiting[i], waiting[j])'
  <2> SUFFICES ASSUME NEW i \in 1 .. Len(waiting'), NEW j \in 1 .. Len(waiting'), i < j
               PROVE  Before(waiting[i], waiting[j])'
    OBVIOUS
  <2>1. i + 1 \in 1 .. Len(waiting) /\ j + 1 \in 1 .. Len(waiting) /\ i + 1 < j + 1
    BY <1>3
  <2>2. Before(waiting[i + 1], waiting[j + 1])
    BY <2>1 DEF Fifo
  <2> QED BY <1>3, <1>5, <2>2
<1>7. \A s \in ToSet(waiting') : Before(h, s)
  <2> SUFFICES ASSUME NEW s \in ToSet(waiting), s # h PROVE Before(h, s)
    BY <1>3
  <2>1. PICK j \in 1 .. Len(waiting) : waiting[j] = s
    BY <1>1, InToSet
  <2>2. 1 \in 1 .. Len(waiting) /\ 1 < j
    BY <1>3, <2>1
  <2> QED BY <1>3, <2>1, <2>2 DEF Fifo
<1>8. Running' \ Newly' \subseteq Running \ Newly
  <2>1. Newly = Running \cap Admitted /\ Newly' = Running' \cap Admitted'
    BY <1>1 DEF Newly, Pending, Running
  <2>2. Admitted' = Admitted \cup {h}
    BY <1>1, <1>2, <1>3, AppendQueue DEF Admitted
  <2> QED BY <1>4, <2>1, <2>2
<1>9. \A r \in Running' : \A s \in ToSet(waiting') : Before(r, s)'
  BY <1>1, <1>3, <1>4, <1>5, <1>7 DEF Fifo
<1> QED BY <1>2, <1>6, <1>8, <1>9 DEF Fifo

\* A request that is done, or goes on with a token more.
LEMMA AcceptFifo ==
    ASSUME IInv, IInv', Fifo, AcceptDone \/ AcceptPlain \/ AcceptSpec
    PROVE  Fifo'
<1>0. PICK h : h = Head(todo)
  OBVIOUS
<1>1. TypeOK /\ Queued /\ pc = "accept" /\ todo # << >> /\ running \in Seq(Request)
  BY DEF IInv, InCall, AcceptDone, AcceptPlain, AcceptSpec, InAccept, TypeOK, SchedTypeOK
<1>2. UNCHANGED <<waiting, prompt, asked, admitted>>
      /\ \/ pc' = "accept" /\ todo' = Tail(todo)
         \/ pc' = "regrow" /\ todo' = todo
  <2>1. CASE AcceptDone
    <3>1. PICK a \in 0 .. Deepest(h) : \E k \in 1 .. (a + 1) : AcceptTokens(h, a, k, TRUE)
      BY <1>0, <2>1 DEF AcceptDone
    <3>2. PICK k \in 1 .. (a + 1) : AcceptTokens(h, a, k, TRUE)
      BY <3>1
    <3>3. UNCHANGED <<waiting, prompt>>
      BY <3>2 DEF AcceptTokens
    <3>4. UNCHANGED <<asked, admitted, pc>> /\ todo' = Tail(todo)
      BY <2>1 DEF AcceptDone
    <3> QED BY <1>1, <3>3, <3>4
  <2>2. CASE AcceptPlain
    <3>1. AcceptTokens(h, 0, 1, FALSE) /\ UNCHANGED <<asked, admitted, pc>> /\ todo' = Tail(todo)
      BY <1>0, <2>2 DEF AcceptPlain
    <3>2. UNCHANGED <<waiting, prompt>>
      BY <3>1 DEF AcceptTokens
    <3> QED BY <1>1, <3>1, <3>2
  <2>3. CASE AcceptSpec
    <3>1. PICK a \in 0 .. Deepest(h) : AcceptTokens(h, a, a + 1, FALSE)
      BY <1>0, <2>3 DEF AcceptSpec
    <3>2. UNCHANGED <<waiting, prompt>>
      BY <3>1 DEF AcceptTokens
    <3>3. UNCHANGED <<asked, admitted, todo>> /\ pc' = "regrow"
      BY <2>3 DEF AcceptSpec
    <3> QED BY <1>1, <3>2, <3>3
  <2> QED BY <2>1, <2>2, <2>3
<1>3. Newly' = Newly \ {h} /\ h \in Request /\ h \in Running
  BY <1>0, <1>1, <1>2, AcceptedOne
<1>4. Running' = Running \ {h} \/ (Running' = Running /\ out'[h] >= 1)
  <2>1. CASE AcceptDone
    BY <1>0, <1>1, <1>3, <2>1, RemoveQueue DEF AcceptDone, Finish, Running, Queued
  <2>2. CASE AcceptPlain
    <3>1. AcceptTokens(h, 0, 1, FALSE) /\ running' = running
      BY <1>0, <2>2 DEF AcceptPlain
    <3> QED BY <1>1, <1>3, <3>1 DEF AcceptTokens, TypeOK, SchedTypeOK, Running
  <2>3. CASE AcceptSpec
    <3>1. PICK a \in 0 .. Deepest(h) : AcceptTokens(h, a, a + 1, FALSE)
      BY <1>0, <2>3 DEF AcceptSpec
    <3>2. a \in Nat
      <4>1. tree[h] \in Nat /\ TopK \in Nat \ {0}
        BY <1>1, <1>3, EngineAssumption DEF TypeOK, SchedTypeOK
      <4>2. tree[h] \div TopK \in Nat
        BY <4>1
      <4> QED BY <4>2 DEF Deepest
    <3>3. running' = running /\ out' = [out EXCEPT ![h] = @ + (a + 1)] /\ out[h] \in Nat
      BY <1>1, <1>3, <2>3, <3>1 DEF AcceptSpec, AcceptTokens, TypeOK, SchedTypeOK
    <3> QED BY SMTT(30), <1>1, <1>3, <3>2, <3>3 DEF TypeOK, SchedTypeOK, Running
  <2> QED BY <2>1, <2>2, <2>3
<1>5. \A r \in Request \ {h} : out'[r] = out[r]
  BY <1>0, <1>1, <1>3 DEF AcceptDone, AcceptPlain, AcceptSpec, AcceptTokens, TypeOK, SchedTypeOK
<1>6. \A r, s : Before(r, s)' = Before(r, s)
  BY <1>2 DEF Before, Restarted
<1>7. \A r \in (Running \ Newly)' : out'[r] >= 1
  BY <1>1, <1>3, <1>4, <1>5, Members DEF Fifo
<1>8. \A r \in Running' : r \in Running
  BY <1>4
<1> QED BY <1>1, <1>2, <1>6, <1>7, <1>8 DEF Fifo

\* A restarted request goes to the head of the queue, before those restarted before it.
LEMMA RestartFifo ==
    ASSUME IInv, Fifo, RestartHead
    PROVE  Fifo'
<1>0. PICK h : h = Head(todo)
  OBVIOUS
<1>1. TypeOK /\ Queued /\ Locals /\ pc = "restart" /\ pc' = "restart" /\ todo # << >>
      /\ waiting \in Seq(Request) /\ running \in Seq(Request)
  BY DEF IInv, InCall, RestartHead, TypeOK, SchedTypeOK
<1>2. h \in Request /\ h \in Running
  BY <1>0, <1>1, Visits
<1>3. /\ waiting' = <<h>> \o waiting /\ running' = Without(running, h)
      /\ prompt' = [prompt EXCEPT ![h] = @ + out[h]] /\ UNCHANGED <<asked, out>>
  BY <1>0 DEF RestartHead, Restart
<1>4. Running' = Running \ {h}
  BY <1>1, <1>2, <1>3, RemoveQueue DEF Running, Queued
<1>5. ToSet(waiting') = ToSet(waiting) \cup {h}
  BY <1>1, <1>2, <1>3, ConsQueue
<1>6. Newly = {} /\ Newly' = {} /\ Running \subseteq Request /\ ToSet(waiting) \subseteq Request
  BY <1>1, Members DEF Newly, Pending
<1>7. out[h] >= 1 /\ out[h] \in Nat
  BY <1>1, <1>2, <1>6 DEF Fifo, TypeOK, SchedTypeOK
<1>8. \A r \in Request : prompt[r] \in Nat /\ asked[r] \in Nat /\ prompt[r] >= asked[r]
  BY <1>1 DEF Fifo, TypeOK, SchedTypeOK
<1>9. /\ prompt'[h] = prompt[h] + out[h]
      /\ \A r \in Request \ {h} : prompt'[r] = prompt[r]
  BY <1>1, <1>2, <1>3 DEF TypeOK, SchedTypeOK
<1>10. Restarted(h)' /\ \A r \in Request : Restarted(r) => Restarted(r)'
  BY <1>2, <1>3, <1>7, <1>8, <1>9 DEF Restarted
<1>11. \A r, s \in Request : Before(r, s) => Before(r, s)'
  BY <1>10 DEF Before
<1>12. \A s \in ToSet(waiting) : Before(h, s)'
  BY <1>1, <1>2, <1>6, <1>10, <1>11 DEF Fifo, Before
<1>13. \A r \in Running' : \A s \in ToSet(waiting') : Before(r, s)' \/ Restarted(s)'
  BY <1>1, <1>2, <1>4, <1>5, <1>6, <1>10, <1>11 DEF Fifo
<1>14. \A i, j \in 1 .. Len(waiting') : i < j => Before(waiting[i], waiting[j])'
  <2> SUFFICES ASSUME NEW i \in 1 .. Len(waiting'), NEW j \in 1 .. Len(waiting'), i < j
               PROVE  Before(waiting[i], waiting[j])'
    OBVIOUS
  <2>1. /\ Len(waiting') = Len(waiting) + 1 /\ Len(waiting) \in Nat /\ waiting'[1] = h
        /\ \A k \in 2 .. (Len(waiting) + 1) : waiting'[k] = waiting[k - 1]
    BY <1>1, <1>2, <1>3
  <2>2. j - 1 \in 1 .. Len(waiting) /\ waiting'[j] = waiting[j - 1]
        /\ waiting[j - 1] \in ToSet(waiting)
    BY <1>1, <2>1, InToSet
  <2>3. CASE i = 1
    BY <1>12, <2>1, <2>2, <2>3
  <2>4. CASE i # 1
    <3>1. i - 1 \in 1 .. Len(waiting) /\ i - 1 < j - 1 /\ waiting'[i] = waiting[i - 1]
          /\ waiting[i - 1] \in ToSet(waiting)
      BY <1>1, <2>1, <2>4, InToSet
    <3>2. Before(waiting[i - 1], waiting[j - 1])
      BY <2>2, <3>1 DEF Fifo
    <3> QED BY <1>6, <1>11, <2>2, <3>1, <3>2
  <2> QED BY <2>3, <2>4
<1>15. \A r \in Request : prompt'[r] >= asked'[r]
  BY <1>3, <1>2, <1>7, <1>8, <1>9
<1>16. \A r \in (Running \ Newly)' : out'[r] >= 1
  BY <1>3, <1>4, <1>6 DEF Fifo
<1> QED BY <1>1, <1>13, <1>14, <1>15, <1>16 DEF Fifo

\* Every step keeps the order of the queue.
LEMMA NextFifo ==
    ASSUME IInv, IInv', Fifo, [Next]_vars, pc' # "exhausted"
    PROVE  Fifo'
<1>1. pc # "exhausted" /\ InCall /\ TypeOK /\ InCall' /\ TypeOK'
  BY DEF Next, StepAction, UpdateAction, Capture, Add, BeginStep, Admit, StepIsEmpty,
         BeginRun, Reserve, Forward, AcceptDone, AcceptPlain, AcceptSpec, InAccept, Regrow,
         EndStep, Draft, AcceptEnds, Raise, Refused, UpdateWeights, RestartHead, EndUpdate, Rest,
         vars, step, IInv
<1>2. CASE Add
  BY <1>2, AddFifo
<1>3. CASE Admit
  BY <1>3, AdmitFifo
<1>4. CASE AcceptDone \/ AcceptPlain \/ AcceptSpec
  BY <1>4, AcceptFifo
<1>5. CASE RestartHead
  BY <1>5, RestartFifo
<1>6. CASE Capture \/ UpdateWeights
  BY <1>1, <1>6, FifoStays DEF Capture, UpdateWeights, sched, request, Running, Newly, Pending
<1>7. CASE BeginStep \/ StepIsEmpty
  <2>1. UNCHANGED <<waiting, running, prompt, asked, out>> /\ pc # "restart"
    BY <1>7 DEF BeginStep, StepIsEmpty, sched, request
  <2>2. admitted = << >> /\ Running' = Running
    BY <1>1, <1>7, <2>1 DEF InCall, Locals, BeginStep, StepIsEmpty, Running
  <2>3. Newly = {}
    BY <2>2, EmptyQueue DEF Newly, Admitted
  <2> QED BY <1>1, <2>1, <2>2, <2>3, FifoStays
<1>8. CASE BeginRun \/ Reserve
  <2>1. UNCHANGED <<waiting, running, prompt, asked, out, admitted>> /\ pc # "restart"
    BY <1>8 DEF BeginRun, Reserve, sched, request
  <2>2. Newly' = Newly /\ Running' = Running
    BY <1>8, <2>1 DEF BeginRun, Reserve, Newly, Admitted, Pending, Running
  <2> QED BY <1>1, <2>1, <2>2, FifoStays
<1>9. CASE Forward
  <2>1. UNCHANGED <<waiting, running, prompt, asked, out, admitted>> /\ pc = "reserve"
        /\ pc' = "accept" /\ todo' = batch \o admitted
    BY <1>9 DEF Forward, sched, request
  <2>2. running = batch \o admitted
    BY <1>1, <2>1 DEF InCall, Locals
  <2>3. Newly' = Newly /\ Running' = Running
    BY <2>1, <2>2 DEF Newly, Admitted, Pending, Todo, Running
  <2> QED BY <1>1, <2>1, <2>3, FifoStays
<1>10. CASE Regrow
  <2>1. UNCHANGED <<waiting, running, prompt, asked, out, admitted>> /\ pc = "regrow"
        /\ pc' = "accept" /\ todo' = Tail(todo)
    BY <1>10 DEF Regrow, sched, request
  <2>2. todo \in Seq(Request) /\ IsInjective(todo) /\ todo # << >>
    BY <1>1, <2>1 DEF InCall, Locals, TypeOK
  <2>3. Pending' = Pending
    BY <2>1, <2>2, TailQueue DEF Pending, Todo
  <2>4. Newly' = Newly /\ Running' = Running
    BY <2>1, <2>3 DEF Newly, Admitted, Running
  <2> QED BY <1>1, <2>1, <2>4, FifoStays
<1>11. CASE EndStep \/ Draft
  <2>1. UNCHANGED <<waiting, running, prompt, asked, out>> /\ pc = "accept" /\ todo = << >>
        /\ pc' = "idle"
    BY <1>11 DEF EndStep, Draft, AcceptEnds, ReturnFromStep, sched, request
  <2>2. Newly = {} /\ Running' = Running
    BY <2>1, EmptyQueue DEF Newly, Pending, Todo, Running
  <2> QED BY <1>1, <2>1, <2>2, FifoStays
<1>12. CASE Raise
  BY <1>12 DEF Raise
<1>13. CASE EndUpdate
  <2>1. UNCHANGED <<waiting, running, prompt, asked, out>> /\ pc = "restart" /\ todo = << >>
    BY <1>13 DEF EndUpdate, sched, request
  <2>2. Todo = Running
    BY <1>1, <2>1 DEF InCall, Locals
  <2>3. Running = {} /\ Running' = {}
    BY <2>1, <2>2, EmptyQueue DEF Todo, Running
  <2>4. \A r, s : Before(r, s)' = Before(r, s)
    BY <2>1 DEF Before, Restarted
  <2> QED BY <2>1, <2>3, <2>4 DEF Fifo
<1>14. CASE Rest \/ UNCHANGED vars
  <2>1. UNCHANGED vars
    BY <1>14 DEF Rest
  <2>2. UNCHANGED <<waiting, running, prompt, asked, out, pc, admitted, todo>>
    BY <2>1 DEF vars, sched, request, step
  <2> QED BY <1>1, <2>2, FifoStays DEF Running, Newly, Pending, Todo, Admitted
<1> QED BY <1>2, <1>3, <1>4, <1>5, <1>6, <1>7, <1>8, <1>9, <1>10, <1>11, <1>12, <1>13, <1>14
        DEF Next, StepAction, UpdateAction

\* Admission is in the order requests arrived, whatever is rolled back, finished or refused
\* blocks: next_batch takes the head (scheduler.py:117-127), and the one exception is a
\* pair that restart put back at the head of the queue (scheduler.py:147-156).
THEOREM AdmissionIsFifo == Spec => AdmitsOldest
<1> DEFINE Older == \A r, s \in Request :
               state[r] = "waiting" /\ state'[r] = "running" /\ s < r /\ state[s] = "waiting" =>
                   Restarted(r) /\ Restarted(s)
           Upheld == pc # "exhausted" => Fifo
<1>1. Init => Upheld
  <2> SUFFICES ASSUME Init PROVE Fifo
    OBVIOUS
  <2>1. Running = {} /\ Len(waiting) = 0
    BY EmptyQueue DEF Init, SchedInit, Running
  <2> QED BY <2>1 DEF Init, SchedInit, Fifo
<1>2. ASSUME IInv, IInv', Upheld, [Next]_vars PROVE Upheld'
  <2>1. pc' # "exhausted" => pc # "exhausted"
    BY <1>2 DEF Next, StepAction, UpdateAction, Capture, Add, BeginStep, Admit, StepIsEmpty,
         BeginRun, Reserve, Forward, AcceptDone, AcceptPlain, AcceptSpec, InAccept, Regrow,
         EndStep, Draft, AcceptEnds, Raise, Refused, UpdateWeights, RestartHead, EndUpdate, Rest,
         vars, step
  <2> QED BY <1>2, <2>1, NextFifo
<1>3. ASSUME IInv, Upheld, [Next]_vars PROVE Older
  <2> SUFFICES ASSUME NEW r \in Request, NEW s \in Request, state[r] = "waiting",
                      state'[r] = "running", s < r, state[s] = "waiting"
               PROVE  Restarted(r) /\ Restarted(s)
    OBVIOUS
  <2>1. TypeOK /\ state \in [Request -> State]
    BY <1>3 DEF IInv, TypeOK, SchedTypeOK
  <2>2. Admit
    BY <1>3, <2>1 DEF Next, StepAction, UpdateAction, Capture, Add, AddRequest, BeginStep,
       StepIsEmpty, BeginRun, Reserve, Forward, AcceptDone, AcceptPlain, AcceptSpec, AcceptTokens,
       Finish, Regrow, EndStep, Draft, Raise, UpdateWeights, RestartHead, Restart, EndUpdate,
       Rest, vars, sched, request
  <2>3. Queued /\ Fifo /\ waiting \in Seq(Request) /\ waiting # << >>
    BY <1>3, <2>1, <2>2 DEF Admit, HeadFits, MayAdmit, IInv, InCall, TypeOK, SchedTypeOK
  <2>4. r = Head(waiting) /\ Head(waiting) = waiting[1]
    BY <2>1, <2>2, <2>3 DEF Admit, AdmitRequest
  <2>5. s \in ToSet(waiting)
    BY <2>3 DEF Queued
  <2>6. PICK j \in 1 .. Len(waiting) : waiting[j] = s
    BY <2>3, <2>5, InToSet
  <2>7. 1 \in 1 .. Len(waiting) /\ 1 < j
    <3>1. r \in Int /\ s \in Int
      BY SchedulerAssumption DEF Request
    <3>2. Len(waiting) \in Nat
      BY <2>3
    <3> QED BY <2>4, <2>6, <3>1, <3>2
  <2>8. Before(r, s)
    BY <2>3, <2>4, <2>6, <2>7 DEF Fifo
  <2>9. r \in Int /\ s \in Int
    BY SchedulerAssumption DEF Request
  <2> QED BY <2>8, <2>9 DEF Before
<1>4. IInv /\ Upheld /\ [Next]_vars => [Older]_vars
  BY <1>3
<1>5. IInv /\ IInv' /\ Upheld /\ [Next]_vars => Upheld'
  BY <1>2
<1> HIDE DEF Older, Upheld
<1>6. Spec => [][Older]_vars
  BY <1>1, <1>4, <1>5, Invariant, PTL DEF Spec
<1> QED BY <1>6 DEF AdmitsOldest, Older

----------------------------------------------------------------------------
(***************************************************************************)
(* What the cache holds against what the caller submitted and was sent.    *)
(***************************************************************************)
\* A request to be prefilled has its output so far in its prompt, once.
Prefilled(r) == prompt[r] = asked[r] + out[r]

\* A running request has written all its tokens but the last.
Caught(r) == committed[r] = asked[r] + out[r] - 1

\* While at most one update has been made: before it no output is part of a prompt, and
\* while it restarts requests, those it has still to restart have theirs outside it.
Context ==
    /\ \A r \in ToSet(waiting) \cup Newly : Prefilled(r)
    /\ \A r \in Running \ Newly : Caught(r)
    /\ updates = 0 \/ pc = "restart" => \A r \in Running : prompt[r] = asked[r]
    /\ updates = 0 => \A r \in ToSet(waiting) : prompt[r] = asked[r]
    /\ pc = "restart" => updates = 1

\* A step that leaves the queues and the counts alone.
LEMMA ContextStays ==
    ASSUME Context, UNCHANGED <<waiting, running, prompt, asked, out, committed, updates>>,
           pc' = "restart" => pc = "restart", Newly' = Newly
    PROVE  Context'
<1>1. Running' = Running
  BY DEF Running
<1>2. \A r : Prefilled(r)' = Prefilled(r) /\ Caught(r)' = Caught(r)
  BY DEF Prefilled, Caught
<1> QED BY <1>1, <1>2 DEF Context

\* A new request has no output.
LEMMA AddContext ==
    ASSUME IInv, Context, Add
    PROVE  Context'
<1>0. PICK n : n = next_id
  OBVIOUS
<1>1. TypeOK /\ Queued /\ Counted /\ pc = "idle" /\ n \in Request /\ waiting \in Seq(Request)
  <2>1. TypeOK /\ pc = "idle" /\ next_id < MaxRequests
    BY DEF Add, IInv
  <2>2. Queued /\ Counted
    BY <2>1 DEF IInv, InCall
  <2>3. next_id \in Nat /\ waiting \in Seq(Request)
    BY <2>1 DEF TypeOK, SchedTypeOK
  <2>4. next_id \in 0 .. (MaxRequests - 1)
    BY <2>1, <2>3, SchedulerAssumption
  <2> QED BY <1>0, <2>1, <2>2, <2>3, <2>4 DEF Request
<1>2. PICK l \in PromptLens : \E m \in MaxTokens : AddRequest(n, l, m) /\ asked' = [asked EXCEPT ![n] = l]
  BY <1>0 DEF Add
<1>3. PICK m \in MaxTokens : AddRequest(n, l, m)
  BY <1>2
<1>4. /\ prompt'[n] = l /\ asked'[n] = l /\ l \in Nat
      /\ \A r \in Request \ {n} : prompt'[r] = prompt[r] /\ asked'[r] = asked[r]
  BY <1>1, <1>2, <1>3, EngineAssumption DEF AddRequest, TypeOK, SchedTypeOK
<1>5. /\ waiting' = Append(waiting, n) /\ UNCHANGED <<running, out, committed, updates>>
      /\ pc' = "idle" /\ Newly' = Newly /\ Newly = {}
  BY <1>0, <1>1, <1>3 DEF Add, AddRequest, step, Newly, Pending, Admitted
<1>6. n \notin Running /\ n \notin ToSet(waiting) /\ out[n] = 0
  <2>1. n >= n
    BY <1>1 DEF Request
  <2>2. state[n] = "new"
    BY <1>0, <1>1, <2>1 DEF Queued
  <2> QED BY <1>1, <2>2 DEF Queued, Counted, CountedFor
<1>7. ToSet(waiting') = ToSet(waiting) \cup {n} /\ Running' = Running
      /\ ToSet(waiting) \subseteq Request /\ Running \subseteq Request
  BY <1>1, <1>5, AppendQueue, Members DEF Running
<1>8. \A r \in Request \ {n} : Prefilled(r)' = Prefilled(r) /\ Caught(r)' = Caught(r)
  BY <1>4, <1>5 DEF Prefilled, Caught
<1>9. Prefilled(n)'
  BY <1>4, <1>5, <1>6 DEF Prefilled
<1> QED BY <1>1, <1>4, <1>5, <1>6, <1>7, <1>8, <1>9 DEF Context

\* An admitted request takes its counts with it.
LEMMA AdmitContext ==
    ASSUME IInv, IInv', Context, Admit
    PROVE  Context'
<1>0. PICK h : h = Head(waiting)
  OBVIOUS
<1>1. TypeOK /\ Queued /\ Locals /\ pc = "admit" /\ pc' = "admit" /\ waiting # << >>
      /\ waiting \in Seq(Request) /\ running \in Seq(Request) /\ admitted \in Seq(Request)
  BY DEF IInv, InCall, Admit, HeadFits, MayAdmit, TypeOK, SchedTypeOK
<1>2. /\ waiting' = Tail(waiting) /\ running' = Append(running, h)
      /\ admitted' = Append(admitted, h)
      /\ UNCHANGED <<prompt, asked, out, committed, updates>>
  BY <1>0 DEF Admit, AdmitRequest
<1>3. h \in ToSet(waiting) /\ h \in Request /\ ToSet(waiting') = ToSet(waiting) \ {h}
  BY <1>0, <1>1, <1>2, TailQueue DEF Queued
<1>4. Running' = Running \cup {h} /\ Admitted' = Admitted \cup {h}
  BY <1>1, <1>2, <1>3, AppendQueue DEF Running, Admitted
<1>5. Newly = Running \cap Admitted /\ Newly' = Newly \cup {h}
  BY <1>1, <1>4 DEF Newly, Pending, Running, Admitted
<1>6. \A r : Prefilled(r)' = Prefilled(r) /\ Caught(r)' = Caught(r)
  BY <1>2 DEF Prefilled, Caught
<1> QED BY <1>1, <1>2, <1>3, <1>4, <1>5, <1>6 DEF Context

\* What one round of _accept's loop does: h = Head(todo) leaves, or goes on with all its
\* tokens; nobody else's counts change.
LEMMA Accepts ==
    ASSUME IInv, AcceptDone \/ AcceptPlain \/ AcceptSpec, NEW h, h = Head(todo)
    PROVE  /\ pc = "accept" /\ todo # << >> /\ UNCHANGED <<waiting, prompt, asked, admitted, updates>>
           /\ h \in Request /\ h \in Running /\ h \in Todo
           /\ \A r \in Request \ {h} : out'[r] = out[r] /\ committed'[r] = committed[r]
           /\ \/ pc' = "accept" /\ todo' = Tail(todo)
              \/ pc' = "regrow" /\ todo' = todo
           /\ \E a \in 0 .. Deepest(h) : \E k \in 1 .. (a + 1) :
                 \/ /\ Running' = Running \ {h} /\ state' = [state EXCEPT ![h] = "done"]
                    /\ AcceptTokens(h, a, k, TRUE)
                 \/ /\ Running' = Running /\ state' = state /\ k = a + 1
                    /\ AcceptTokens(h, a, k, FALSE)
<1>1. TypeOK /\ Queued /\ Locals /\ pc = "accept" /\ todo # << >> /\ running \in Seq(Request)
  BY DEF IInv, InCall, AcceptDone, AcceptPlain, AcceptSpec, InAccept, TypeOK, SchedTypeOK
<1>2. h \in Request /\ h \in Running /\ h \in Todo
  BY <1>1, Visits
<1>3. CASE AcceptDone
  <2>1. PICK a \in 0 .. Deepest(h) : \E k \in 1 .. (a + 1) : AcceptTokens(h, a, k, TRUE)
    BY <1>3 DEF AcceptDone
  <2>2. PICK k \in 1 .. (a + 1) : AcceptTokens(h, a, k, TRUE)
    BY <2>1
  <2>3. /\ UNCHANGED <<waiting, prompt>>
        /\ \A r \in Request \ {h} : out'[r] = out[r] /\ committed'[r] = committed[r]
    BY <1>1, <1>2, <2>2, AcceptCounts
  <2>4. /\ UNCHANGED <<asked, admitted, pc, updates>> /\ todo' = Tail(todo)
        /\ state' = [state EXCEPT ![h] = "done"]
    BY <1>3 DEF AcceptDone, Finish
  <2>5. Running' = Running \ {h}
    BY <1>1, <1>2, <1>3, RemoveQueue DEF AcceptDone, Finish, Running, Queued
  <2> QED BY <1>1, <1>2, <2>2, <2>3, <2>4, <2>5
<1>4. CASE AcceptPlain
  <2>1. /\ AcceptTokens(h, 0, 1, FALSE) /\ todo' = Tail(todo)
        /\ UNCHANGED <<running, state, asked, admitted, pc, updates>>
    BY <1>4 DEF AcceptPlain
  <2>2. 0 \in 0 .. Deepest(h) /\ 1 \in 1 .. (0 + 1) /\ 1 = 0 + 1
    <3>1. tree[h] \in Nat /\ TopK \in Nat \ {0}
      BY <1>1, <1>2, EngineAssumption DEF TypeOK, SchedTypeOK
    <3>2. tree[h] \div TopK \in Nat
      BY <3>1
    <3> QED BY <3>2 DEF Deepest
  <2>3. /\ UNCHANGED <<waiting, prompt>>
        /\ \A r \in Request \ {h} : out'[r] = out[r] /\ committed'[r] = committed[r]
    BY <1>1, <1>2, <2>1, <2>2, AcceptCounts
  <2>4. Running' = Running
    BY <2>1 DEF Running
  <2> QED BY <1>1, <1>2, <2>1, <2>2, <2>3, <2>4
<1>5. CASE AcceptSpec
  <2>1. PICK a \in 0 .. Deepest(h) : AcceptTokens(h, a, a + 1, FALSE)
    BY <1>5 DEF AcceptSpec
  <2>2. a + 1 \in 1 .. (a + 1)
    <3>1. a \in Int /\ 0 <= a
      OBVIOUS
    <3> QED BY <3>1
  <2>3. /\ UNCHANGED <<waiting, prompt>>
        /\ \A r \in Request \ {h} : out'[r] = out[r] /\ committed'[r] = committed[r]
    BY <1>1, <1>2, <2>1, <2>2, AcceptCounts
  <2>4. /\ UNCHANGED <<running, state, asked, admitted, todo, updates>> /\ pc' = "regrow"
        /\ Running' = Running
    BY <1>5 DEF AcceptSpec, Running
  <2> QED BY <1>1, <1>2, <2>1, <2>2, <2>3, <2>4
<1> QED BY <1>3, <1>4, <1>5

\* A request that goes on writes what it was given: its prompt, or a + 1 rows for a + 1 tokens.
LEMMA AcceptContext ==
    ASSUME IInv, IInv', Context, AcceptDone \/ AcceptPlain \/ AcceptSpec
    PROVE  Context'
<1>0. PICK h : h = Head(todo)
  OBVIOUS
<1>1. TypeOK /\ Queued /\ Locals /\ Counted /\ Treed /\ pc = "accept" /\ todo # << >>
      /\ running \in Seq(Request)
  BY DEF IInv, InCall, AcceptDone, AcceptPlain, AcceptSpec, InAccept, TypeOK, SchedTypeOK
<1>2. /\ h \in Request /\ h \in Running /\ h \in Todo /\ Todo \subseteq Running
      /\ Running \subseteq Request /\ ToSet(waiting) \subseteq Request
  BY <1>0, <1>1, Visits, Members
<1>3. h \notin ToSet(waiting) /\ ToSet(waiting) \cap Running = {}
  BY <1>1, <1>2 DEF Queued
<1>4. /\ UNCHANGED <<waiting, prompt, asked, admitted, updates>>
      /\ \A r \in Request \ {h} : out'[r] = out[r] /\ committed'[r] = committed[r]
      /\ \/ pc' = "accept" /\ todo' = Tail(todo)
         \/ pc' = "regrow" /\ todo' = todo
      /\ \/ Running' = Running \ {h}
         \/ Running' = Running /\ \E a \in 0 .. Deepest(h) : AcceptTokens(h, a, a + 1, FALSE)
  BY <1>0, Accepts
<1>5. Newly' = Newly \ {h}
  BY <1>0, <1>1, <1>4, AcceptedOne
<1>6. \A r \in Request \ {h} : Prefilled(r)' = Prefilled(r) /\ Caught(r)' = Caught(r)
  BY <1>4 DEF Prefilled, Caught
<1>7. h \in Running' => Caught(h)'
  <2> SUFFICES ASSUME h \in Running' PROVE Caught(h)'
    OBVIOUS
  <2>1. PICK a \in 0 .. Deepest(h) : AcceptTokens(h, a, a + 1, FALSE)
    BY <1>4
  <2>2. a + 1 \in 1 .. (a + 1)
    <3>1. a \in Int /\ 0 <= a
      OBVIOUS
    <3> QED BY <3>1
  <2>3. committed'[h] = IF h \in Newly THEN prompt[h] ELSE committed[h] + a + 1
    BY <1>1, <1>2, <2>1, <2>2, GoesOn
  <2>4. a \in Nat /\ out'[h] = out[h] + (a + 1) /\ (tree[h] = NoTree => a = 0)
    BY <1>1, <1>2, <2>1, <2>2, AcceptCounts
  <2>5. /\ asked' = asked /\ asked[h] \in Nat /\ out[h] \in Nat /\ committed[h] \in Nat
        /\ prompt[h] \in Nat
    BY <1>1, <1>2, <1>4 DEF TypeOK, SchedTypeOK
  <2>6. CASE h \in Newly
    <3>1. tree[h] = NoTree /\ Prefilled(h)
      BY <1>1, <1>2, <2>6 DEF Counted, CountedFor, Context
    <3> QED BY <2>3, <2>4, <2>5, <2>6, <3>1 DEF Prefilled, Caught
  <2>7. CASE h \notin Newly
    <3>1. Caught(h)
      BY <1>2, <2>7 DEF Context
    <3> QED BY <2>3, <2>4, <2>5, <2>7, <3>1 DEF Caught
  <2> QED BY <2>6, <2>7
<1>8. \A r \in Running' : r \in Running
  BY <1>4
<1> QED BY <1>1, <1>2, <1>3, <1>4, <1>5, <1>6, <1>7, <1>8 DEF Context, Newly, Pending

\* The one update puts the output of each request it restarts into its prompt.
LEMMA RestartContext ==
    ASSUME IInv, Context, RestartHead
    PROVE  Context'
<1>0. PICK h : h = Head(todo)
  OBVIOUS
<1>1. TypeOK /\ Queued /\ Locals /\ pc = "restart" /\ pc' = "restart" /\ todo # << >>
      /\ waiting \in Seq(Request) /\ running \in Seq(Request) /\ updates' = updates
  BY DEF IInv, InCall, RestartHead, TypeOK, SchedTypeOK
<1>2. h \in Request /\ h \in Running
  BY <1>0, <1>1, Visits
<1>3. /\ waiting' = <<h>> \o waiting /\ running' = Without(running, h)
      /\ prompt' = [prompt EXCEPT ![h] = @ + out[h]] /\ UNCHANGED <<asked, out>>
      /\ committed' = [committed EXCEPT ![h] = 0]
  BY <1>0 DEF RestartHead, Restart
<1>4. Running' = Running \ {h} /\ ToSet(waiting') = ToSet(waiting) \cup {h}
  BY <1>1, <1>2, <1>3, RemoveQueue, ConsQueue DEF Running, Queued
<1>5. /\ Newly = {} /\ Newly' = {} /\ Running \subseteq Request
      /\ ToSet(waiting) \subseteq Request /\ h \notin ToSet(waiting)
  BY <1>1, <1>2, Members DEF Newly, Pending, Queued
<1>6. /\ prompt'[h] = prompt[h] + out[h]
      /\ \A r \in Request \ {h} : prompt'[r] = prompt[r] /\ committed'[r] = committed[r]
  BY <1>1, <1>2, <1>3 DEF TypeOK, SchedTypeOK
<1>7. \A r \in Request \ {h} : Prefilled(r)' = Prefilled(r) /\ Caught(r)' = Caught(r)
  BY <1>3, <1>6 DEF Prefilled, Caught
<1>8. Prefilled(h)'
  BY <1>1, <1>2, <1>3, <1>6 DEF Prefilled, Context
<1>9. updates' = 1
  BY <1>1 DEF Context
<1> QED BY <1>1, <1>3, <1>4, <1>5, <1>6, <1>7, <1>8, <1>9 DEF Context

\* Steps that only reserve, feed and draft change neither the queues nor what a request has,
\* nor who of the newly admitted is still to be visited.
LEMMA NewlyStays ==
    ASSUME IInv, \/ BeginStep \/ StepIsEmpty \/ BeginRun \/ Reserve \/ Forward
                 \/ Regrow \/ EndStep \/ Draft
    PROVE  /\ UNCHANGED <<waiting, running, state, prompt, asked, out, committed, updates>>
           /\ Newly' = Newly /\ pc # "restart" /\ pc' # "restart"
<1>1. InCall /\ TypeOK
  BY DEF IInv, BeginStep, StepIsEmpty, BeginRun, Reserve, Forward, Regrow, EndStep, Draft,
         AcceptEnds
<1>2. /\ UNCHANGED <<waiting, running, state, prompt, asked, out, committed, updates>>
      /\ pc # "restart" /\ pc' # "restart"
  BY DEF BeginStep, StepIsEmpty, BeginRun, Reserve, Forward, Regrow, EndStep, Draft, AcceptEnds,
         ReturnFromStep, sched, request
<1>3. CASE BeginStep \/ StepIsEmpty
  <2>1. Newly = {} /\ Newly' = {}
    BY <1>1, <1>3, EmptyQueue DEF InCall, Locals, BeginStep, StepIsEmpty, ReturnFromStep, Newly,
       Admitted
  <2> QED BY <1>2, <2>1
<1>4. CASE BeginRun \/ Reserve
  <2>1. UNCHANGED <<running, admitted>> /\ pc \in {"admit", "reserve"} /\ pc' = "reserve"
    BY <1>4 DEF BeginRun, Reserve, sched
  <2>2. Newly' = Newly
    BY <2>1 DEF Newly, Admitted, Pending, Running
  <2> QED BY <1>2, <2>2
<1>5. CASE Forward
  <2>1. /\ UNCHANGED <<running, admitted>> /\ pc = "reserve" /\ pc' = "accept"
        /\ todo' = batch \o admitted
    BY <1>5 DEF Forward, sched
  <2>2. running = batch \o admitted
    BY <1>1, <2>1 DEF InCall, Locals
  <2>3. Newly' = Newly
    BY <2>1, <2>2 DEF Newly, Admitted, Pending, Todo, Running
  <2> QED BY <1>2, <2>3
<1>6. CASE Regrow
  <2>1. UNCHANGED admitted /\ pc = "regrow" /\ pc' = "accept" /\ todo' = Tail(todo)
    BY <1>6 DEF Regrow
  <2>2. todo \in Seq(Request) /\ IsInjective(todo) /\ todo # << >>
    BY <1>1, <2>1 DEF InCall, Locals, TypeOK
  <2>3. Pending' = Pending
    BY <2>1, <2>2, TailQueue DEF Pending, Todo
  <2>4. Newly' = Newly
    BY <2>1, <2>3 DEF Newly, Admitted
  <2> QED BY <1>2, <2>4
<1>7. CASE EndStep \/ Draft
  <2>1. pc = "accept" /\ todo = << >> /\ pc' = "idle"
    BY <1>7 DEF EndStep, Draft, AcceptEnds, ReturnFromStep
  <2>2. Newly = {} /\ Newly' = {}
    BY <2>1, EmptyQueue DEF Newly, Pending, Todo
  <2> QED BY <1>2, <2>2
<1> QED BY <1>2, <1>3, <1>4, <1>5, <1>6, <1>7

\* Every step keeps the counts, until a second update.
LEMMA NextContext ==
    ASSUME IInv, IInv', Context, [Next]_vars, pc' # "exhausted", updates' <= 1
    PROVE  Context'
<1>1. pc # "exhausted" /\ InCall /\ TypeOK /\ InCall' /\ TypeOK'
  BY DEF Next, StepAction, UpdateAction, Capture, Add, BeginStep, Admit, StepIsEmpty,
         BeginRun, Reserve, Forward, AcceptDone, AcceptPlain, AcceptSpec, InAccept, Regrow,
         EndStep, Draft, AcceptEnds, Raise, Refused, UpdateWeights, RestartHead, EndUpdate, Rest,
         vars, step, IInv
<1>2. CASE Add
  BY <1>2, AddContext
<1>3. CASE Admit
  BY <1>3, AdmitContext
<1>4. CASE AcceptDone \/ AcceptPlain \/ AcceptSpec
  BY <1>4, AcceptContext
<1>5. CASE RestartHead
  BY <1>5, RestartContext
<1>6. CASE Capture
  <2>1. UNCHANGED <<waiting, running, prompt, asked, out, committed, updates>> /\ pc = "capture"
        /\ pc' = "idle"
    BY <1>6 DEF Capture, sched, request
  <2>2. Newly' = Newly
    BY <2>1 DEF Newly, Pending
  <2> QED BY <2>1, <2>2, ContextStays
<1>7. CASE UpdateWeights
  <2>1. /\ UNCHANGED <<waiting, running, prompt, asked, out, committed>> /\ pc = "idle"
        /\ updates' = updates + 1 /\ pc' = "restart"
    BY <1>7 DEF UpdateWeights, sched, request
  <2>2. updates = 0
    BY <1>1, <2>1, EngineAssumption DEF TypeOK
  <2>3. Newly = {} /\ Newly' = {} /\ Running' = Running
    BY <2>1 DEF Newly, Pending, Running
  <2>4. \A r : Prefilled(r)' = Prefilled(r) /\ Caught(r)' = Caught(r)
    BY <2>1 DEF Prefilled, Caught
  <2> QED BY <2>1, <2>2, <2>3, <2>4 DEF Context
<1>8. CASE \/ BeginStep \/ StepIsEmpty \/ BeginRun \/ Reserve \/ Forward
           \/ Regrow \/ EndStep \/ Draft
  BY <1>8, NewlyStays, ContextStays
<1>9. CASE Raise
  BY <1>9 DEF Raise
<1>10. CASE EndUpdate
  <2>1. UNCHANGED <<waiting, running, prompt, asked, out, committed, updates>> /\ pc = "restart"
        /\ pc' = "idle"
    BY <1>10 DEF EndUpdate, sched, request
  <2>2. Newly = {} /\ Newly' = {}
    BY <2>1 DEF Newly, Pending
  <2> QED BY <2>1, <2>2, ContextStays
<1>11. CASE Rest \/ UNCHANGED vars
  <2>1. UNCHANGED vars
    BY <1>11 DEF Rest
  <2>2. UNCHANGED <<waiting, running, prompt, asked, out, committed, updates, pc, admitted, todo>>
    BY <2>1 DEF vars, sched, request, step
  <2>3. Newly' = Newly
    BY <2>2 DEF Newly, Pending, Running, Todo, Admitted
  <2> QED BY <2>2, <2>3, ContextStays
<1> QED BY <1>2, <1>3, <1>4, <1>5, <1>6, <1>7, <1>8, <1>9, <1>10, <1>11
        DEF Next, StepAction, UpdateAction

\* Context, in a run with no second update and until a step raises.
ContextUpheld == pc # "exhausted" /\ updates <= 1 => Context

LEMMA ContextInvariant == Spec => []ContextUpheld
<1>1. Init => ContextUpheld
  <2> SUFFICES ASSUME Init PROVE Context
    BY DEF ContextUpheld
  <2>1. Running = {} /\ ToSet(waiting) = {} /\ Newly = {}
    BY EmptyQueue DEF Init, SchedInit, Running, Newly, Pending
  <2> QED BY <2>1 DEF Init, Context
<1>2. ASSUME IInv, IInv', ContextUpheld, [Next]_vars PROVE ContextUpheld'
  <2>1. pc' # "exhausted" => pc # "exhausted"
    BY <1>2 DEF Next, StepAction, UpdateAction, Capture, Add, BeginStep, Admit, StepIsEmpty,
         BeginRun, Reserve, Forward, AcceptDone, AcceptPlain, AcceptSpec, InAccept, Regrow,
         EndStep, Draft, AcceptEnds, Raise, Refused, UpdateWeights, RestartHead, EndUpdate, Rest,
         vars, step
  <2>2. updates' = updates \/ updates' = updates + 1
    BY <1>2 DEF Next, StepAction, UpdateAction, Capture, Add, BeginStep, Admit, StepIsEmpty,
         BeginRun, Reserve, Forward, AcceptDone, AcceptPlain, AcceptSpec, Regrow,
         EndStep, Draft, Raise, UpdateWeights, RestartHead, EndUpdate, Rest, vars
  <2>3. updates \in Int
    BY <1>2, EngineAssumption DEF IInv, TypeOK
  <2>4. updates' <= 1 => updates <= 1
    BY <2>2, <2>3
  <2> QED BY <1>2, <2>1, <2>4, NextContext DEF ContextUpheld
<1>3. IInv /\ IInv' /\ ContextUpheld /\ [Next]_vars => ContextUpheld'
  BY <1>2
<1> QED BY <1>1, <1>3, Invariant, PTL DEF Spec

\* Between steps the cache holds every token of a running request but the last, for any
\* request that was restarted no more than once (engine.py:145-153, scheduler.py:147-156): a
\* second restart puts the first one's output into the prompt again.
THEOREM ContextKept == Spec => [](updates <= 1 => ContextExact)
<1>1. ASSUME IInv, ContextUpheld PROVE updates <= 1 => ContextExact
  <2> SUFFICES ASSUME updates <= 1, pc = "idle", NEW r \in Running
               PROVE  committed[r] = asked[r] + out[r] - 1
    BY DEF ContextExact
  <2>1. Context /\ Newly = {}
    BY <1>1 DEF ContextUpheld, Newly, Pending
  <2> QED BY <2>1 DEF Context, Caught
<1>2. IInv /\ ContextUpheld => (updates <= 1 => ContextExact)
  BY <1>1
<1> QED BY <1>2, Invariant, ContextInvariant, PTL
=============================================================================
