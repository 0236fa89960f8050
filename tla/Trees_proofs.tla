---------------------------- MODULE Trees_proofs ----------------------------
(***************************************************************************)
(* Facts about Trees and Entries, for every tree, batch and text, and the  *)
(* induction and recursion over the naturals they rest on.                 *)
(***************************************************************************)
EXTENDS Entries, FiniteSetTheorems, SequenceTheorems, TLAPS

----------------------------------------------------------------------------
(***************************************************************************)
(* Induction over the naturals, told with sets.                            *)
(***************************************************************************)
\* A nonempty set of naturals has a least element: of the initial segments below its
\* members, one is minimal for inclusion.
LEMMA NatLeast ==
    ASSUME NEW T, T \subseteq Nat, T # {}
    PROVE  \E m \in T : \A k \in T : m <= k
<1> DEFINE R == StrictSubsetOrdering(Nat)
           S == FiniteSubsetsOf(Nat)
           U == {0 .. (n - 1) : n \in T}
<1>1. IsWellFoundedOn(R, S)
  BY FS_StrictSubsetOrderingWellFounded
<1>2. U \subseteq S
  <2> SUFFICES ASSUME NEW n \in T PROVE 0 .. (n - 1) \in S
    OBVIOUS
  <2>1. 0 .. (n - 1) \subseteq Nat
    BY SMT
  <2>2. IsFiniteSet(0 .. (n - 1))
    BY FS_Interval
  <2> QED BY <2>1, <2>2 DEF FiniteSubsetsOf
<1>3. U # {}
  OBVIOUS
<1> HIDE DEF R, S, U
<1>4. PICK x \in U : \A y \in U : ~ (<<y, x>> \in R)
  BY <1>1, <1>2, <1>3, WFMin, Zenon
<1>5. PICK m \in T : x = 0 .. (m - 1)
  BY DEF U
<1>6. ASSUME NEW k \in T, k < m PROVE FALSE
  <2>1. 0 .. (k - 1) \in U
    BY DEF U
  <2>2. 0 .. (k - 1) \subseteq 0 .. (m - 1)
    BY <1>6
  <2>3. 0 .. (k - 1) # 0 .. (m - 1)
    <3>1. k \in 0 .. (m - 1)
      BY <1>6
    <3>2. k \notin 0 .. (k - 1)
      BY <1>6
    <3> QED BY <3>1, <3>2
  <2>4. <<0 .. (k - 1), x>> \in R
    BY <2>2, <2>3, <1>5 DEF R, StrictSubsetOrdering
  <2> QED BY <2>1, <2>4, <1>4
<1> QED BY <1>6

\* A set of naturals that has 0, and the successor of each of its members below n, has all
\* up to n.
LEMMA Induct ==
    ASSUME NEW n \in Nat, NEW G, 0 \in G, \A k \in 0 .. (n - 1) : k \in G => k + 1 \in G
    PROVE  \A k \in 0 .. n : k \in G
<1> DEFINE T == {k \in 0 .. n : k \notin G}
<1> SUFFICES ASSUME T # {} PROVE FALSE
  OBVIOUS
<1>1. T \subseteq Nat
  OBVIOUS
<1>2. PICK m \in T : \A k \in T : m <= k
  BY <1>1, NatLeast
<1>3. m \in 1 .. n /\ m - 1 \in 0 .. (n - 1) /\ m - 1 \notin T
  BY <1>2
<1> QED BY <1>2, <1>3

\* f is made from x0 by n rounds of step.
Iterates(f, n, x0, step) == \A k \in 0 .. n : f[k] = IF k = 0 THEN x0 ELSE step[k][f[k - 1]]

\* A recursive function on 0 .. n exists.
LEMMA Recursion ==
    ASSUME NEW X, NEW x0 \in X, NEW n \in Nat, NEW step \in [1 .. n -> [X -> X]]
    PROVE  \E f \in [0 .. n -> X] : Iterates(f, n, x0, step)
<1> DEFINE Good(m, f) == \A k \in 0 .. m : f[k] = IF k = 0 THEN x0 ELSE step[k][f[k - 1]]
           G == {m \in 0 .. n : \E f \in [0 .. m -> X] : Good(m, f)}
<1>1. 0 \in G
  <2>1. PICK f : f = [k \in 0 .. 0 |-> x0]
    OBVIOUS
  <2>2. f \in [0 .. 0 -> X] /\ Good(0, f)
    BY <2>1
  <2>3. \E h \in [0 .. 0 -> X] : Good(0, h)
    BY <2>2
  <2> HIDE DEF Good
  <2> QED BY <2>3
<1>2. ASSUME NEW m \in 0 .. (n - 1), m \in G PROVE m + 1 \in G
  <2>1. PICK f \in [0 .. m -> X] : Good(m, f)
    BY <1>2
  <2>2. PICK g \in [0 .. (m + 1) -> X] :
            \A k \in 0 .. (m + 1) : g[k] = IF k = m + 1 THEN step[m + 1][f[m]] ELSE f[k]
    <3> DEFINE h == [k \in 0 .. (m + 1) |-> IF k = m + 1 THEN step[m + 1][f[m]] ELSE f[k]]
    <3>1. h \in [0 .. (m + 1) -> X]
      OBVIOUS
    <3> QED BY <3>1
  <2>3. ASSUME NEW k \in 0 .. (m + 1) PROVE g[k] = IF k = 0 THEN x0 ELSE step[k][g[k - 1]]
    <3>1. CASE k = m + 1
      BY <2>2, <3>1
    <3>2. CASE k # m + 1
      <4>1. k \in 0 .. m /\ g[k] = f[k]
        BY <2>2, <3>2
      <4>2. k # 0 => k - 1 \in 0 .. (m + 1) /\ g[k - 1] = f[k - 1]
        BY <2>2, <3>2
      <4>3. f[k] = IF k = 0 THEN x0 ELSE step[k][f[k - 1]]
        BY <2>1, <4>1
      <4> QED BY <4>1, <4>2, <4>3
    <3> QED BY <3>1, <3>2
  <2>4. Good(m + 1, g)
    BY <2>3
  <2>5. \E h \in [0 .. (m + 1) -> X] : Good(m + 1, h)
    BY <2>4
  <2> HIDE DEF Good
  <2> QED BY <2>5
<1> HIDE DEF G
<1>3. \A k \in 0 .. n : k \in G
  BY <1>1, <1>2, Induct
<1>4. n \in G
  BY <1>3
<1> QED BY <1>4 DEF G, Iterates

----------------------------------------------------------------------------
(***************************************************************************)
(* Sums over finite sets, in whatever order their members are taken.       *)
(***************************************************************************)
\* Every part of S is given the sum of f over it.
SumsUp(F, f, S) == /\ F \in [SUBSET S -> Nat]
                   /\ F[{}] = 0
                   /\ \A s \in SUBSET S : \A x \in s : F[s] = f[x] + F[s \ {x}]

Picked(s) == CHOOSE x \in s : TRUE

\* What a fold that adds f up evaluates: a member is picked and the rest is summed.
AddsUp(it, f, S) ==
    it = [s \in SUBSET S |-> IF s = {} THEN 0 ELSE f[Picked(s)] + it[s \ {Picked(s)}]]

\* A part without one of its members is smaller.
LEMMA PartSmaller ==
    ASSUME NEW S, IsFiniteSet(S), NEW s \in SUBSET S
    PROVE  /\ IsFiniteSet(s) /\ Cardinality(s) \in Nat /\ Cardinality(s) <= Cardinality(S)
           /\ Cardinality(s) = 0 <=> s = {}
           /\ \A x \in s : s \ {x} \in SUBSET S /\ Cardinality(s \ {x}) = Cardinality(s) - 1
           /\ s # {} => Picked(s) \in s
<1>1. IsFiniteSet(s) /\ Cardinality(s) <= Cardinality(S)
  BY FS_Subset
<1>2. Cardinality(s) \in Nat
  BY <1>1, FS_CardinalityType
<1>3. Cardinality(s) = 0 <=> s = {}
  BY <1>1, FS_EmptySet
<1>4. \A x \in s : s \ {x} \in SUBSET S /\ Cardinality(s \ {x}) = Cardinality(s) - 1
  BY <1>1, FS_RemoveElement
<1>5. s # {} => Picked(s) \in s
  BY DEF Picked
<1> QED BY <1>1, <1>2, <1>3, <1>4, <1>5

\* Such a fold is defined on finite sets.
LEMMA FoldExists ==
    ASSUME NEW S, IsFiniteSet(S), NEW f \in [S -> Nat]
    PROVE  \E it : AddsUp(it, f, S)
<1> DEFINE X == [SUBSET S -> Nat]
           Next1(h) == [s \in SUBSET S |-> IF s = {} THEN 0 ELSE f[Picked(s)] + h[s \ {Picked(s)}]]
           x0 == [s \in SUBSET S |-> 0]
<1>0. PICK n \in Nat : n = Cardinality(S)
  BY FS_CardinalityType
<1> DEFINE step == [k \in 1 .. n |-> [h \in X |-> Next1(h)]]
<1>1. x0 \in X
  OBVIOUS
<1>2. ASSUME NEW h \in X PROVE Next1(h) \in X
  <2>1. ASSUME NEW s \in SUBSET S, s # {} PROVE f[Picked(s)] \in Nat /\ h[s \ {Picked(s)}] \in Nat
    <3>1. Picked(s) \in S /\ s \ {Picked(s)} \in SUBSET S
      BY <2>1, PartSmaller
    <3> QED BY <3>1
  <2>2. \A s \in SUBSET S : (IF s = {} THEN 0 ELSE f[Picked(s)] + h[s \ {Picked(s)}]) \in Nat
    BY <2>1
  <2> QED BY <2>2
<1>3. step \in [1 .. n -> [X -> X]]
  BY <1>2
<1> HIDE DEF X, step, x0
<1>4. PICK run \in [0 .. n -> X] : Iterates(run, n, x0, step)
  BY <1>0, <1>1, <1>3, Recursion
<1>5. \A s \in SUBSET S : run[0][s] = 0
  BY <1>4 DEF Iterates, x0
<1>6. \A k \in 1 .. n : run[k] = Next1(run[k - 1])
  <2> TAKE k \in 1 .. n
  <2>1. run[k] = step[k][run[k - 1]] /\ k - 1 \in 0 .. n
    BY <1>4 DEF Iterates
  <2>2. run[k - 1] \in X
    BY <1>4, <2>1
  <2> QED BY <2>1, <2>2 DEF step
<1>7. \A k \in 0 .. n : run[k][{}] = 0
  <2> TAKE k \in 0 .. n
  <2>1. CASE k = 0
    BY <1>5, <2>1
  <2>2. CASE k # 0
    <3>1. k \in 1 .. n
      BY <2>2
    <3> QED BY <1>6, <3>1
  <2> QED BY <2>1, <2>2
<1>8. \A k \in 1 .. n : \A s \in SUBSET S : s # {} =>
          run[k][s] = f[Picked(s)] + run[k - 1][s \ {Picked(s)}]
  BY <1>6
<1> DEFINE Q == {k \in 0 .. n : \A s \in SUBSET S : Cardinality(s) <= k =>
                     \A m \in k .. n : run[m][s] = run[k][s]}
<1>9. 0 \in Q
  <2> SUFFICES ASSUME NEW s \in SUBSET S, Cardinality(s) <= 0, NEW m \in 0 .. n
               PROVE  run[m][s] = run[0][s]
    BY <1>0
  <2>1. s = {}
    BY PartSmaller
  <2> QED BY <1>0, <1>7, <2>1
<1>10. ASSUME NEW k \in 0 .. (n - 1), k \in Q PROVE k + 1 \in Q
  <2>0. k + 1 \in 1 .. n /\ k \in 0 .. n /\ (k + 1) - 1 = k
    BY <1>0
  <2> SUFFICES ASSUME NEW s \in SUBSET S, Cardinality(s) <= k + 1, NEW m \in (k + 1) .. n
               PROVE  run[m][s] = run[k + 1][s]
    BY <2>0
  <2>1. m \in 1 .. n /\ m - 1 \in k .. n /\ m \in 0 .. n /\ k + 1 \in 0 .. n
    BY <1>0
  <2>2. CASE s = {}
    BY <1>7, <2>1, <2>2
  <2>3. CASE s # {}
    <3>1. PICK r \in SUBSET S : r = s \ {Picked(s)}
      BY <2>3, PartSmaller
    <3>2. Cardinality(r) <= k
      BY SMTT(30), <1>0, <2>3, <3>1, PartSmaller
    <3>3. run[m - 1][r] = run[k][r]
      BY <1>10, <2>1, <3>2
    <3>4. run[m][s] = f[Picked(s)] + run[m - 1][r]
      BY <1>8, <2>1, <2>3, <3>1
    <3>5. run[k + 1][s] = f[Picked(s)] + run[(k + 1) - 1][r]
      BY <1>8, <2>0, <2>3, <3>1
    <3> QED BY <2>0, <3>3, <3>4, <3>5
  <2> QED BY <2>2, <2>3
<1>11. \A k \in 0 .. n : k \in Q
  <2> HIDE DEF Q
  <2> QED BY <1>0, <1>9, <1>10, Induct
<1>12. \A s \in SUBSET S : run[n][s] = IF s = {} THEN 0 ELSE f[Picked(s)] + run[n][s \ {Picked(s)}]
  <2> TAKE s \in SUBSET S
  <2>1. CASE s = {}
    BY <1>0, <1>7, <2>1
  <2>2. CASE s # {}
    <3>0. PICK c \in s : c = Picked(s)
      BY <2>2, PartSmaller
    <3>1a. \A y \in s : s \ {y} \in SUBSET S /\ Cardinality(s \ {y}) = Cardinality(s) - 1
      BY PartSmaller
    <3>1. PICK r \in SUBSET S : r = s \ {Picked(s)} /\ Cardinality(r) = Cardinality(s) - 1
      BY <3>0, <3>1a
    <3>2. Cardinality(s) \in Nat /\ Cardinality(s) # 0 /\ Cardinality(s) <= n
      BY <1>0, <2>2, PartSmaller
    <3>3. n \in 1 .. n /\ n - 1 \in 0 .. n /\ Cardinality(r) <= n - 1 /\ n \in (n - 1) .. n
      BY <1>0, <3>1, <3>2
    <3>4. n - 1 \in Q
      BY <1>11, <3>3
    <3>5. run[n][r] = run[n - 1][r]
      BY <3>3, <3>4
    <3> QED BY <1>8, <2>2, <3>1, <3>3, <3>5
  <2> QED BY <2>1, <2>2
<1>13. run[n] = [s \in SUBSET S |-> run[n][s]]
  <2>1. run[n] \in X
    BY <1>0, <1>4
  <2> QED BY <2>1 DEF X
<1>14. AddsUp(run[n], f, S)
  BY <1>12, <1>13 DEF AddsUp
<1> QED BY <1>14

\* It is the sum, whichever members are picked.
LEMMA FoldSums ==
    ASSUME NEW S, IsFiniteSet(S), NEW f \in [S -> Nat], NEW it, AddsUp(it, f, S)
    PROVE  SumsUp(it, f, S)
<1>0. PICK n \in Nat : n = Cardinality(S)
  BY FS_CardinalityType
<1>1. it[{}] = 0 /\ \A s \in SUBSET S : s # {} => it[s] = f[Picked(s)] + it[s \ {Picked(s)}]
  <2>1. \A s \in SUBSET S : it[s] = IF s = {} THEN 0 ELSE f[Picked(s)] + it[s \ {Picked(s)}]
    BY DEF AddsUp
  <2> QED BY <2>1
<1> DEFINE Sum(s) == it[s] \in Nat /\ \A x \in s : it[s] = f[x] + it[s \ {x}]
           Q == {k \in 0 .. n : \A s \in SUBSET S : Cardinality(s) <= k => Sum(s)}
<1>2. 0 \in Q
  <2> SUFFICES ASSUME NEW s \in SUBSET S, Cardinality(s) <= 0 PROVE Sum(s)
    BY <1>0
  <2>1. s = {}
    BY PartSmaller
  <2> QED BY <1>1, <2>1
<1>3. ASSUME NEW k \in 0 .. (n - 1), k \in Q PROVE k + 1 \in Q
  <2>0. k + 1 \in 0 .. n /\ k \in Nat
    BY <1>0
  <2> SUFFICES ASSUME NEW s \in SUBSET S, Cardinality(s) <= k + 1 PROVE Sum(s)
    BY <2>0
  <2>1. CASE s = {}
    BY <1>1, <2>1
  <2>2. CASE s # {}
    <3>0. \A y \in s : /\ s \ {y} \in SUBSET S /\ Cardinality(s \ {y}) <= k /\ f[y] \in Nat
                       /\ it[s \ {y}] \in Nat
      <4> TAKE y \in s
      <4>1. s \ {y} \in SUBSET S /\ Cardinality(s \ {y}) <= k
        BY <2>0, PartSmaller
      <4> QED BY <1>3, <4>1
    <3>1. PICK c \in s : c = Picked(s)
      BY <2>2, PartSmaller
    <3>2. it[s] = f[c] + it[s \ {c}]
      BY <1>1, <2>2, <3>1
    <3>3. it[s] \in Nat
      <4>1. f[c] \in Nat /\ it[s \ {c}] \in Nat
        BY <3>0, <3>1
      <4> QED BY <3>2, <4>1
    <3>4. ASSUME NEW x \in s PROVE it[s] = f[x] + it[s \ {x}]
      <4>1. CASE x = c
        BY <3>2, <4>1
      <4>2. CASE x # c
        <5>1. /\ x \in s \ {c} /\ c \in s \ {x}
              /\ (s \ {c}) \ {x} = (s \ {x}) \ {c}
          BY <4>2
        <5>2. Sum(s \ {c}) /\ Sum(s \ {x})
          BY <1>3, <3>0
        <5>3. /\ it[s \ {c}] = f[x] + it[(s \ {c}) \ {x}]
              /\ it[s \ {x}] = f[c] + it[(s \ {c}) \ {x}]
          BY <5>1, <5>2
        <5>4. it[(s \ {c}) \ {x}] \in Nat
          <6>1. (s \ {c}) \ {x} \in SUBSET S /\ Cardinality((s \ {c}) \ {x}) <= k
            <7>0. PICK t \in SUBSET S : t = s \ {c}
              BY <3>0
            <7>1. \A y \in t : Cardinality(t \ {y}) = Cardinality(t) - 1
              BY PartSmaller
            <7>2. Cardinality(s \ {c}) \in Nat
              BY <7>0, PartSmaller
            <7>3. Cardinality(t \ {x}) <= k
              BY <2>0, <3>0, <5>1, <7>0, <7>1, <7>2
            <7> QED BY <7>0, <7>3
          <6> QED BY <1>3, <6>1
        <5>5. PICK u \in Nat : u = it[(s \ {c}) \ {x}]
          BY <5>4
        <5>6. f[x] \in Nat /\ f[c] \in Nat
          BY <3>0
        <5> QED BY <3>2, <5>3, <5>5, <5>6
      <4> QED BY <4>1, <4>2
    <3> QED BY <3>3, <3>4
  <2> QED BY <2>1, <2>2
<1>4. \A k \in 0 .. n : k \in Q
  <2> HIDE DEF Q
  <2> QED BY <1>0, <1>2, <1>3, Induct
<1>5. \A s \in SUBSET S : Sum(s)
  <2> TAKE s \in SUBSET S
  <2>1. Cardinality(s) <= n
    BY <1>0, PartSmaller
  <2>2. n \in Q
    BY <1>0, <1>4
  <2> QED BY <2>1, <2>2
<1>6. it = [s \in SUBSET S |-> it[s]]
  BY DEF AddsUp
<1> QED BY <1>1, <1>5, <1>6 DEF SumsUp

\* A set has one sum, and a set that is another one renamed has the same.
LEMMA SumsRenamed ==
    ASSUME NEW S, NEW f, NEW F, SumsUp(F, f, S), NEW R, IsFiniteSet(R), NEW g, NEW E, SumsUp(E, g, R),
           NEW b \in [R -> S], \A x, y \in R : b[x] = b[y] => x = y, \A x \in R : g[x] = f[b[x]]
    PROVE  E[R] = F[{b[x] : x \in R}]
<1>0. PICK n \in Nat : n = Cardinality(R)
  BY FS_CardinalityType
<1> DEFINE Im(r) == {b[x] : x \in r}
           Q == {k \in 0 .. n : \A r \in SUBSET R : Cardinality(r) = k => E[r] = F[Im(r)]}
<1>1. 0 \in Q
  <2> SUFFICES ASSUME NEW r \in SUBSET R, Cardinality(r) = 0 PROVE E[r] = F[Im(r)]
    BY <1>0
  <2>1. r = {}
    BY PartSmaller
  <2>2. Im(r) = {}
    BY <2>1
  <2> QED BY <2>1, <2>2 DEF SumsUp
<1>2. ASSUME NEW k \in 0 .. (n - 1), k \in Q PROVE k + 1 \in Q
  <2>0. k + 1 \in 0 .. n /\ k \in Nat /\ k + 1 # 0 /\ (k + 1) - 1 = k
    BY <1>0
  <2> SUFFICES ASSUME NEW r \in SUBSET R, Cardinality(r) = k + 1 PROVE E[r] = F[Im(r)]
    BY <2>0
  <2>1. PICK x \in r : TRUE
    BY <2>0, PartSmaller
  <2>2. r \ {x} \in SUBSET R /\ Cardinality(r \ {x}) = k
    BY <2>0, PartSmaller
  <2>3. E[r \ {x}] = F[Im(r \ {x})]
    BY <1>2, <2>2
  <2>4. Im(r \ {x}) = Im(r) \ {b[x]} /\ b[x] \in Im(r) /\ Im(r) \in SUBSET S
    <3>1. \A y \in r : y # x => b[y] # b[x]
      OBVIOUS
    <3> QED BY <3>1
  <2>5. F[Im(r)] = f[b[x]] + F[Im(r) \ {b[x]}]
    <3> HIDE DEF Im
    <3> QED BY <2>4 DEF SumsUp
  <2>6. E[r] = g[x] + E[r \ {x}]
    BY DEF SumsUp
  <2> QED BY <2>3, <2>4, <2>5, <2>6
<1>3. n \in Q
  <2>1. \A k \in 0 .. n : k \in Q
    <3> HIDE DEF Q
    <3> QED BY <1>0, <1>1, <1>2, Induct
  <2> QED BY <1>0, <2>1
<1> QED BY <1>0, <1>3

\* Sums of multiples.
LEMMA SumsScaled ==
    ASSUME NEW S, IsFiniteSet(S), NEW f \in [S -> Nat], NEW F, SumsUp(F, f, S),
           NEW c \in Nat, NEW g, NEW E, SumsUp(E, g, S), \A x \in S : g[x] = c * f[x]
    PROVE  E[S] = c * F[S]
<1>0. PICK n \in Nat : n = Cardinality(S)
  BY FS_CardinalityType
<1> DEFINE Q == {k \in 0 .. n : \A s \in SUBSET S : Cardinality(s) = k => E[s] = c * F[s]}
<1>1. 0 \in Q
  <2> SUFFICES ASSUME NEW s \in SUBSET S, Cardinality(s) = 0 PROVE E[s] = c * F[s]
    BY <1>0
  <2>1. s = {}
    BY PartSmaller
  <2> QED BY <2>1 DEF SumsUp
<1>2. ASSUME NEW k \in 0 .. (n - 1), k \in Q PROVE k + 1 \in Q
  <2>0. k + 1 \in 0 .. n /\ k \in Nat /\ k + 1 # 0 /\ (k + 1) - 1 = k
    BY <1>0
  <2> SUFFICES ASSUME NEW s \in SUBSET S, Cardinality(s) = k + 1 PROVE E[s] = c * F[s]
    BY <2>0
  <2>1. PICK x \in s : TRUE
    BY <2>0, PartSmaller
  <2>2. s \ {x} \in SUBSET S /\ Cardinality(s \ {x}) = k
    BY <2>0, PartSmaller
  <2>3. E[s \ {x}] = c * F[s \ {x}]
    BY <1>2, <2>2
  <2>4. F[s] = f[x] + F[s \ {x}] /\ E[s] = c * f[x] + E[s \ {x}]
    BY DEF SumsUp
  <2>5. PICK u \in Nat : u = f[x]
    OBVIOUS
  <2>6. PICK v \in Nat : v = F[s \ {x}]
    BY <2>2 DEF SumsUp
  <2>7. c * (u + v) = c * u + c * v
    OBVIOUS
  <2> QED BY <2>3, <2>4, <2>5, <2>6, <2>7
<1>3. n \in Q
  <2>1. \A k \in 0 .. n : k \in Q
    <3> HIDE DEF Q
    <3> QED BY <1>0, <1>1, <1>2, Induct
  <2> QED BY <1>0, <2>1
<1> QED BY <1>0, <1>3

----------------------------------------------------------------------------
(***************************************************************************)
(* Trees whose nodes come after their parents.                             *)
(***************************************************************************)
\* A tree of n nodes in an order that puts a node after the one it hangs off.
Ordered(p, n) == p \in [0 .. (n - 1) -> Root .. (n - 1)] /\ \A i \in 0 .. (n - 1) : p[i] < i

\* The path of a node is its parent's, and the node.
LEMMA PathRecursion ==
    ASSUME NEW n \in Nat, NEW p, Ordered(p, n)
    PROVE  /\ Ancestors(p, Root) = << >>
           /\ \A i \in 0 .. (n - 1) : Ancestors(p, i) = Append(Ancestors(p, p[i]), i)
<1>1. p \in [0 .. (n - 1) -> Root .. (n - 1)] /\ \A i \in 0 .. (n - 1) : p[i] < i
  BY DEF Ordered
<1> DEFINE Good(m, f) == f = [j \in Root .. (m - 1) |->
                                  IF j = Root THEN << >> ELSE Append(f[p[j]], j)]
           G == {m \in 0 .. n : \E f : Good(m, f)}
<1>2. 0 \in G
  <2>1. PICK f : f = [j \in Root .. (0 - 1) |-> << >>]
    OBVIOUS
  <2>2. Good(0, f)
    BY <2>1 DEF Root
  <2>3. \E h : Good(0, h)
    BY <2>2
  <2> HIDE DEF Good
  <2> QED BY <2>3
<1>3. ASSUME NEW m \in 0 .. (n - 1), m \in G PROVE m + 1 \in G
  <2>1. PICK f : Good(m, f)
    BY <1>3
  <2>0. PICK g : g = [j \in Root .. m |-> IF j = m THEN Append(f[p[m]], m) ELSE f[j]]
    OBVIOUS
  <2>2. ASSUME NEW j \in Root .. m
        PROVE  g[j] = IF j = Root THEN << >> ELSE Append(g[p[j]], j)
    <3>1. CASE j = m
      <4>1. p[m] \in Root .. m /\ p[m] # m /\ m # Root
        BY <1>1 DEF Root
      <4>2. g[p[m]] = f[p[m]] /\ g[m] = Append(f[p[m]], m)
        BY <2>0, <4>1 DEF Root
      <4> QED BY <3>1, <4>1, <4>2
    <3>2. CASE j # m
      <4>1. j \in Root .. (m - 1) /\ g[j] = f[j]
        BY <2>0, <3>2 DEF Root
      <4>2. j # Root => p[j] \in Root .. m /\ p[j] # m
        BY <1>1, <4>1 DEF Root
      <4>3. j # Root => g[p[j]] = f[p[j]]
        BY <2>0, <4>2
      <4>4. f[j] = IF j = Root THEN << >> ELSE Append(f[p[j]], j)
        BY <2>1, <4>1
      <4> QED BY <4>1, <4>3, <4>4
    <3> QED BY <3>1, <3>2
  <2>3. Good(m + 1, g)
    <3>1. (m + 1) - 1 = m
      OBVIOUS
    <3>2. g = [j \in Root .. m |-> g[j]]
      BY <2>0
    <3> QED BY <2>2, <3>1, <3>2
  <2>4. \E h : Good(m + 1, h)
    BY <2>3
  <2> HIDE DEF Good
  <2> QED BY <2>4
<1> HIDE DEF G
<1>4. n \in G
  BY <1>2, <1>3, Induct
<1>5. PICK w : Good(n, w)
  BY <1>4 DEF G
<1> DEFINE path == CHOOSE h : h = [j \in DOMAIN p \cup {Root} |->
                                       IF j = Root THEN << >> ELSE Append(h[p[j]], j)]
<1>6. DOMAIN p \cup {Root} = Root .. (n - 1)
  BY <1>1 DEF Root
<1>7. path = [j \in DOMAIN p \cup {Root} |-> IF j = Root THEN << >> ELSE Append(path[p[j]], j)]
  BY <1>5, <1>6
<1>8. \A i : Ancestors(p, i) = path[i]
  BY DEF Ancestors
<1>9. PICK f : f = path
  OBVIOUS
<1> HIDE DEF path
<1>10. f = [j \in Root .. (n - 1) |-> IF j = Root THEN << >> ELSE Append(f[p[j]], j)]
  BY <1>6, <1>7, <1>9
<1>11. \A i : Ancestors(p, i) = f[i]
  BY <1>8, <1>9
<1>12. f[Root] = << >> /\ \A i \in 0 .. (n - 1) : f[i] = Append(f[p[i]], i)
  <2>1. Root \in Root .. (n - 1) /\ \A i \in 0 .. (n - 1) : i \in Root .. (n - 1) /\ i # Root
    BY DEF Root
  <2> QED BY <1>10, <2>1
<1> QED BY <1>11, <1>12

----------------------------------------------------------------------------
(***************************************************************************)
(* The rounds of the mask.                                                 *)
(***************************************************************************)
Chased(n) == [see : [0 .. (n - 1) -> SUBSET (0 .. (n - 1))], anc : [0 .. (n - 1) -> Root .. (n - 1)]]

\* One round of pointer chasing for all nodes.
Chase(p, c) == [see |-> [i \in DOMAIN p |-> c.see[i] \cup ({c.anc[i]} \ {Root})],
                anc |-> [i \in DOMAIN p |-> IF c.anc[i] = Root THEN Root ELSE p[c.anc[i]]]]

\* f is the rounds the mask is made in.
MaskRounds(f, p, depth) ==
    /\ f[0] = [see |-> [i \in DOMAIN p |-> {i}], anc |-> p]
    /\ \A k \in 1 .. (depth - 1) : f[k] = Chase(p, f[k - 1])
    /\ AncestorMask(p, depth) = f[depth - 1].see

\* The rounds of the mask.
LEMMA Rounds ==
    ASSUME NEW n \in Nat, NEW p \in [0 .. (n - 1) -> Root .. (n - 1)], NEW depth \in Nat \ {0}
    PROVE  \E f \in [0 .. (depth - 1) -> Chased(n)] : MaskRounds(f, p, depth)
<1> DEFINE x0 == [see |-> [i \in DOMAIN p |-> {i}], anc |-> p]
           step == [k \in 1 .. (depth - 1) |-> [c \in Chased(n) |-> Chase(p, c)]]
           chase == CHOOSE h : h = [k \in 0 .. (depth - 1) |->
                        IF k = 0 THEN [see |-> [i \in DOMAIN p |-> {i}], anc |-> p]
                        ELSE LET c == h[k - 1] IN
                             [see |-> [i \in DOMAIN p |-> c.see[i] \cup ({c.anc[i]} \ {Root})],
                              anc |-> [i \in DOMAIN p |-> IF c.anc[i] = Root THEN Root
                                                          ELSE p[c.anc[i]]]]]
<1>1. x0 \in Chased(n)
  <2>1. [i \in DOMAIN p |-> {i}] \in [0 .. (n - 1) -> SUBSET (0 .. (n - 1))]
    OBVIOUS
  <2> QED BY <2>1 DEF Chased
<1>2. step \in [1 .. (depth - 1) -> [Chased(n) -> Chased(n)]]
  <2> SUFFICES ASSUME NEW c \in Chased(n) PROVE Chase(p, c) \in Chased(n)
    OBVIOUS
  <2>1. /\ c.see \in [0 .. (n - 1) -> SUBSET (0 .. (n - 1))]
        /\ c.anc \in [0 .. (n - 1) -> Root .. (n - 1)]
    BY DEF Chased
  <2>2. [i \in DOMAIN p |-> c.see[i] \cup ({c.anc[i]} \ {Root})]
            \in [0 .. (n - 1) -> SUBSET (0 .. (n - 1))]
    <3> SUFFICES ASSUME NEW i \in 0 .. (n - 1)
                 PROVE  c.see[i] \cup ({c.anc[i]} \ {Root}) \in SUBSET (0 .. (n - 1))
      OBVIOUS
    <3>1. c.see[i] \in SUBSET (0 .. (n - 1)) /\ c.anc[i] \in Root .. (n - 1)
      BY <2>1
    <3>2. c.anc[i] # Root => c.anc[i] \in 0 .. (n - 1)
      BY <3>1 DEF Root
    <3> QED BY <3>1, <3>2
  <2>3. [i \in DOMAIN p |-> IF c.anc[i] = Root THEN Root ELSE p[c.anc[i]]]
            \in [0 .. (n - 1) -> Root .. (n - 1)]
    <3> SUFFICES ASSUME NEW i \in 0 .. (n - 1)
                 PROVE  (IF c.anc[i] = Root THEN Root ELSE p[c.anc[i]]) \in Root .. (n - 1)
      OBVIOUS
    <3>1. c.anc[i] \in Root .. (n - 1)
      BY <2>1
    <3>2. c.anc[i] # Root => c.anc[i] \in 0 .. (n - 1)
      BY <3>1 DEF Root
    <3>3. Root \in Root .. (n - 1)
      BY DEF Root
    <3> QED BY <3>2, <3>3
  <2> QED BY <2>2, <2>3 DEF Chased, Chase
<1>3. depth - 1 \in Nat
  OBVIOUS
<1> HIDE DEF step, x0
<1>4. PICK f \in [0 .. (depth - 1) -> Chased(n)] : Iterates(f, depth - 1, x0, step)
  BY <1>1, <1>2, <1>3, Recursion
<1>5. \A k \in 0 .. (depth - 1) : f[k] = IF k = 0 THEN x0 ELSE step[k][f[k - 1]]
  BY <1>4 DEF Iterates
<1>6. \A k \in 0 .. (depth - 1) : k # 0 => step[k][f[k - 1]] = Chase(p, f[k - 1])
  <2> SUFFICES ASSUME NEW k \in 1 .. (depth - 1) PROVE step[k][f[k - 1]] = Chase(p, f[k - 1])
    OBVIOUS
  <2>1. f[k - 1] \in Chased(n)
    <3>1. k - 1 \in 0 .. (depth - 1)
      OBVIOUS
    <3> QED BY <1>4, <3>1
  <2> QED BY <2>1 DEF step
<1>7. \A k \in 0 .. (depth - 1) : f[k] = IF k = 0 THEN x0 ELSE Chase(p, f[k - 1])
  BY <1>5, <1>6
<1>8. PICK g : g = chase
  OBVIOUS
<1>9. g = [k \in 0 .. (depth - 1) |-> IF k = 0 THEN x0 ELSE Chase(p, g[k - 1])]
  <2>1. f = [k \in 0 .. (depth - 1) |-> IF k = 0 THEN x0 ELSE Chase(p, f[k - 1])]
    <3>1. f = [k \in 0 .. (depth - 1) |-> f[k]]
      BY <1>4
    <3> QED BY <1>7, <3>1
  <2>2. \E h : h = [k \in 0 .. (depth - 1) |-> IF k = 0 THEN x0 ELSE Chase(p, h[k - 1])]
    BY <2>1
  <2>3. g = CHOOSE h : h = [k \in 0 .. (depth - 1) |-> IF k = 0 THEN x0 ELSE Chase(p, h[k - 1])]
    BY <1>8, Zenon DEF Chase, x0
  <2> QED BY <2>2, <2>3
<1>10. AncestorMask(p, depth) = g[depth - 1].see
  BY <1>8 DEF AncestorMask
<1> HIDE DEF chase
<1> DEFINE Same == {k \in 0 .. (depth - 1) : g[k] = f[k]}
<1>11. \A k \in 0 .. (depth - 1) : k \in Same
  <2>1. \A k \in 0 .. (depth - 1) : g[k] = IF k = 0 THEN x0 ELSE Chase(p, g[k - 1])
    BY <1>9
  <2>2. 0 \in Same
    BY <1>3, <1>7, <2>1
  <2>3. ASSUME NEW k \in 0 .. ((depth - 1) - 1), k \in Same PROVE k + 1 \in Same
    <3>1. k + 1 \in 0 .. (depth - 1) /\ k + 1 # 0 /\ (k + 1) - 1 = k /\ g[k] = f[k]
      BY <1>3, <2>3
    <3>2. g[k + 1] = Chase(p, g[k]) /\ f[k + 1] = Chase(p, f[k])
      BY <1>7, <2>1, <3>1
    <3> QED BY <3>1, <3>2
  <2> HIDE DEF Same
  <2> QED BY <1>3, <2>2, <2>3, Induct
<1>12. /\ f[0] = x0
       /\ \A k \in 1 .. (depth - 1) : f[k] = Chase(p, f[k - 1])
       /\ AncestorMask(p, depth) = f[depth - 1].see
  <2>1. 0 \in 0 .. (depth - 1) /\ depth - 1 \in 0 .. (depth - 1)
        /\ \A k \in 1 .. (depth - 1) : k \in 0 .. (depth - 1) /\ k # 0
    BY <1>3
  <2> QED BY <1>7, <1>10, <1>11, <2>1
<1> QED BY <1>12 DEF x0, MaskRounds

----------------------------------------------------------------------------
(***************************************************************************)
(* Lists laid end to end.                                                  *)
(***************************************************************************)
\* The sums of a list follow each other.
LEMMA Sums ==
    ASSUME NEW m \in Nat, NEW f \in [1 .. m -> Nat]
    PROVE  /\ Upto(f, 0) = 0
           /\ \A k \in 0 .. m : Upto(f, k) \in Nat
           /\ \A k \in 1 .. m : Upto(f, k) = Upto(f, k - 1) + f[k]
<1> DEFINE step == [k \in 1 .. m |-> [x \in Nat |-> x + f[k]]]
<1>1. step \in [1 .. m -> [Nat -> Nat]]
  OBVIOUS
<1>2. PICK s \in [0 .. m -> Nat] : Iterates(s, m, 0, step)
  <2> HIDE DEF step
  <2> QED BY <1>1, Recursion
<1>3. \A k \in 0 .. m : s[k] = IF k = 0 THEN 0 ELSE s[k - 1] + f[k]
  <2> SUFFICES ASSUME NEW k \in 0 .. m PROVE s[k] = IF k = 0 THEN 0 ELSE s[k - 1] + f[k]
    OBVIOUS
  <2>1. s[k] = IF k = 0 THEN 0 ELSE step[k][s[k - 1]]
    BY <1>2 DEF Iterates
  <2>2. k # 0 => k \in 1 .. m /\ k - 1 \in 0 .. m
    OBVIOUS
  <2>3. k # 0 => step[k][s[k - 1]] = s[k - 1] + f[k]
    BY <1>2, <2>2
  <2> QED BY <2>1, <2>3
<1>4. ASSUME NEW n \in 0 .. m PROVE Upto(f, n) = s[n]
  <2> DEFINE sum == CHOOSE h : h = [k \in 0 .. n |-> IF k = 0 THEN 0 ELSE h[k - 1] + f[k]]
  <2>1. PICK h : h = [k \in 0 .. n |-> s[k]]
    OBVIOUS
  <2>2. h = [k \in 0 .. n |-> IF k = 0 THEN 0 ELSE h[k - 1] + f[k]]
    <3>1. ASSUME NEW k \in 0 .. n PROVE h[k] = IF k = 0 THEN 0 ELSE h[k - 1] + f[k]
      <4>1. k \in 0 .. m /\ h[k] = s[k] /\ (k # 0 => h[k - 1] = s[k - 1])
        BY <2>1
      <4> QED BY <1>3, <4>1
    <3> QED BY <2>1, <3>1
  <2>3. PICK g : g = sum
    OBVIOUS
  <2>4. g = [k \in 0 .. n |-> IF k = 0 THEN 0 ELSE g[k - 1] + f[k]]
    BY <2>2, <2>3
  <2>5. Upto(f, n) = g[n]
    BY <2>3 DEF Upto
  <2> HIDE DEF sum
  <2> DEFINE Same == {k \in 0 .. n : g[k] = s[k]}
  <2>6. 0 \in Same
    BY <1>3, <2>4
  <2>7. ASSUME NEW k \in 0 .. (n - 1), k \in Same PROVE k + 1 \in Same
    <3>1. k + 1 \in 0 .. n /\ k + 1 \in 0 .. m /\ k + 1 # 0 /\ (k + 1) - 1 = k /\ g[k] = s[k]
      BY <2>7
    <3>2. g[k + 1] = g[k] + f[k + 1] /\ s[k + 1] = s[k] + f[k + 1]
      BY <1>3, <2>4, <3>1
    <3> QED BY <3>1, <3>2
  <2>8. \A k \in 0 .. n : k \in Same
    <3>1. n \in Nat
      OBVIOUS
    <3> HIDE DEF Same
    <3> QED BY <2>6, <2>7, <3>1, Induct
  <2>9. n \in Same
    BY <2>8
  <2> QED BY <2>5, <2>9
<1>5. Upto(f, 0) = 0
  <2>1. 0 \in 0 .. m
    OBVIOUS
  <2> QED BY <1>3, <1>4, <2>1
<1>6. ASSUME NEW k \in 1 .. m PROVE Upto(f, k) = Upto(f, k - 1) + f[k]
  <2>1. k \in 0 .. m /\ k # 0 /\ k - 1 \in 0 .. m
    OBVIOUS
  <2> QED BY <1>3, <1>4, <2>1
<1> QED BY <1>2, <1>4, <1>5, <1>6

\* The sums of a list rise.
LEMMA SumsRise ==
    ASSUME NEW m \in Nat, NEW f \in [1 .. m -> Nat], NEW i \in 0 .. m, NEW j \in i .. m
    PROVE  Upto(f, i) <= Upto(f, j)
<1> DEFINE G == {k \in 0 .. m : i <= k => Upto(f, i) <= Upto(f, k)}
<1>1. 0 \in G
  BY Sums
<1>2. ASSUME NEW k \in 0 .. (m - 1), k \in G PROVE k + 1 \in G
  <2>1. k \in 0 .. m /\ k + 1 \in 1 .. m /\ (k + 1) - 1 = k
    OBVIOUS
  <2>2. Upto(f, k + 1) = Upto(f, k) + f[k + 1] /\ Upto(f, k) \in Nat /\ Upto(f, i) \in Nat
    BY <2>1, Sums
  <2>3. f[k + 1] \in Nat
    BY <2>1
  <2>4. CASE i <= k
    BY <1>2, <2>1, <2>2, <2>3, <2>4
  <2>5. CASE ~ (i <= k)
    <3>1. i <= k + 1 => i = k + 1
      BY <2>5
    <3> QED BY <2>1, <2>2, <2>3, <3>1
  <2> QED BY <2>4, <2>5
<1>3. \A k \in 0 .. m : k \in G
  <2> HIDE DEF G
  <2> QED BY <1>1, <1>2, Induct
<1>4. j \in G
  BY <1>3
<1> QED BY <1>4

\* Place t is in piece b, of pieces of sizes f.
InPiece(f, b, t) == Upto(f, b - 1) <= t /\ t < Upto(f, b)

PieceAt(f, D, t) == CHOOSE c \in D : InPiece(f, c, t)

\* A place is in one piece: the one that has it counted from the piece's start.
LEMMA PlaceOf ==
    ASSUME NEW m \in Nat, NEW f \in [1 .. m -> Nat], NEW b \in 1 .. m, NEW x \in 0 .. (f[b] - 1)
    PROVE  /\ Upto(f, b - 1) + x \in 0 .. (Upto(f, m) - 1)
           /\ PieceAt(f, 1 .. m, Upto(f, b - 1) + x) = b
           /\ (Upto(f, b - 1) + x) - Upto(f, b - 1) = x
<1>1. /\ Upto(f, b) = Upto(f, b - 1) + f[b] /\ f[b] \in Nat
      /\ Upto(f, b) \in Nat /\ Upto(f, b - 1) \in Nat /\ Upto(f, m) \in Nat
  <2>1. b \in 0 .. m /\ b - 1 \in 0 .. m /\ m \in 0 .. m
    OBVIOUS
  <2> QED BY <2>1, Sums
<1>2. Upto(f, b) <= Upto(f, m)
  BY SumsRise
<1>3. PICK t \in Nat : t = Upto(f, b - 1) + x
  BY <1>1
<1>4. InPiece(f, b, t)
  BY <1>1, <1>3 DEF InPiece
<1>5. ASSUME NEW c \in 1 .. m, InPiece(f, c, t), c # b PROVE FALSE
  <2>1. c \in 0 .. m /\ c - 1 \in 0 .. m /\ b \in 0 .. m /\ b - 1 \in 0 .. m
    OBVIOUS
  <2>2. Upto(f, c) \in Nat /\ Upto(f, c - 1) \in Nat
    BY <2>1, Sums
  <2>3. CASE c < b
    <3>1. Upto(f, c) <= Upto(f, b - 1)
      <4>1. b - 1 \in c .. m
        BY <2>3
      <4> QED BY <2>1, <4>1, SumsRise
    <3> QED BY <1>1, <1>4, <1>5, <2>2, <3>1 DEF InPiece
  <2>4. CASE b < c
    <3>1. Upto(f, b) <= Upto(f, c - 1)
      <4>1. c - 1 \in b .. m
        BY <2>4
      <4> QED BY <2>1, <4>1, SumsRise
    <3> QED BY SMTT(30), <1>1, <1>4, <1>5, <2>2, <3>1 DEF InPiece
  <2> QED BY <1>5, <2>3, <2>4
<1>6. PieceAt(f, 1 .. m, t) = b
  BY <1>4, <1>5 DEF PieceAt
<1>7. t \in 0 .. (Upto(f, m) - 1)
  BY <1>1, <1>2, <1>3
<1>8. t - Upto(f, b - 1) = x
  BY <1>1, <1>3
<1> QED BY <1>3, <1>6, <1>7, <1>8

\* Every place is in a piece.
LEMMA PieceOf ==
    ASSUME NEW m \in Nat, NEW f \in [1 .. m -> Nat], NEW t \in 0 .. (Upto(f, m) - 1)
    PROVE  \E b \in 1 .. m : \E x \in 0 .. (f[b] - 1) : t = Upto(f, b - 1) + x
<1>0. /\ Upto(f, 0) = 0
      /\ \A k \in 0 .. m : Upto(f, k) \in Nat
      /\ \A k \in 1 .. m : Upto(f, k) = Upto(f, k - 1) + f[k]
  BY Sums
<1> DEFINE T == {k \in 0 .. m : t < Upto(f, k)}
<1>1. T \subseteq Nat /\ m \in T
  <2>1. m \in 0 .. m
    OBVIOUS
  <2> QED BY <1>0, <2>1
<1>2. PICK b \in T : \A k \in T : b <= k
  BY <1>1, NatLeast
<1>3. b \in 1 .. m
  BY <1>0, <1>2
<1>4. b - 1 \in 0 .. m /\ b - 1 \notin T
  BY <1>2, <1>3
<1>5. Upto(f, b - 1) <= t /\ t < Upto(f, b - 1) + f[b] /\ Upto(f, b - 1) \in Nat /\ f[b] \in Nat
  BY <1>0, <1>2, <1>3, <1>4
<1>6. PICK x \in 0 .. (f[b] - 1) : x = t - Upto(f, b - 1)
  BY <1>5
<1>7. t = Upto(f, b - 1) + x
  BY <1>5, <1>6
<1> QED BY <1>3, <1>7

\* Sums of lists that begin alike agree as far.
LEMMA SameSums ==
    ASSUME NEW m \in Nat, NEW f \in [1 .. m -> Nat], NEW n \in 0 .. m, NEW g \in [1 .. n -> Nat],
           \A k \in 1 .. n : f[k] = g[k]
    PROVE  \A k \in 0 .. n : Upto(f, k) = Upto(g, k)
<1> DEFINE G == {k \in 0 .. n : Upto(f, k) = Upto(g, k)}
<1>0. n \in Nat /\ 0 \in 0 .. n
  OBVIOUS
<1>1. 0 \in G
  <2>1. Upto(f, 0) = 0
    BY Sums
  <2>2. Upto(g, 0) = 0
    BY <1>0, Sums
  <2> QED BY <1>0, <2>1, <2>2
<1>2. ASSUME NEW k \in 0 .. (n - 1), k \in G PROVE k + 1 \in G
  <2>1. k + 1 \in 0 .. n /\ k + 1 \in 1 .. m /\ k + 1 \in 1 .. n /\ (k + 1) - 1 = k
    OBVIOUS
  <2>2. Upto(f, k + 1) = Upto(f, k) + f[k + 1]
    BY <2>1, Sums
  <2>3. Upto(g, k + 1) = Upto(g, k) + g[k + 1]
    BY <1>0, <2>1, Sums
  <2> QED BY <1>2, <2>1, <2>2, <2>3
<1>3. \A k \in 0 .. n : k \in G
  <2> HIDE DEF G
  <2> QED BY <1>0, <1>1, <1>2, Induct
<1> QED BY <1>3

\* u[k] is the first k pieces, end to end.
Joins(u, pieces, m) == \A k \in 0 .. m : u[k] = IF k = 0 THEN << >> ELSE u[k - 1] \o pieces[k]

\* s is the first k pieces, of the given sizes, each in its place.
LaidOut(s, pieces, sizes, k) ==
    /\ Len(s) = Upto(sizes, k)
    /\ \A b \in 1 .. k : \A x \in 0 .. (sizes[b] - 1) :
           s[Upto(sizes, b - 1) + x + 1] = pieces[b][x + 1]

\* Pieces can be joined.
LEMMA Joinable ==
    ASSUME NEW m \in Nat, NEW X, NEW pieces \in [1 .. m -> Seq(X)]
    PROVE  \E u \in [0 .. m -> Seq(X)] : Joins(u, pieces, m)
<1> DEFINE step == [k \in 1 .. m |-> [s \in Seq(X) |-> s \o pieces[k]]]
<1>1. step \in [1 .. m -> [Seq(X) -> Seq(X)]]
  OBVIOUS
<1>2. << >> \in Seq(X)
  OBVIOUS
<1>3. PICK u \in [0 .. m -> Seq(X)] : Iterates(u, m, << >>, step)
  <2> HIDE DEF step
  <2> QED BY <1>1, <1>2, Recursion
<1>4. ASSUME NEW k \in 0 .. m PROVE u[k] = IF k = 0 THEN << >> ELSE u[k - 1] \o pieces[k]
  <2>1. u[k] = IF k = 0 THEN << >> ELSE step[k][u[k - 1]]
    BY <1>3 DEF Iterates
  <2>2. k # 0 => k \in 1 .. m /\ k - 1 \in 0 .. m
    OBVIOUS
  <2>3. k # 0 => step[k][u[k - 1]] = u[k - 1] \o pieces[k]
    BY <1>3, <2>2
  <2> QED BY <2>1, <2>3
<1> QED BY <1>4 DEF Joins

\* Joined pieces lie each in its place.
LEMMA Laid ==
    ASSUME NEW m \in Nat, NEW X, NEW pieces \in [1 .. m -> Seq(X)], NEW sizes \in [1 .. m -> Nat],
           \A b \in 1 .. m : Len(pieces[b]) = sizes[b],
           NEW u, Joins(u, pieces, m)
    PROVE  \A k \in 0 .. m : u[k] \in Seq(X) /\ LaidOut(u[k], pieces, sizes, k)
<1> DEFINE G == {k \in 0 .. m : u[k] \in Seq(X) /\ LaidOut(u[k], pieces, sizes, k)}
<1>1. \A k \in 0 .. m : u[k] = IF k = 0 THEN << >> ELSE u[k - 1] \o pieces[k]
  BY DEF Joins
<1>2. /\ Upto(sizes, 0) = 0
      /\ \A k \in 0 .. m : Upto(sizes, k) \in Nat
      /\ \A k \in 1 .. m : Upto(sizes, k) = Upto(sizes, k - 1) + sizes[k]
  BY Sums
<1>3. 0 \in G
  <2>1. 0 \in 0 .. m
    OBVIOUS
  <2>2. u[0] = << >>
    BY <1>1, <2>1
  <2>3. LaidOut(<< >>, pieces, sizes, 0)
    <3>1. Len(<< >>) = Upto(sizes, 0)
      BY <1>2
    <3>2. \A b \in 1 .. 0 : FALSE
      OBVIOUS
    <3> QED BY <3>1, <3>2, Zenon DEF LaidOut
  <2>4. u[0] \in Seq(X) /\ LaidOut(u[0], pieces, sizes, 0)
    BY <2>2, <2>3
  <2> QED BY <2>1, <2>4
<1>4. ASSUME NEW k \in 0 .. (m - 1), k \in G PROVE k + 1 \in G
  <2>1. k \in 0 .. m /\ k + 1 \in 0 .. m /\ k + 1 \in 1 .. m /\ k + 1 # 0 /\ (k + 1) - 1 = k
    OBVIOUS
  <2>2. PICK s \in Seq(X) : s = u[k]
    BY <1>4
  <2>3. PICK q \in Seq(X) : q = pieces[k + 1]
    BY <2>1
  <2>4. u[k + 1] = s \o q /\ Len(q) = sizes[k + 1]
    BY <1>1, <2>1, <2>2, <2>3
  <2>5. LaidOut(s, pieces, sizes, k)
    BY <1>4, <2>2
  <2>6. Len(s) = Upto(sizes, k) /\ Upto(sizes, k) \in Nat /\ sizes[k + 1] \in Nat
    BY <1>2, <2>1, <2>5 DEF LaidOut
  <2>7. s \o q \in Seq(X) /\ Len(s \o q) = Upto(sizes, k + 1)
    <3>1. s \o q \in Seq(X) /\ Len(s \o q) = Len(s) + Len(q)
      OBVIOUS
    <3>2. Upto(sizes, k + 1) = Upto(sizes, k) + sizes[k + 1]
      BY <1>2, <2>1
    <3> QED BY <2>4, <2>6, <3>1, <3>2
  <2>8. ASSUME NEW b \in 1 .. (k + 1), NEW x \in 0 .. (sizes[b] - 1)
        PROVE  (s \o q)[Upto(sizes, b - 1) + x + 1] = pieces[b][x + 1]
    <3>1. CASE b = k + 1
      <4>1. Upto(sizes, b - 1) + x + 1 \in (Len(s) + 1) .. (Len(s) + Len(q))
            /\ (Upto(sizes, b - 1) + x + 1) - Len(s) = x + 1
        BY SMTT(30), <2>1, <2>4, <2>6, <3>1
      <4>2. PICK y \in (Len(s) + 1) .. (Len(s) + Len(q)) : y = Upto(sizes, b - 1) + x + 1
        BY <4>1
      <4>3. (s \o q)[y] = q[y - Len(s)]
        <5>1. Len(s) \in Nat /\ Len(q) \in Nat
          OBVIOUS
        <5>2. y \in 1 .. (Len(s) + Len(q)) /\ ~ (y <= Len(s))
          BY <5>1
        <5>3. \A z \in 1 .. (Len(s) + Len(q)) :
                  (s \o q)[z] = IF z <= Len(s) THEN s[z] ELSE q[z - Len(s)]
          OBVIOUS
        <5> QED BY <5>2, <5>3
      <4> QED BY <2>3, <3>1, <4>1, <4>2, <4>3
    <3>2. CASE b # k + 1
      <4>1. b \in 1 .. k /\ b \in 0 .. m /\ b \in 1 .. m /\ b - 1 \in 0 .. m /\ k \in b .. m
        BY <3>2
      <4>2. Upto(sizes, b) <= Upto(sizes, k)
        BY <4>1, SumsRise
      <4>3. Upto(sizes, b) = Upto(sizes, b - 1) + sizes[b] /\ Upto(sizes, b) \in Nat
            /\ Upto(sizes, b - 1) \in Nat /\ sizes[b] \in Nat
        BY <1>2, <4>1
      <4>0. PICK v \in Nat : v = Upto(sizes, b - 1)
        BY <4>3
      <4>4. PICK y \in 1 .. Len(s) : y = v + x + 1
        <5>1. PICK z \in Nat : z = sizes[b]
          BY <4>3
        <5>2. Upto(sizes, b) = v + z /\ Upto(sizes, b) <= Len(s) /\ Len(s) \in Nat
          BY <2>6, <4>0, <4>2, <4>3, <5>1
        <5>3. x \in 0 .. (z - 1)
          BY <5>1
        <5>4. v + x + 1 \in 1 .. Len(s)
          BY <5>2, <5>3
        <5> QED BY <5>4
      <4>5. (s \o q)[y] = s[y]
        OBVIOUS
      <4>6. s[Upto(sizes, b - 1) + x + 1] = pieces[b][x + 1]
        BY <2>5, <4>1 DEF LaidOut
      <4> QED BY <4>0, <4>4, <4>5, <4>6
    <3> QED BY <3>1, <3>2
  <2>9. LaidOut(s \o q, pieces, sizes, k + 1)
    BY <2>7, <2>8 DEF LaidOut
  <2> QED BY <2>1, <2>4, <2>7, <2>9
<1>5. \A k \in 0 .. m : k \in G
  <2> HIDE DEF G
  <2> QED BY <1>3, <1>4, Induct
<1> QED BY <1>5

----------------------------------------------------------------------------
(***************************************************************************)
(* Flat masks. A place of request b is row x \div w and column x % w of a  *)
(* request of w columns.                                                   *)
(***************************************************************************)
\* Rows of w columns, laid end to end.
LEMMA RowAndColumn ==
    ASSUME NEW R \in Nat, NEW w \in Nat \ {0}
    PROVE  \A x \in 0 .. (R * w - 1) : x \div w \in 0 .. (R - 1) /\ x % w \in 0 .. (w - 1)
<1>1. ASSUME NEW x \in 0 .. (R * w - 1)
      PROVE  x \div w \in 0 .. (R - 1) /\ x % w \in 0 .. (w - 1)
  <2>1. x \in Nat /\ R * w \in Nat
    OBVIOUS
  <2>2. PICK q \in Nat : q = x \div w
    BY <2>1
  <2>3. w * q <= x /\ x % w \in 0 .. (w - 1)
    BY <2>1, <2>2
  <2>4. q < R
    <3> SUFFICES ASSUME q >= R PROVE FALSE
      OBVIOUS
    <3>1. PICK d \in Nat : q = R + d
      <4>1. q - R \in Nat
        OBVIOUS
      <4>2. q = R + (q - R)
        OBVIOUS
      <4> QED BY <4>1, <4>2
    <3>2. w * q = R * w + w * d /\ w * d \in Nat
      BY <3>1
    <3> QED BY <2>1, <2>3, <3>2
  <2> QED BY <2>2, <2>3, <2>4
<1> QED BY <1>1

\* What row x \div w of request b sees of column x % w.
FlatBit(prefix, rows, extra, n, b, x) ==
    LET w == prefix[b] + extra + n
        j == (x % w) - (prefix[b] + extra)
    IN  j < 0 \/ j \in rows[b][(x \div w) + 1]

\* The flat mask of requests of given places and columns.
FlatOver(size, width, prefix, rows, extra) ==
    [t \in 0 .. (Upto(size, Len(size)) - 1) |->
        LET b     == PieceAt(size, DOMAIN prefix, t)
            local == t - Upto(size, b - 1)
            r     == local \div width[b]
            j     == (local % width[b]) - (prefix[b] + extra)
        IN  j < 0 \/ j \in rows[b][r + 1]]

\* flat is the flat mask, size[b] the places of request b.
FlatLaid(flat, prefix, rows, extra, n, size) ==
    /\ DOMAIN flat = 0 .. (Upto(size, Len(prefix)) - 1)
    /\ \A b \in 1 .. Len(prefix) : \A x \in 0 .. (size[b] - 1) :
           flat[Upto(size, b - 1) + x] = FlatBit(prefix, rows, extra, n, b, x)

\* A flat mask has every request's places in order.
LEMMA FlatPlaces ==
    ASSUME NEW B \in Nat, NEW prefix \in [1 .. B -> Nat], NEW extra \in Nat, NEW n \in Nat,
           NEW rows, NEW R \in Nat, Len(rows[1]) = R,
           NEW size, size = [b \in 1 .. B |-> R * (prefix[b] + extra + n)]
    PROVE  /\ size \in [1 .. B -> Nat]
           /\ FlatLaid(FlatMask(prefix, rows, extra, n), prefix, rows, extra, n, size)
<1>1. Len(prefix) = B /\ DOMAIN prefix = 1 .. B
  OBVIOUS
<1>2. size \in [1 .. B -> Nat] /\ Len(size) = B
  BY SMTT(30)
<1>3. PICK width : width = [b \in 1 .. B |-> prefix[b] + extra + n]
  OBVIOUS
<1>4. FlatMask(prefix, rows, extra, n) = FlatOver(size, width, prefix, rows, extra)
  <2>1. FlatMask(prefix, rows, extra, n)
            = FlatOver([b \in DOMAIN prefix |->
                            Len(rows[1]) * [c \in DOMAIN prefix |-> prefix[c] + extra + n][b]],
                       [b \in DOMAIN prefix |-> prefix[b] + extra + n], prefix, rows, extra)
    BY DEF FlatMask, FlatOver, PieceAt, InPiece
  <2>2. [b \in DOMAIN prefix |-> Len(rows[1]) * [c \in DOMAIN prefix |-> prefix[c] + extra + n][b]]
            = size
    BY <1>1
  <2>3. [b \in DOMAIN prefix |-> prefix[b] + extra + n] = width
    BY <1>1, <1>3
  <2> QED BY <2>1, <2>2, <2>3
<1>5. PICK flat : flat = FlatOver(size, width, prefix, rows, extra)
  OBVIOUS
<1>6. DOMAIN flat = 0 .. (Upto(size, B) - 1)
  BY <1>2, <1>5 DEF FlatOver
<1>7. ASSUME NEW b \in 1 .. B, NEW x \in 0 .. (size[b] - 1)
      PROVE  flat[Upto(size, b - 1) + x] = FlatBit(prefix, rows, extra, n, b, x)
  <2>1. PICK t \in 0 .. (Upto(size, B) - 1) : t = Upto(size, b - 1) + x
    BY <1>2, PlaceOf
  <2>2. PieceAt(size, 1 .. B, t) = b /\ t - Upto(size, b - 1) = x
    BY ZenonT(30), <1>2, <2>1, PlaceOf
  <2>3. flat[t] = LET local == t - Upto(size, b - 1)
                      r     == local \div width[b]
                      j     == (local % width[b]) - (prefix[b] + extra)
                  IN  j < 0 \/ j \in rows[b][r + 1]
    BY <1>1, <1>2, <1>5, <2>2 DEF FlatOver
  <2>4. width[b] = prefix[b] + extra + n
    BY <1>3
  <2> QED BY <2>1, <2>2, <2>3, <2>4 DEF FlatBit
<1> QED BY <1>1, <1>2, <1>4, <1>5, <1>6, <1>7 DEF FlatLaid

\* Place x is row r and column c of R rows of w columns, and off + x is where a list that
\* starts at off has it.
IsCell(R, w, r, c, x, off) ==
    /\ x \in 0 .. (R * w - 1) /\ x \div w = r - 1 /\ x % w = c
    /\ off + (r - 1) * w + c = off + x

\* The place of row r and column c.
LEMMA PlaceIn ==
    ASSUME NEW R \in Nat, NEW w \in Nat \ {0}, NEW r \in 1 .. R, NEW c \in 0 .. (w - 1),
           NEW off \in Nat, NEW x, x = (r - 1) * w + c
    PROVE  IsCell(R, w, r, c, x, off)
<1>1. PICK s \in Nat : s = r - 1
  OBVIOUS
<1>2. PICK d \in Nat : R = s + 1 + d
  <2>1. R - (s + 1) \in Nat /\ R = s + 1 + (R - (s + 1))
    BY <1>1
  <2> QED BY <2>1
<1>3. R * w = s * w + w + d * w /\ s * w \in Nat /\ d * w \in Nat
  BY <1>2
<1>4. s * w + c \in 0 .. (R * w - 1)
  BY <1>3
<1>5. x \in Nat /\ x = s * w + c
  BY <1>1, <1>3
<1>6. x = w * (x \div w) + (x % w) /\ x \div w \in Nat /\ x % w \in 0 .. (w - 1)
  <2>1. x \div w \in Nat
    OBVIOUS
  <2>2. x % w \in 0 .. (w - 1)
    OBVIOUS
  <2>3. x = w * (x \div w) + (x % w)
    OBVIOUS
  <2> QED BY <2>1, <2>2, <2>3
<1>7. PICK q \in Nat, e \in 0 .. (w - 1) : q = x \div w /\ e = x % w
  BY <1>6
<1>8. w * q + e = w * s + c
  BY <1>5, <1>6, <1>7
<1>9. q = s
  <2>1. ASSUME q < s PROVE FALSE
    <3>1. PICK g \in Nat : s = q + 1 + g
      <4>1. s - (q + 1) \in Nat /\ s = q + 1 + (s - (q + 1))
        BY <2>1
      <4> QED BY <4>1
    <3>2. w * s = w * q + w + w * g /\ w * g \in Nat /\ w * q \in Nat
      BY <3>1
    <3> QED BY <1>8, <3>2
  <2>2. ASSUME s < q PROVE FALSE
    <3>1. PICK g \in Nat : q = s + 1 + g
      <4>1. q - (s + 1) \in Nat /\ q = s + 1 + (q - (s + 1))
        BY <2>2
      <4> QED BY <4>1
    <3>2. w * q = w * s + w + w * g /\ w * g \in Nat /\ w * s \in Nat
      BY <3>1
    <3> QED BY <1>8, <3>2
  <2> QED BY <2>1, <2>2
<1>10. e = c
  BY <1>8, <1>9
<1>11. x \in 0 .. (R * w - 1) /\ x \div w = r - 1 /\ x % w = c
  BY <1>1, <1>4, <1>5, <1>7, <1>9, <1>10
<1>12. off + (r - 1) * w + c = off + x
  <2>1. PICK y \in Nat : y = (r - 1) * w
    BY <1>1, <1>3
  <2> QED BY <2>1
<1> QED BY <1>11, <1>12 DEF IsCell

\* The columns a row of a tree after pre columns sees: those, and its nodes'.
Seen(pre, row) == (0 .. (pre - 1)) \cup {pre + i : i \in row}

\* A column is seen when it is before the tree, or a node's that the row sees.
LEMMA SeenColumns ==
    ASSUME NEW pre \in Nat, NEW n \in Nat, NEW row, row \subseteq 0 .. (n - 1)
    PROVE  /\ \A c \in Nat : c \in Seen(pre, row) <=> (c - pre < 0 \/ c - pre \in row)
           /\ Seen(pre, row) \subseteq 0 .. (pre + n - 1)
<1>1. \A i \in row : i \in 0 .. (n - 1)
  OBVIOUS
<1>2. ASSUME NEW c \in Nat PROVE c \in Seen(pre, row) <=> (c - pre < 0 \/ c - pre \in row)
  <2>1. c \in 0 .. (pre - 1) <=> c - pre < 0
    OBVIOUS
  <2>2. ASSUME NEW i \in row, c = pre + i PROVE c - pre \in row
    <3>1. i \in Nat
      BY <1>1
    <3>2. c - pre = i
      BY <2>2, <3>1
    <3> QED BY <3>2
  <2>3. ASSUME c - pre \in row PROVE \E i \in row : c = pre + i
    <3>1. c = pre + (c - pre)
      OBVIOUS
    <3> QED BY <2>3, <3>1
  <2>4. c \in {pre + i : i \in row} <=> c - pre \in row
    BY <2>2, <2>3
  <2> QED BY <2>1, <2>4 DEF Seen
<1>3. ASSUME NEW c \in Seen(pre, row) PROVE c \in 0 .. (pre + n - 1)
  <2>1. CASE c \in 0 .. (pre - 1)
    BY <2>1
  <2>2. CASE c \in {pre + i : i \in row}
    <3>1. PICK i \in row : c = pre + i
      BY <2>2
    <3>2. i \in 0 .. (n - 1)
      BY <1>1
    <3> QED BY <3>1, <3>2
  <2> QED BY <1>3, <2>1, <2>2 DEF Seen
<1> QED BY <1>2, <1>3

\* Place x is a row and a column, and its bit tells whether the row sees the column.
TellsSeen(prefix, rows, extra, n, R, b, pre, w, x) ==
    /\ x \div w \in 0 .. (R - 1) /\ x % w \in 0 .. (w - 1)
    /\ FlatBit(prefix, rows, extra, n, b, x)
           <=> (x % w) \in Seen(pre, rows[b][(x \div w) + 1])

\* A bit of the row and column is set when the row sees the column.
LEMMA BitSeen ==
    ASSUME NEW prefix, NEW extra \in Nat, NEW n \in Nat \ {0}, NEW rows, NEW R \in Nat, NEW b,
           NEW pre \in Nat, prefix[b] + extra = pre,
           \A r \in 1 .. R : rows[b][r] \subseteq 0 .. (n - 1),
           NEW w \in Nat \ {0}, pre + n = w,
           NEW size, size = R * w, NEW x \in 0 .. (size - 1)
    PROVE  TellsSeen(prefix, rows, extra, n, R, b, pre, w, x)
<1>1. x \div w \in 0 .. (R - 1) /\ x % w \in 0 .. (w - 1)
  BY RowAndColumn
<1>2. PICK q \in 0 .. (R - 1) : q = x \div w
  BY <1>1
<1>3. PICK c \in 0 .. (w - 1) : c = x % w
  BY <1>1
<1>4. q + 1 \in 1 .. R
  OBVIOUS
<1>5. FlatBit(prefix, rows, extra, n, b, x) <=> (c - pre < 0 \/ c - pre \in rows[b][q + 1])
  BY <1>2, <1>3 DEF FlatBit
<1>6. c \in Nat
  OBVIOUS
<1>7. c \in Seen(pre, rows[b][q + 1]) <=> (c - pre < 0 \/ c - pre \in rows[b][q + 1])
  BY <1>4, <1>6, SeenColumns
<1> QED BY <1>1, <1>2, <1>3, <1>5, <1>7 DEF TellsSeen

\* The requests have R rows each, request b over a prefix, extra columns and n nodes, and so
\* many places.
Even(R, B) == [c \in 1 .. B |-> R]
Widths(prefix, extra, n, B) == [b \in 1 .. B |-> prefix[b] + extra + n]
Wide(size, prefix, extra, n, R, B) == size = [c \in 1 .. B |-> R * (prefix[c] + extra + n)]

\* The rows of the requests see nodes of the tree.
InTree(rows, n, R, B) == \A b \in 1 .. B : \A r \in 1 .. R : rows[b][r] \subseteq 0 .. (n - 1)

\* The columns the requests' rows see.
MasksSeen(prefix, rows, extra, B, R) ==
    [b \in 1 .. B |-> [r \in 1 .. R |-> Seen(prefix[b] + extra, rows[b][r])]]

\* A request's mask read back from the flat one is the columns its rows see.
LEMMA ReadBack ==
    ASSUME NEW B \in Nat, NEW prefix \in [1 .. B -> Nat], NEW extra \in Nat, NEW n \in Nat \ {0},
           NEW rows, NEW R \in Nat, InTree(rows, n, R, B),
           NEW size, Wide(size, prefix, extra, n, R, B),
           NEW flat, FlatLaid(flat, prefix, rows, extra, n, size), NEW b \in 1 .. B
    PROVE  MaskOf(flat, Even(R, B), Widths(prefix, extra, n, B), b)
               = MasksSeen(prefix, rows, extra, B, R)[b]
<1> DEFINE qo == [c \in 1 .. B |-> R]
           kv == [c \in 1 .. B |-> prefix[c] + extra + n]
<1>0. /\ size = [c \in 1 .. B |-> R * (prefix[c] + extra + n)]
      /\ \A r \in 1 .. R : rows[b][r] \subseteq 0 .. (n - 1)
  BY DEF Wide, InTree
<1>1. [i \in DOMAIN qo |-> qo[i] * kv[i]] = size
  BY <1>0
<1>2. PICK pre \in Nat : pre = prefix[b] + extra
  OBVIOUS
<1>3. PICK w \in Nat \ {0} : w = pre + n /\ w = kv[b]
  BY <1>2
<1>4. Len(prefix) = B /\ qo[b] = R /\ size[b] = R * w /\ size \in [1 .. B -> Nat]
  <2>1. Len(prefix) = B /\ qo[b] = R
    OBVIOUS
  <2>2. size[b] = R * w
    <3>1. size[b] = R * (prefix[b] + extra + n)
      BY <1>0
    <3>2. prefix[b] + extra + n = w
      BY <1>2, <1>3
    <3> QED BY <3>1, <3>2
  <2>3. size \in [1 .. B -> Nat]
    <3>1. \A c \in 1 .. B : R * (prefix[c] + extra + n) \in Nat
      OBVIOUS
    <3> QED BY <1>0, <3>1
  <2> QED BY <2>1, <2>2, <2>3
<1>5. Upto(size, b - 1) \in Nat
  <2>1. b - 1 \in 0 .. B
    OBVIOUS
  <2> QED BY <1>4, <2>1, Sums
<1>6. PICK off \in Nat : off = Upto(size, b - 1)
  BY <1>5
<1>7. MaskOf(flat, qo, kv, b)
          = [r \in 1 .. R |-> {c \in 0 .. (w - 1) : flat[off + (r - 1) * w + c]}]
  BY <1>1, <1>3, <1>4, <1>6 DEF MaskOf
<1>8. ASSUME NEW r \in 1 .. R
      PROVE  {c \in 0 .. (w - 1) : flat[off + (r - 1) * w + c]} = Seen(pre, rows[b][r])
  <2>1. ASSUME NEW c \in 0 .. (w - 1)
        PROVE  flat[off + (r - 1) * w + c] <=> c \in Seen(pre, rows[b][r])
    <3>1. PICK x : x = (r - 1) * w + c
      OBVIOUS
    <3>2. IsCell(R, w, r, c, x, off)
      BY <3>1, PlaceIn
    <3>3. /\ x \in 0 .. (R * w - 1) /\ x \div w = r - 1 /\ x % w = c
          /\ off + (r - 1) * w + c = off + x
      BY <3>2 DEF IsCell
    <3>4. flat[off + x] = FlatBit(prefix, rows, extra, n, b, x)
      BY <1>4, <1>6, <3>3 DEF FlatLaid
    <3>5. PICK z : z = R * w
      OBVIOUS
    <3>6. FlatBit(prefix, rows, extra, n, b, x) <=> (x % w) \in Seen(pre, rows[b][(x \div w) + 1])
      <4>1. TellsSeen(prefix, rows, extra, n, R, b, pre, w, x)
        BY <1>0, <1>2, <1>3, <3>3, <3>5, BitSeen
      <4> QED BY <4>1 DEF TellsSeen
    <3>7. (r - 1) + 1 = r
      OBVIOUS
    <3> QED BY <3>3, <3>4, <3>6, <3>7
  <2>2. Seen(pre, rows[b][r]) \subseteq 0 .. (w - 1)
    <3>1. n \in Nat /\ rows[b][r] \subseteq 0 .. (n - 1)
      BY <1>0
    <3>2. Seen(pre, rows[b][r]) \subseteq 0 .. (pre + n - 1)
      BY <3>1, SeenColumns, Zenon
    <3> QED BY <1>3, <3>2
  <2> QED BY <2>1, <2>2
<1>9. MasksSeen(prefix, rows, extra, B, R)[b] = [r \in 1 .. R |-> Seen(pre, rows[b][r])]
  BY <1>2 DEF MasksSeen
<1>10. MaskOf(flat, qo, kv, b) = MasksSeen(prefix, rows, extra, B, R)[b]
  BY <1>7, <1>8, <1>9
<1> QED BY <1>10 DEF Even, Widths

\* The bits of the masks, request by request.
BitsOf(masks, kv, b) ==
    [t \in 1 .. (Len(masks[b]) * kv[b]) |-> ((t - 1) % kv[b]) \in masks[b][((t - 1) \div kv[b]) + 1]]

\* g is the masks' bits joined.
FlatJoined(g, masks, kv) ==
    /\ Joins(g, [b \in 1 .. Len(masks) |-> BitsOf(masks, kv, b)], Len(masks))
    /\ FlatOf(masks, kv) = [t \in 0 .. (Len(g[Len(masks)]) - 1) |-> g[Len(masks)][t + 1]]

\* Masks given request by request are flattened by joining their bits.
LEMMA FlatJoins ==
    ASSUME NEW m \in Nat, NEW masks, Len(masks) = m, NEW kv,
           NEW pieces \in [1 .. m -> Seq(BOOLEAN)],
           \A b \in 1 .. m : pieces[b] = BitsOf(masks, kv, b)
    PROVE  \E g : Joins(g, pieces, m) /\ FlatJoined(g, masks, kv)
<1>1. PICK u \in [0 .. m -> Seq(BOOLEAN)] : Joins(u, pieces, m)
  BY Joinable
<1>2. u = [b \in 0 .. m |-> IF b = 0 THEN << >> ELSE u[b - 1] \o BitsOf(masks, kv, b)]
  <2>1. ASSUME NEW b \in 0 .. m
        PROVE  u[b] = IF b = 0 THEN << >> ELSE u[b - 1] \o BitsOf(masks, kv, b)
    <3>1. u[b] = IF b = 0 THEN << >> ELSE u[b - 1] \o pieces[b]
      BY <1>1 DEF Joins
    <3>2. b # 0 => b \in 1 .. m
      OBVIOUS
    <3> QED BY <3>1, <3>2
  <2> QED BY <1>1, <2>1
<1> DEFINE all == CHOOSE h : h = [b \in 0 .. Len(masks) |->
                                      IF b = 0 THEN << >> ELSE h[b - 1] \o BitsOf(masks, kv, b)]
<1>3. all = [b \in 0 .. m |-> IF b = 0 THEN << >> ELSE all[b - 1] \o BitsOf(masks, kv, b)]
  BY <1>2
<1>10. FlatOf(masks, kv) = [t \in 0 .. (Len(all[Len(masks)]) - 1) |-> all[Len(masks)][t + 1]]
  BY DEF FlatOf, BitsOf
<1>11. PICK g : g = all
  OBVIOUS
<1> HIDE DEF all
<1>4. g = [b \in 0 .. m |-> IF b = 0 THEN << >> ELSE g[b - 1] \o BitsOf(masks, kv, b)]
  BY <1>3, <1>11
<1>5. ASSUME NEW b \in 0 .. m
      PROVE  g[b] = IF b = 0 THEN << >> ELSE g[b - 1] \o pieces[b]
  <2>1. g[b] = IF b = 0 THEN << >> ELSE g[b - 1] \o BitsOf(masks, kv, b)
    BY <1>4
  <2>2. b # 0 => b \in 1 .. m
    OBVIOUS
  <2> QED BY <2>1, <2>2
<1>6. Joins(g, pieces, m)
  BY <1>5 DEF Joins
<1>7. pieces = [b \in 1 .. Len(masks) |-> BitsOf(masks, kv, b)]
  OBVIOUS
<1>8. FlatOf(masks, kv) = [t \in 0 .. (Len(g[m]) - 1) |-> g[m][t + 1]]
  BY <1>10, <1>11
<1>9. FlatJoined(g, masks, kv)
  BY <1>6, <1>7, <1>8 DEF FlatJoined
<1> QED BY <1>6, <1>9

\* The requests keep their places, and the pad requests have a column for each row.
Longer(psize, size, B, P, m, R) ==
    /\ \A k \in 0 .. B : Upto(psize, k) = Upto(size, k)
    /\ Upto(psize, m) = Upto(size, B) + P * R

\* A graph runner's padding adds a column for each row of its pad requests.
LEMMA PaddedSize ==
    ASSUME NEW B \in Nat, NEW P \in Nat, NEW m, m = B + P, NEW R \in Nat,
           NEW size \in [1 .. B -> Nat], NEW psize \in [1 .. m -> Nat],
           \A b \in 1 .. B : psize[b] = size[b], \A b \in (B + 1) .. m : psize[b] = R
    PROVE  Longer(psize, size, B, P, m, R)
<1>1. \A k \in 0 .. B : Upto(psize, k) = Upto(size, k)
  <2>1. B + P \in Nat /\ B \in 0 .. (B + P)
    OBVIOUS
  <2> QED BY <2>1, SameSums
<1>2. PICK s \in Nat : s = Upto(size, B)
  <2>1. B \in 0 .. B
    OBVIOUS
  <2> QED BY <2>1, Sums
<1> DEFINE G == {k \in 0 .. P : Upto(psize, B + k) = s + k * R}
<1>3. 0 \in G
  <2>1. B \in 0 .. B /\ B + 0 = B /\ s + 0 * R = s
    OBVIOUS
  <2> QED BY <1>1, <1>2, <2>1
<1>4. ASSUME NEW k \in 0 .. (P - 1), k \in G PROVE k + 1 \in G
  <2>1. /\ k + 1 \in 0 .. P /\ B + P \in Nat /\ B + (k + 1) \in 1 .. (B + P)
        /\ B + (k + 1) \in (B + 1) .. (B + P) /\ (B + (k + 1)) - 1 = B + k
    OBVIOUS
  <2>2. Upto(psize, B + (k + 1)) = Upto(psize, B + k) + R
    <3>1. PICK j \in 1 .. (B + P) : j = B + (k + 1)
      BY <2>1
    <3>2. j - 1 = B + k /\ psize[j] = R
      BY <2>1, <3>1
    <3>3. Upto(psize, j) = Upto(psize, j - 1) + psize[j]
      BY <2>1, Sums
    <3> QED BY <3>1, <3>2, <3>3
  <2>3. (s + k * R) + R = s + (k + 1) * R
    OBVIOUS
  <2> QED BY <1>4, <2>1, <2>2, <2>3
<1>5. \A k \in 0 .. P : k \in G
  <2> HIDE DEF G
  <2> QED BY <1>3, <1>4, Induct
<1>6. P \in G
  BY <1>5
<1> QED BY <1>1, <1>2, <1>6 DEF Longer

\* The mask of a pad request.
PadMask(R) == [r \in 1 .. R |-> {0}]

\* pm is the masks of B requests and m - B masks of pad requests, of R rows each.
PaddedTo(pm, masks, B, P, m, R) ==
    /\ Len(pm) = m
    /\ \A b \in 1 .. B : pm[b] = masks[b]
    /\ \A b \in (B + 1) .. m : pm[b] = PadMask(R)
    /\ \A b \in 1 .. m : Len(pm[b]) = R

\* The padded masks, one by one.
LEMMA PaddedMasks ==
    ASSUME NEW B \in Nat, NEW P \in Nat, NEW m, m = B + P, NEW R \in Nat,
           NEW masks, masks = [b \in 1 .. B |-> masks[b]], \A b \in 1 .. B : Len(masks[b]) = R
    PROVE  PaddedTo(PadMasks(masks, P, R), masks, B, P, m, R)
<1> DEFINE X == {masks[b] : b \in 1 .. B} \cup {PadMask(R)}
<1>1. PICK pads : pads = [p \in 1 .. P |-> [r \in 1 .. R |-> {0}]]
  OBVIOUS
<1>2. pads \in Seq(X) /\ Len(pads) = P /\ \A p \in 1 .. P : pads[p] = PadMask(R)
  <2>1. pads = [p \in 1 .. P |-> PadMask(R)]
    BY <1>1 DEF PadMask
  <2>2. PadMask(R) \in X
    OBVIOUS
  <2> HIDE DEF X
  <2> QED BY <2>1, <2>2
<1>3. PadMasks(masks, P, R) = masks \o pads
  BY <1>1 DEF PadMasks
<1>4. PICK s : s = PadMasks(masks, P, R)
  OBVIOUS
<1>0. masks \in Seq(X) /\ Len(masks) = B
  <2>1. masks \in [1 .. B -> X]
    OBVIOUS
  <2> HIDE DEF X
  <2> QED BY <2>1
<1> HIDE DEF X
<1>5. \A i \in 1 .. (B + P) : s[i] = IF i <= B THEN masks[i] ELSE pads[i - B]
  BY <1>0, <1>2, <1>3, <1>4
<1>6. Len(s) = B + P
  <2>1. Len(masks \o pads) = Len(masks) + Len(pads)
    BY <1>0, <1>2
  <2> QED BY <1>0, <1>2, <1>3, <1>4, <2>1
<1>7. \A b \in 1 .. B : s[b] = masks[b]
  BY <1>5
<1>8. ASSUME NEW b \in (B + 1) .. (B + P) PROVE s[b] = PadMask(R)
  <2>1. b \in 1 .. (B + P) /\ ~ (b <= B) /\ b - B \in 1 .. P
    OBVIOUS
  <2> QED BY <1>2, <1>5, <2>1
<1>9. Len(PadMask(R)) = R
  BY DEF PadMask
<1>10. \A b \in 1 .. (B + P) : b \in 1 .. B \/ b \in (B + 1) .. (B + P)
  OBVIOUS
<1>11. PaddedTo(s, masks, B, P, m, R)
  BY <1>6, <1>7, <1>8, <1>9, <1>10 DEF PaddedTo
<1> QED BY <1>4, <1>11

\* Each request's places are R rows of its columns.
Areas(size, R, kv, m) == \A b \in 1 .. m : kv[b] \in Nat \ {0} /\ size[b] = R * kv[b]

\* flat is the masks given request by request.
MasksLaid(flat, masks, kv, size, m) ==
    /\ flat = [t \in 0 .. (Upto(size, m) - 1) |-> flat[t]]
    /\ \A b \in 1 .. m : \A x \in 0 .. (size[b] - 1) :
           flat[Upto(size, b - 1) + x] = ((x % kv[b]) \in masks[b][(x \div kv[b]) + 1])

\* A flat mask made of the requests' masks has every request's places in order.
LEMMA MasksPlaces ==
    ASSUME NEW m \in Nat, NEW R \in Nat, NEW masks, Len(masks) = m,
           \A b \in 1 .. m : Len(masks[b]) = R,
           NEW kv, NEW size \in [1 .. m -> Nat], Areas(size, R, kv, m)
    PROVE  MasksLaid(FlatOf(masks, kv), masks, kv, size, m)
<1>1. PICK pieces : pieces = [b \in 1 .. m |-> BitsOf(masks, kv, b)]
  OBVIOUS
<1>2. ASSUME NEW b \in 1 .. m
      PROVE  /\ pieces[b] = [t \in 1 .. size[b] |->
                                 ((t - 1) % kv[b]) \in masks[b][((t - 1) \div kv[b]) + 1]]
             /\ pieces[b] \in Seq(BOOLEAN) /\ Len(pieces[b]) = size[b]
  <2>1. Len(masks[b]) * kv[b] = size[b]
    BY DEF Areas
  <2>2. pieces[b] = BitsOf(masks, kv, b)
    BY <1>1
  <2>3. pieces[b] = [t \in 1 .. size[b] |->
                         ((t - 1) % kv[b]) \in masks[b][((t - 1) \div kv[b]) + 1]]
    BY <2>1, <2>2 DEF BitsOf
  <2>4. PICK z \in Nat : z = size[b]
    OBVIOUS
  <2>5. pieces[b] \in [1 .. z -> BOOLEAN]
    BY <2>3, <2>4
  <2>6. pieces[b] \in Seq(BOOLEAN) /\ Len(pieces[b]) = z
    BY <2>5
  <2> QED BY <2>3, <2>4, <2>6
<1>3. pieces \in [1 .. m -> Seq(BOOLEAN)] /\ \A b \in 1 .. m : pieces[b] = BitsOf(masks, kv, b)
  BY <1>1, <1>2
<1>4. PICK g : Joins(g, pieces, m) /\ FlatJoined(g, masks, kv)
  BY <1>3, FlatJoins
<1>5. g[m] \in Seq(BOOLEAN) /\ LaidOut(g[m], pieces, size, m)
  <2>1. m \in 0 .. m
    OBVIOUS
  <2> QED BY <1>2, <1>3, <1>4, <2>1, Laid
<1>6. PICK all : all = g[m]
  OBVIOUS
<1>7. Len(all) = Upto(size, m) /\ Upto(size, m) \in Nat
  <2>1. m \in 0 .. m
    OBVIOUS
  <2> QED BY <1>5, <1>6, <2>1, Sums DEF LaidOut
<1>8. PICK flat : flat = FlatOf(masks, kv)
  OBVIOUS
<1>9. flat = [t \in 0 .. (Upto(size, m) - 1) |-> all[t + 1]]
  BY <1>4, <1>6, <1>7, <1>8 DEF FlatJoined
<1>10. ASSUME NEW b \in 1 .. m, NEW x \in 0 .. (size[b] - 1)
       PROVE  flat[Upto(size, b - 1) + x] = ((x % kv[b]) \in masks[b][(x \div kv[b]) + 1])
  <2>1. PICK t \in 0 .. (Upto(size, m) - 1) : t = Upto(size, b - 1) + x
    BY PlaceOf
  <2>2. flat[t] = all[t + 1]
    BY <1>9
  <2>3. all[Upto(size, b - 1) + x + 1] = pieces[b][x + 1]
    BY <1>5, <1>6 DEF LaidOut
  <2>4. x \in Nat /\ x + 1 \in 1 .. size[b] /\ (x + 1) - 1 = x
    <3>1. size[b] \in Nat
      OBVIOUS
    <3> QED BY <3>1
  <2>5. PICK y \in 1 .. size[b] : y = x + 1
    BY <2>4
  <2>6. pieces[b][y] = (((y - 1) % kv[b]) \in masks[b][((y - 1) \div kv[b]) + 1])
    BY <1>2
  <2>7. y - 1 = x
    BY <2>4, <2>5
  <2>8. pieces[b][x + 1] = ((x % kv[b]) \in masks[b][(x \div kv[b]) + 1])
    BY <2>5, <2>6, <2>7
  <2> QED BY <2>1, <2>2, <2>3, <2>8
<1>11. flat = [t \in 0 .. (Upto(size, m) - 1) |-> flat[t]]
  BY <1>9
<1> QED BY <1>8, <1>10, <1>11 DEF MasksLaid

\* The columns of requests and pad requests.
KvColumns(kv, prefix, extra, n, B, m) ==
    /\ \A b \in 1 .. B : kv[b] = prefix[b] + extra + n
    /\ \A b \in (B + 1) .. m : kv[b] = 1

\* Padded flat, a mask is the padded masks flattened.
PadsAlike(flat, masks, kv, P, R) == PadFlat(flat, P, R) = FlatOf(PadMasks(masks, P, R), kv)

\* A graph runner that pads the flat mask to its bucket gets the mask it would build from
\* the requests' masks one by one.
LEMMA PaddedAlike ==
    ASSUME NEW B \in Nat, NEW prefix \in [1 .. B -> Nat], NEW extra \in Nat, NEW n \in Nat \ {0},
           NEW rows, NEW R \in Nat, InTree(rows, n, R, B),
           NEW P \in Nat, NEW m \in Nat, m = B + P,
           NEW size, Wide(size, prefix, extra, n, R, B),
           NEW flat, FlatLaid(flat, prefix, rows, extra, n, size),
           NEW kv, KvColumns(kv, prefix, extra, n, B, m),
           NEW masks, masks = MasksSeen(prefix, rows, extra, B, R)
    PROVE  PadsAlike(flat, masks, kv, P, R)
<1>1. ASSUME NEW b \in 1 .. B
      PROVE  /\ prefix[b] + extra \in Nat /\ kv[b] = prefix[b] + extra + n
             /\ kv[b] \in Nat \ {0} /\ size[b] = R * kv[b] /\ size[b] \in Nat
  <2>1. prefix[b] + extra \in Nat /\ prefix[b] + extra + n \in Nat \ {0}
    OBVIOUS
  <2>2. kv[b] = prefix[b] + extra + n
    BY DEF KvColumns
  <2>3. size[b] = R * kv[b]
    BY <2>2 DEF Wide
  <2>4. PICK w \in Nat : w = kv[b]
    BY <2>1, <2>2
  <2> QED BY SMTT(30), <2>1, <2>2, <2>3, <2>4
<1>2. size \in [1 .. B -> Nat] /\ Len(prefix) = B
  BY <1>1 DEF Wide
<1>3. PICK psize : psize = [b \in 1 .. m |-> R * kv[b]]
  OBVIOUS
<1>4. \A b \in 1 .. m : b \in 1 .. B \/ b \in (B + 1) .. m
  OBVIOUS
<1>5. ASSUME NEW b \in (B + 1) .. m PROVE kv[b] = 1 /\ R * kv[b] = R /\ b \in 1 .. m
  BY DEF KvColumns
<1>6. \A b \in 1 .. B : b \in 1 .. m
  OBVIOUS
<1>7. /\ psize \in [1 .. m -> Nat] /\ Areas(psize, R, kv, m)
      /\ \A b \in 1 .. B : psize[b] = size[b]
      /\ \A b \in (B + 1) .. m : psize[b] = R
  <2>1. ASSUME NEW b \in 1 .. m PROVE kv[b] \in Nat \ {0} /\ R * kv[b] \in Nat
    <3>1. kv[b] \in Nat \ {0}
      BY <1>1, <1>4, <1>5
    <3>2. PICK w \in Nat : w = kv[b]
      BY <3>1
    <3>3. R * w \in Nat
      OBVIOUS
    <3> QED BY <3>1, <3>2, <3>3
  <2> QED BY <1>1, <1>3, <1>5, <1>6, <2>1 DEF Areas
<1>8. PICK S \in Nat : S = Upto(size, B)
  <2>1. B \in 0 .. B
    OBVIOUS
  <2> QED BY <1>2, <2>1, Sums
<1>9. (\A k \in 0 .. B : Upto(psize, k) = Upto(size, k)) /\ Upto(psize, m) = S + P * R
  <2>1. Longer(psize, size, B, P, m, R)
    BY <1>2, <1>7, PaddedSize
  <2> QED BY <1>8, <2>1 DEF Longer
<1>10. PICK pm : pm = PadMasks(masks, P, R)
  OBVIOUS
<1>11. /\ Len(pm) = m
       /\ \A b \in 1 .. B : pm[b] = masks[b]
       /\ \A b \in (B + 1) .. m : pm[b] = PadMask(R)
       /\ \A b \in 1 .. m : Len(pm[b]) = R
  <2>1. masks = [b \in 1 .. B |-> masks[b]]
    BY DEF MasksSeen
  <2>2. \A b \in 1 .. B : Len(masks[b]) = R
    BY DEF MasksSeen
  <2>3. PaddedTo(pm, masks, B, P, m, R)
    BY <1>10, <2>1, <2>2, PaddedMasks
  <2> QED BY <2>3 DEF PaddedTo
<1>12. PICK ff : ff = FlatOf(pm, kv)
  OBVIOUS
<1>13. MasksLaid(ff, pm, kv, psize, m)
  BY <1>7, <1>11, <1>12, MasksPlaces
<1>14. PadFlat(flat, P, R) = [t \in 0 .. (S + P * R - 1) |-> t < S => flat[t]]
  <2>1. DOMAIN flat = 0 .. (S - 1)
    BY <1>2, <1>8 DEF FlatLaid
  <2>2. 0 \in Int /\ S - 1 \in Int
    OBVIOUS
  <2>3. Cardinality(0 .. (S - 1)) = IF 0 > S - 1 THEN 0 ELSE (S - 1) - 0 + 1
    BY <2>2, FS_Interval
  <2>4. Cardinality(DOMAIN flat) = S
    BY <2>1, <2>3
  <2> QED BY <2>4 DEF PadFlat
<1>15. ASSUME NEW t \in 0 .. (Upto(psize, m) - 1) PROVE ff[t] = (t < S => flat[t])
  <2>1. PICK b \in 1 .. m : \E x \in 0 .. (psize[b] - 1) : t = Upto(psize, b - 1) + x
    BY <1>7, PieceOf
  <2>2. PICK x \in 0 .. (psize[b] - 1) : t = Upto(psize, b - 1) + x
    BY <2>1
  <2>3. ff[t] = ((x % kv[b]) \in pm[b][(x \div kv[b]) + 1])
    BY <1>13, <2>2 DEF MasksLaid
  <2>4. CASE b \in 1 .. B
    <3>1. x \in 0 .. (size[b] - 1) /\ t = Upto(size, b - 1) + x
      <4>1. b - 1 \in 0 .. B
        BY <2>4
      <4> QED BY <1>7, <1>9, <2>2, <2>4, <4>1
    <3>2. t \in 0 .. (S - 1)
      BY <1>2, <1>8, <2>4, <3>1, PlaceOf
    <3>3. flat[t] = FlatBit(prefix, rows, extra, n, b, x)
      BY <1>2, <2>4, <3>1 DEF FlatLaid
    <3>4. PICK pre \in Nat : pre = prefix[b] + extra
      BY <1>1, <2>4
    <3>5. PICK w \in Nat \ {0} : w = pre + n /\ w = kv[b] /\ size[b] = R * w
      BY <1>1, <2>4, <3>4
    <3>6. \A r \in 1 .. R : rows[b][r] \subseteq 0 .. (n - 1)
      BY <2>4 DEF InTree
    <3>7. /\ x \div w \in 0 .. (R - 1)
          /\ FlatBit(prefix, rows, extra, n, b, x)
                 <=> (x % w) \in Seen(pre, rows[b][(x \div w) + 1])
      <4>1. PICK z : z = size[b]
        OBVIOUS
      <4>2. TellsSeen(prefix, rows, extra, n, R, b, pre, w, x)
        BY <3>1, <3>4, <3>5, <3>6, <4>1, BitSeen
      <4> QED BY <4>2 DEF TellsSeen
    <3>8. PICK r \in 1 .. R : r = (x \div w) + 1
      BY SMTT(30), <3>7
    <3>9. pm[b][r] = Seen(pre, rows[b][r])
      <4>1. masks[b] = [q \in 1 .. R |-> Seen(prefix[b] + extra, rows[b][q])]
        BY <2>4 DEF MasksSeen
      <4> QED BY <1>11, <2>4, <3>4, <4>1
    <3>10. ff[t] <=> flat[t]
      BY <2>3, <3>3, <3>5, <3>7, <3>8, <3>9
    <3>11. ff[t] \in BOOLEAN /\ flat[t] \in BOOLEAN
      BY <2>3, <3>3 DEF FlatBit
    <3>12. t < S
      BY <3>2
    <3> QED BY <3>10, <3>11, <3>12
  <2>5. CASE b \in (B + 1) .. m
    <3>1. kv[b] = 1 /\ psize[b] = R /\ pm[b] = PadMask(R)
      BY <1>5, <1>7, <1>11, <2>5
    <3>2. x \in 0 .. (R * 1 - 1)
      BY <2>2, <3>1
    <3>3. x \div 1 \in 0 .. (R - 1) /\ x % 1 \in 0 .. (1 - 1)
      BY <3>2, RowAndColumn
    <3>4. PICK r \in 1 .. R : r = (x \div 1) + 1
      BY <3>3
    <3>5. ff[t]
      <4>1. x % 1 = 0
        BY <3>3
      <4>2. PadMask(R)[r] = {0}
        BY DEF PadMask
      <4> QED BY <2>3, <3>1, <3>4, <4>1, <4>2
    <3>6. ~ (t < S)
      <4>1. b - 1 \in 0 .. m /\ B \in 0 .. m /\ b - 1 \in B .. m /\ B \in 0 .. B
        BY <2>5
      <4>2. Upto(psize, B) <= Upto(psize, b - 1) /\ Upto(psize, b - 1) \in Nat
        BY <1>7, <4>1, Sums, SumsRise
      <4>3. Upto(psize, B) = S
        BY <1>8, <1>9, <4>1
      <4>4. x \in Nat
        BY <3>2
      <4> QED BY <2>2, <4>2, <4>3, <4>4
    <3>7. ff[t] \in BOOLEAN
      BY <2>3
    <3> QED BY <3>5, <3>6, <3>7
  <2> QED BY <1>4, <2>4, <2>5
<1>16. PICK L : L = S + P * R
  OBVIOUS
<1>17. ff = [t \in 0 .. (L - 1) |-> ff[t]]
  BY <1>9, <1>13, <1>16 DEF MasksLaid
<1>18. \A t \in 0 .. (L - 1) : ff[t] = (t < S => flat[t])
  BY <1>9, <1>15, <1>16
<1>19. ff = PadFlat(flat, P, R)
  BY <1>14, <1>16, <1>17, <1>18
<1> QED BY <1>10, <1>12, <1>19 DEF PadsAlike
----------------------------------------------------------------------------
(***************************************************************************)
(* Texts: what entries are named by.                                       *)
(***************************************************************************)
\* The first k tokens of s.
Opening(s, k) == SubSeq(s, 1, k)

\* Openings of a text.
LEMMA Openings ==
    ASSUME NEW s \in Seq(Nat), NEW k \in 0 .. Len(s)
    PROVE  /\ Opening(s, k) \in Seq(Nat) /\ Len(Opening(s, k)) = k
           /\ \A i \in 1 .. k : Opening(s, k)[i] = s[i]
<1>1. \A i \in 1 .. k : s[i] \in Nat
  OBVIOUS
<1>2. Len(s) \in Nat /\ k \in Int /\ 1 \in Int
  OBVIOUS
<1>3. /\ SubSeq(s, 1, k) \in Seq(Nat)
      /\ Len(SubSeq(s, 1, k)) = IF 1 <= k THEN k - 1 + 1 ELSE 0
      /\ \A i \in 1 .. k - 1 + 1 : SubSeq(s, 1, k)[i] = s[1 + i - 1]
  BY <1>1, <1>2, SubSeqProperties
<1> QED BY <1>2, <1>3 DEF Opening

\* Two texts are the same if their tokens are.
LEMMA SameText ==
    ASSUME NEW s \in Seq(Nat), NEW t \in Seq(Nat), Len(s) = Len(t),
           \A i \in 1 .. Len(s) : s[i] = t[i]
    PROVE  s = t
  BY SeqEqual

\* Texts joined in either order.
Regroup(s, t, u) == s \o (t \o u) = (s \o t) \o u

LEMMA Regrouped ==
    ASSUME NEW s \in Seq(Nat), NEW t \in Seq(Nat), NEW u \in Seq(Nat)
    PROVE  Regroup(s, t, u)
  BY SMTT(30) DEF Regroup

\* Openings of what is written in turn, and of what is joined.
LEMMA OpeningsJoined ==
    ASSUME NEW s \in Seq(Nat), NEW t \in Seq(Nat)
    PROVE  /\ s \o t \in Seq(Nat) /\ Len(s \o t) = Len(s) + Len(t)
           /\ \A k \in 0 .. Len(s) : Opening(s \o t, k) = Opening(s, k)
           /\ \A k \in 0 .. Len(t) : Opening(s \o t, Len(s) + k) = s \o Opening(t, k)
           /\ Opening(s, Len(s)) = s /\ Opening(s, 0) = << >>
           /\ \A k \in 0 .. Len(s) : \A l \in 0 .. k : Opening(Opening(s, k), l) = Opening(s, l)
           /\ \A k \in 1 .. Len(s) : Opening(s, k) = Append(Opening(s, k - 1), s[k])
<1>1. PICK u : u = s \o t
  OBVIOUS
<1>2. PICK n, m : n = Len(s) /\ m = Len(t)
  OBVIOUS
<1>3. /\ n \in Nat /\ m \in Nat /\ u \in Seq(Nat) /\ Len(u) = n + m
      /\ \A i \in 1 .. (n + m) : u[i] = IF i <= n THEN s[i] ELSE t[i - n]
  BY <1>1, <1>2, ConcatProperties
<1>4. ASSUME NEW k \in 0 .. n PROVE Opening(u, k) = Opening(s, k)
  <2>1. k \in 0 .. Len(u) /\ k \in 0 .. Len(s)
    BY <1>2, <1>3
  <2>2. /\ Opening(u, k) \in Seq(Nat) /\ Len(Opening(u, k)) = k
        /\ \A i \in 1 .. k : Opening(u, k)[i] = u[i]
    BY <1>3, <2>1, Openings
  <2>3. /\ Opening(s, k) \in Seq(Nat) /\ Len(Opening(s, k)) = k
        /\ \A i \in 1 .. k : Opening(s, k)[i] = s[i]
    BY <2>1, Openings
  <2>4. \A i \in 1 .. k : Opening(u, k)[i] = Opening(s, k)[i]
    BY SMTT(30), <1>3, <2>2, <2>3
  <2> QED BY <2>2, <2>3, <2>4, SameText
<1>5. ASSUME NEW k \in 0 .. m PROVE Opening(u, n + k) = s \o Opening(t, k)
  <2>1. n + k \in 0 .. Len(u) /\ k \in 0 .. Len(t) /\ n + k \in Nat
    BY <1>2, <1>3
  <2>2. PICK a : a = Opening(u, n + k)
    OBVIOUS
  <2>3. a \in Seq(Nat) /\ Len(a) = n + k /\ \A i \in 1 .. (n + k) : a[i] = u[i]
    BY <1>3, <2>1, <2>2, Openings
  <2>4. PICK b : b = Opening(t, k)
    OBVIOUS
  <2>5. b \in Seq(Nat) /\ Len(b) = k /\ \A i \in 1 .. k : b[i] = t[i]
    BY <2>1, <2>4, Openings
  <2>6. PICK c : c = s \o b
    OBVIOUS
  <2>7. c \in Seq(Nat) /\ Len(c) = n + k
        /\ \A i \in 1 .. (n + k) : c[i] = IF i <= n THEN s[i] ELSE b[i - n]
    BY <1>2, <2>5, <2>6, ConcatProperties
  <2>8. ASSUME NEW i \in 1 .. (n + k) PROVE a[i] = c[i]
    <3>1. i \in 1 .. (n + m)
      BY <1>3, <2>1
    <3>2. CASE i <= n
      BY <1>3, <2>3, <2>7, <3>1, <3>2
    <3>3. CASE ~(i <= n)
      <4>1. i - n \in 1 .. k
        BY <1>3, <3>3
      <4> QED BY <1>3, <2>3, <2>5, <2>7, <3>1, <3>3, <4>1
    <3> QED BY <3>2, <3>3
  <2>9. a = c
    BY <2>3, <2>7, <2>8, SameText
  <2> QED BY <2>2, <2>4, <2>6, <2>9
<1>6. Opening(s, n) = s /\ Opening(s, 0) = << >>
  <2>1. Opening(s, n) = s
    BY <1>2, SubSeqFull DEF Opening
  <2>2. Opening(s, 0) = << >>
    BY SubSeqEmpty DEF Opening
  <2> QED BY <2>1, <2>2
<1>7. ASSUME NEW k \in 0 .. n, NEW l \in 0 .. k PROVE Opening(Opening(s, k), l) = Opening(s, l)
  <2>1. k \in 0 .. Len(s) /\ l \in 0 .. Len(s) /\ l \in Nat
    BY <1>2, <1>3
  <2>2. PICK a : a = Opening(s, k)
    OBVIOUS
  <2>3. a \in Seq(Nat) /\ Len(a) = k /\ \A i \in 1 .. k : a[i] = s[i]
    BY <2>1, <2>2, Openings
  <2>4. PICK b : b = Opening(a, l)
    OBVIOUS
  <2>5. b \in Seq(Nat) /\ Len(b) = l /\ \A i \in 1 .. l : b[i] = a[i]
    BY <2>3, <2>4, Openings
  <2>6. PICK c : c = Opening(s, l)
    OBVIOUS
  <2>7. c \in Seq(Nat) /\ Len(c) = l /\ \A i \in 1 .. l : c[i] = s[i]
    BY <2>1, <2>6, Openings
  <2>8. \A i \in 1 .. l : b[i] = c[i]
    <3> SUFFICES ASSUME NEW i \in 1 .. l PROVE b[i] = c[i]
      OBVIOUS
    <3>1. i \in 1 .. k
      BY <2>1
    <3> QED BY <2>3, <2>5, <2>7, <3>1
  <2>9. b = c
    BY <2>5, <2>7, <2>8, SameText
  <2> QED BY <2>2, <2>4, <2>6, <2>9
<1>8. ASSUME NEW k \in 1 .. n PROVE Opening(s, k) = Append(Opening(s, k - 1), s[k])
  <2>1. k \in 0 .. Len(s) /\ k - 1 \in 0 .. Len(s) /\ k \in 1 .. Len(s)
    BY <1>2, <1>3
  <2>2. PICK a : a = Opening(s, k)
    OBVIOUS
  <2>3. a \in Seq(Nat) /\ Len(a) = k /\ \A i \in 1 .. k : a[i] = s[i]
    BY <2>1, <2>2, Openings
  <2>4. PICK b : b = Opening(s, k - 1)
    OBVIOUS
  <2>5. b \in Seq(Nat) /\ Len(b) = k - 1 /\ \A i \in 1 .. (k - 1) : b[i] = s[i]
    BY <2>1, <2>4, Openings
  <2>6. s[k] \in Nat
    BY <2>1
  <2>7. PICK c : c = Append(b, s[k])
    OBVIOUS
  <2>8. c \in Seq(Nat) /\ Len(c) = k /\ (\A i \in 1 .. (k - 1) : c[i] = b[i]) /\ c[k] = s[k]
    <3>1. /\ c \in Seq(Nat) /\ Len(c) = Len(b) + 1 /\ \A i \in 1 .. Len(b) : c[i] = b[i]
          /\ c[Len(b) + 1] = s[k]
      BY <2>5, <2>6, <2>7, AppendProperties
    <3>2. Len(b) + 1 = k
      BY <2>1, <2>5
    <3> QED BY <2>5, <3>1, <3>2
  <2>9. \A i \in 1 .. k : a[i] = c[i]
    <3> SUFFICES ASSUME NEW i \in 1 .. k PROVE a[i] = c[i]
      OBVIOUS
    <3>1. CASE i = k
      BY <2>3, <2>8, <3>1
    <3>2. CASE i # k
      <4>1. i \in 1 .. (k - 1)
        BY <2>1, <3>2
      <4> QED BY <2>3, <2>5, <2>8, <4>1
    <3> QED BY <3>1, <3>2
  <2>10. a = c
    BY <2>3, <2>8, <2>9, SameText
  <2> QED BY <2>2, <2>4, <2>7, <2>10
<1> QED BY <1>1, <1>2, <1>3, <1>4, <1>5, <1>6, <1>7, <1>8
----------------------------------------------------------------------------
(***************************************************************************)
(* What a row computes.                                                    *)
(***************************************************************************)
\* The positions S of view e hold ctx's openings of length first and more, each once.
Reads(e, S, ctx, first) ==
    \E g \in [first .. Len(ctx) -> S] :
        /\ \A k \in first .. Len(ctx) : e[g[k]] = Opening(ctx, k)
        /\ \A p \in S : \E k \in first .. Len(ctx) : g[k] = p

\* They hold nothing else.
Shows(e, S, ctx, first) == {e[p] : p \in S} = {Opening(ctx, k) : k \in first .. Len(ctx)}

\* Such positions are as many as there are openings.
LEMMA ReadsHold ==
    ASSUME NEW e, NEW S, NEW ctx \in Seq(Nat), NEW first \in 1 .. (Len(ctx) + 1),
           Reads(e, S, ctx, first)
    PROVE  /\ Holds(e, S, ctx, first)
           /\ Shows(e, S, ctx, first)
           /\ S = {} <=> first > Len(ctx)
<1>1. PICK n \in Nat : n = Len(ctx)
  OBVIOUS
<1>2. PICK g \in [first .. n -> S] :
          /\ \A k \in first .. n : e[g[k]] = Opening(ctx, k)
          /\ \A p \in S : \E k \in first .. n : g[k] = p
  BY <1>1 DEF Reads
<1>3. \A k \in first .. n : Len(Opening(ctx, k)) = k
  <2> SUFFICES ASSUME NEW k \in first .. n PROVE Len(Opening(ctx, k)) = k
    OBVIOUS
  <2>1. k \in 0 .. Len(ctx)
    BY <1>1
  <2> QED BY <2>1, Openings
<1>4. \A k, l \in first .. n : g[k] = g[l] => k = l
  <2> SUFFICES ASSUME NEW k \in first .. n, NEW l \in first .. n, g[k] = g[l] PROVE k = l
    OBVIOUS
  <2>1. Opening(ctx, k) = Opening(ctx, l)
    BY <1>2
  <2> QED BY <1>3, <2>1
<1>5. first \in Int /\ n \in Int /\ first <= n + 1
  BY <1>1
<1>6. PICK T : T = first .. n
  OBVIOUS
<1>7. IsFiniteSet(T) /\ Cardinality(T) = n - first + 1
  <2>1. IsFiniteSet(T) /\ Cardinality(T) = IF first > n THEN 0 ELSE n - first + 1
    BY <1>5, <1>6, FS_Interval
  <2> QED BY <1>5, <2>1
<1>8. g \in Bijection(T, S)
  <2>1. g \in Injection(T, S)
    BY <1>2, <1>4, <1>6 DEF Injection, IsInjective
  <2>2. g \in Surjection(T, S)
    BY <1>2, <1>6 DEF Surjection
  <2> QED BY <2>1, <2>2 DEF Bijection
<1>9. Cardinality(S) = n - first + 1
  <2>1. ExistsBijection(T, S)
    BY <1>8 DEF ExistsBijection
  <2> QED BY <1>7, <2>1, FS_Bijection
<1>10. {e[p] : p \in S} = {Opening(ctx, k) : k \in first .. n}
  <2>1. ASSUME NEW p \in S PROVE \E k \in first .. n : e[p] = Opening(ctx, k)
    BY <1>2
  <2>2. ASSUME NEW k \in first .. n PROVE \E p \in S : e[p] = Opening(ctx, k)
    BY <1>2
  <2> QED BY <2>1, <2>2
<1>11. S = {} <=> first > n
  <2>1. CASE first > n
    BY <1>2, <1>5, <2>1
  <2>2. CASE ~(first > n)
    <3>1. first \in first .. n
      BY <1>5, <2>2
    <3> QED BY <1>2, <2>2, <3>1
  <2> QED BY <2>1, <2>2
<1> QED BY <1>1, <1>9, <1>10, <1>11 DEF Holds, Opening, Shows

\* No opening of a text is garbage.
LEMMA NoGarbage == Garbage \notin Seq(Nat)
<1>1. Garbage[1] = -1 /\ Len(Garbage) = 1
  BY DEF Garbage
<1>2. ASSUME Garbage \in Seq(Nat) PROVE FALSE
  <2>1. Garbage[1] \in Nat
    BY <1>1, <1>2
  <2> QED BY <1>1, <2>1
<1> QED BY <1>2

\* A row of the target that sees what it should computes the entry of its token.
LEMMA TargetRow ==
    ASSUME NEW e, NEW S, NEW ctx \in Seq(Nat), Reads(e, S, ctx, 1), NEW x, NEW pos, pos = Len(ctx)
    PROVE  TargetEntry(e, x, pos, S) = Append(ctx, x)
<1> DEFINE seen == {e[p] : p \in S}
           c0 == IF S = {} THEN << >>
                 ELSE CHOOSE c \in seen : \A d \in seen : Len(d) <= Len(c)
<1>1. PICK n \in Nat : n = Len(ctx)
  OBVIOUS
<1>2. 1 \in 1 .. (Len(ctx) + 1)
  BY <1>1
<1>3. /\ Holds(e, S, ctx, 1) /\ seen = {Opening(ctx, k) : k \in 1 .. n} /\ (S = {} <=> 1 > n)
  <2>1. Holds(e, S, ctx, 1)
    BY <1>2, ReadsHold
  <2>2. {e[p] : p \in S} = {Opening(ctx, k) : k \in 1 .. Len(ctx)}
    <3>1. Shows(e, S, ctx, 1)
      BY <1>2, ReadsHold
    <3> QED BY <3>1 DEF Shows
  <2>3. S = {} <=> 1 > Len(ctx)
    BY <1>2, ReadsHold
  <2> QED BY <1>1, <2>1, <2>2, <2>3
<1>4. ASSUME NEW k \in 1 .. n PROVE Opening(ctx, k) \in Seq(Nat) /\ Len(Opening(ctx, k)) = k
  <2>1. k \in 0 .. Len(ctx)
    BY <1>1
  <2> QED BY <2>1, Openings
<1>5. Garbage \notin seen
  BY <1>3, <1>4, NoGarbage
<1> HIDE DEF seen
<1>6. c0 = ctx
  <2>1. CASE S = {}
    <3>1. ctx = << >>
      BY <1>1, <1>3, <2>1
    <3> QED BY <2>1, <3>1
  <2>2. CASE S # {}
    <3>1. n \in 1 .. n
      BY <1>1, <1>3, <2>2
    <3>2. Opening(ctx, n) = ctx
      BY <1>1, OpeningsJoined
    <3>3. ctx \in seen /\ \A d \in seen : Len(d) <= Len(ctx)
      <4>1. ctx \in seen
        BY <1>3, <3>1, <3>2
      <4>2. ASSUME NEW d \in seen PROVE Len(d) <= Len(ctx)
        <5>1. PICK k \in 1 .. n : d = Opening(ctx, k)
          BY <1>3
        <5> QED BY <1>1, <1>4, <5>1
      <4> QED BY <4>1, <4>2
    <3>4. PICK c : c = c0
      OBVIOUS
    <3>5. c \in seen /\ \A d \in seen : Len(d) <= Len(c)
      BY <2>2, <3>3, <3>4
    <3>6. PICK k \in 1 .. n : c = Opening(ctx, k)
      BY <1>3, <3>5
    <3>7. k = n
      <4>1. Len(ctx) <= Len(c)
        BY <3>3, <3>5
      <4> QED BY <1>1, <1>4, <3>6, <4>1
    <3> QED BY <3>2, <3>4, <3>6, <3>7
  <2> QED BY <2>1, <2>2
<1> HIDE DEF c0
<1>7. TargetEntry(e, x, pos, S) =
          IF Garbage \notin seen /\ Holds(e, S, c0, 1) /\ pos = Len(c0) THEN Append(c0, x)
          ELSE Garbage
  BY DEF TargetEntry, seen, c0
<1> QED BY <1>3, <1>5, <1>6, <1>7

\* A row of the drafter that sees what it should computes the entry of its token.
LEMMA DraftRow ==
    ASSUME NEW e, NEW S, NEW ctx \in Seq(Nat), ctx # << >>, Reads(e, S, ctx, 2), NEW x, NEW pos,
           pos = Len(ctx) - 1
    PROVE  DraftEntry(e, ctx, x, pos, S) = Append(ctx, x)
<1>1. Len(ctx) \in Nat \ {0}
  OBVIOUS
<1>2. 2 \in 1 .. (Len(ctx) + 1)
  BY <1>1
<1>3. Holds(e, S, ctx, 2)
  BY <1>2, ReadsHold
<1>4. ctx # Garbage
  BY NoGarbage
<1> QED BY <1>3, <1>4 DEF DraftEntry

\* What positions show does not depend on the others.
LEMMA ReadsElsewhere ==
    ASSUME NEW e, NEW S, NEW ctx, NEW first, Reads(e, S, ctx, first), NEW d, \A p \in S : d[p] = e[p]
    PROVE  Reads(d, S, ctx, first)
<1>1. PICK g \in [first .. Len(ctx) -> S] :
          /\ \A k \in first .. Len(ctx) : e[g[k]] = Opening(ctx, k)
          /\ \A p \in S : \E k \in first .. Len(ctx) : g[k] = p
  BY DEF Reads
<1>2. \A k \in first .. Len(ctx) : d[g[k]] = Opening(ctx, k)
  BY <1>1
<1> QED BY <1>1, <1>2 DEF Reads
----------------------------------------------------------------------------
(***************************************************************************)
(* Rows run in turn.                                                       *)
(***************************************************************************)
\* View e once the first k rows, from position base on, have written X.
Filled(e, base, X, k) ==
    [p \in DOMAIN e |-> IF p \in base .. (base + k - 1) THEN X[p - base + 1] ELSE e[p]]

\* The k-th of n rows writes its own position, and those before it are not written again.
FilledBy(e, base, X, n, k) ==
    /\ Filled(e, base, X, k) = [Filled(e, base, X, k - 1) EXCEPT ![base + k - 1] = X[k]]
    /\ \A p \in DOMAIN e \cap (0 .. (base + k - 2)) :
           Filled(e, base, X, k - 1)[p] = Filled(e, base, X, n)[p]

\* The rows filled so far and the next one.
LEMMA FilledNext ==
    ASSUME NEW n \in Nat, NEW base \in Nat, NEW e, base .. (base + n - 1) \subseteq DOMAIN e,
           NEW X, NEW k \in 1 .. n
    PROVE  FilledBy(e, base, X, n, k)
<1>1. PICK f, g : f = Filled(e, base, X, k - 1) /\ g = Filled(e, base, X, k)
  OBVIOUS
<1>2. /\ k - 1 \in Nat /\ base + k - 1 \in base .. (base + n - 1) /\ base + k - 1 \in DOMAIN e
      /\ (base + k - 1) - base + 1 = k
  OBVIOUS
<1>3. DOMAIN f = DOMAIN e /\ f = [p \in DOMAIN e |-> f[p]]
  BY <1>1 DEF Filled
<1>4. g = [p \in DOMAIN e |-> g[p]]
  BY <1>1 DEF Filled
<1>5. ASSUME NEW p \in DOMAIN e PROVE g[p] = IF p = base + k - 1 THEN X[k] ELSE f[p]
  <2>1. g[p] = IF p \in base .. (base + k - 1) THEN X[p - base + 1] ELSE e[p]
    BY <1>1 DEF Filled
  <2>2. f[p] = IF p \in base .. (base + (k - 1) - 1) THEN X[p - base + 1] ELSE e[p]
    BY <1>1 DEF Filled
  <2>3. CASE p = base + k - 1
    <3>1. p \in base .. (base + k - 1) /\ p - base + 1 = k
      BY <1>2, <2>3
    <3> QED BY <2>1, <2>3, <3>1
  <2>4. CASE p # base + k - 1
    <3>1. p \in base .. (base + k - 1) <=> p \in base .. (base + (k - 1) - 1)
      BY <2>4
    <3> QED BY <2>1, <2>2, <2>4, <3>1
  <2> QED BY <2>3, <2>4
<1>6. g = [f EXCEPT ![base + k - 1] = X[k]]
  <2>1. PICK h : h = [f EXCEPT ![base + k - 1] = X[k]]
    OBVIOUS
  <2>2. h = [p \in DOMAIN e |-> IF p = base + k - 1 THEN X[k] ELSE f[p]]
    BY <1>3, <2>1
  <2>3. g = h
    BY <1>4, <1>5, <2>2
  <2> QED BY <2>1, <2>3
<1>7. ASSUME NEW p \in DOMAIN e \cap (0 .. (base + k - 2)) PROVE f[p] = Filled(e, base, X, n)[p]
  <2>1. f[p] = IF p \in base .. (base + (k - 1) - 1) THEN X[p - base + 1] ELSE e[p]
    BY <1>1, <1>7 DEF Filled
  <2>2. Filled(e, base, X, n)[p] = IF p \in base .. (base + n - 1) THEN X[p - base + 1] ELSE e[p]
    BY <1>7 DEF Filled
  <2>3. p \in base .. (base + (k - 1) - 1) <=> p \in base .. (base + n - 1)
    BY <1>7
  <2> QED BY <2>1, <2>2, <2>3
<1> QED BY <1>1, <1>6, <1>7 DEF FilledBy

\* No row run: nothing filled.
LEMMA FilledNone ==
    ASSUME NEW base \in Nat, NEW e, e = [p \in DOMAIN e |-> e[p]], NEW X
    PROVE  Filled(e, base, X, 0) = e
<1>1. base .. (base + 0 - 1) = {}
  OBVIOUS
<1>2. Filled(e, base, X, 0) = [p \in DOMAIN e |-> e[p]]
  BY <1>1 DEF Filled
<1> QED BY <1>2

\* What a filled view holds.
FilledAt(e, base, X, n) ==
    /\ \A k \in 1 .. n : Filled(e, base, X, n)[base + k - 1] = X[k]
    /\ \A q \in DOMAIN e : q < base => Filled(e, base, X, n)[q] = e[q]

LEMMA Filling ==
    ASSUME NEW n \in Nat, NEW base \in Nat, NEW e, 0 .. (base + n - 1) \subseteq DOMAIN e,
           DOMAIN e \subseteq Int, NEW X
    PROVE  FilledAt(e, base, X, n)
<1>1. ASSUME NEW k \in 1 .. n PROVE Filled(e, base, X, n)[base + k - 1] = X[k]
  <2>1. PICK q : q = base + k - 1
    OBVIOUS
  <2>2. q \in DOMAIN e /\ q \in base .. (base + n - 1) /\ q - base + 1 = k
    BY <2>1
  <2> QED BY <2>1, <2>2 DEF Filled
<1>2. ASSUME NEW q \in DOMAIN e, q < base PROVE Filled(e, base, X, n)[q] = e[q]
  <2>1. q \notin base .. (base + n - 1)
    BY <1>2
  <2> QED BY <2>1 DEF Filled
<1> QED BY <1>1, <1>2 DEF FilledAt

\* Row k, at position base + k - 1, is given X[k] by what rows before it wrote.
TargetRight(e, base, X, n, R, T, k) ==
    /\ R[k].slot = base + k - 1
    /\ T[k] \subseteq DOMAIN e \cap (0 .. (base + k - 2))
    /\ \E ctx \in Seq(Nat) : /\ R[k].pos = Len(ctx) /\ X[k] = Append(ctx, R[k].tok)
                             /\ Reads(Filled(e, base, X, n), T[k], ctx, 1)

\* View f once row k has run, seeing T[k] and itself.
TargetRun(f, R, T, k) ==
    [f EXCEPT ![R[k].slot] = TargetEntry(f, R[k].tok, R[k].pos, T[k])]

\* ... and so fills its position.
TargetFills(e, base, X, R, T, k) ==
    Filled(e, base, X, k) = TargetRun(Filled(e, base, X, k - 1), R, T, k)

\* One row of the target.
LEMMA TargetStep ==
    ASSUME NEW n \in Nat, NEW base \in Nat, NEW e, base .. (base + n - 1) \subseteq DOMAIN e,
           NEW X, NEW R, NEW T, NEW k \in 1 .. n, TargetRight(e, base, X, n, R, T, k)
    PROVE  TargetFills(e, base, X, R, T, k)
<1>1. PICK f : f = Filled(e, base, X, k - 1)
  OBVIOUS
<1>2. R[k].slot = base + k - 1 /\ T[k] \subseteq DOMAIN e \cap (0 .. (base + k - 2))
  BY DEF TargetRight
<1>3. PICK ctx \in Seq(Nat) : /\ R[k].pos = Len(ctx) /\ X[k] = Append(ctx, R[k].tok)
                              /\ Reads(Filled(e, base, X, n), T[k], ctx, 1)
  BY DEF TargetRight
<1>0. /\ Filled(e, base, X, k) = [Filled(e, base, X, k - 1) EXCEPT ![base + k - 1] = X[k]]
      /\ \A p \in DOMAIN e \cap (0 .. (base + k - 2)) :
             Filled(e, base, X, k - 1)[p] = Filled(e, base, X, n)[p]
  <2>1. FilledBy(e, base, X, n, k)
    BY FilledNext
  <2> QED BY <2>1 DEF FilledBy
<1>4. Reads(f, T[k], ctx, 1)
  <2>1. \A p \in T[k] : f[p] = Filled(e, base, X, n)[p]
    BY <1>0, <1>1, <1>2
  <2> QED BY <1>3, <2>1, ReadsElsewhere
<1>5. TargetEntry(f, R[k].tok, R[k].pos, T[k]) = X[k]
  BY <1>3, <1>4, TargetRow
<1>6. Filled(e, base, X, k) = [f EXCEPT ![base + k - 1] = X[k]]
  BY <1>0, <1>1
<1> QED BY <1>1, <1>2, <1>5, <1>6 DEF TargetRun, TargetFills

\* Row k of an extend is given X[k] by what is below it.
DraftRight(e, base, X, n, E, T, k) ==
    /\ T[k] \subseteq DOMAIN e \cap (0 .. (base + k - 2))
    /\ E[k].ctx \in Seq(Nat) /\ E[k].ctx # << >> /\ Len(E[k].ctx) - 1 = base + k - 1
    /\ X[k] = Append(E[k].ctx, E[k].tok)
    /\ Reads(Filled(e, base, X, n), T[k], E[k].ctx, 2)

\* View f once row k of an extend has run.
DraftRun(f, base, E, T, k) ==
    [f EXCEPT ![base + k - 1] = DraftEntry(f, E[k].ctx, E[k].tok, base + k - 1, T[k])]

\* ... and so fills its position.
DraftFills(e, base, X, E, T, k) ==
    Filled(e, base, X, k) = DraftRun(Filled(e, base, X, k - 1), base, E, T, k)

\* One row of the drafter.
LEMMA DraftStep ==
    ASSUME NEW n \in Nat, NEW base \in Nat, NEW e, base .. (base + n - 1) \subseteq DOMAIN e,
           NEW X, NEW E, NEW T, NEW k \in 1 .. n, DraftRight(e, base, X, n, E, T, k)
    PROVE  DraftFills(e, base, X, E, T, k)
<1>1. PICK f : f = Filled(e, base, X, k - 1)
  OBVIOUS
<1>2. PICK ctx : ctx = E[k].ctx
  OBVIOUS
<1>3. /\ T[k] \subseteq DOMAIN e \cap (0 .. (base + k - 2))
      /\ ctx \in Seq(Nat) /\ ctx # << >> /\ base + k - 1 = Len(ctx) - 1
      /\ X[k] = Append(ctx, E[k].tok) /\ Reads(Filled(e, base, X, n), T[k], ctx, 2)
  BY <1>2 DEF DraftRight
<1>0. /\ Filled(e, base, X, k) = [Filled(e, base, X, k - 1) EXCEPT ![base + k - 1] = X[k]]
      /\ \A p \in DOMAIN e \cap (0 .. (base + k - 2)) :
             Filled(e, base, X, k - 1)[p] = Filled(e, base, X, n)[p]
  <2>1. FilledBy(e, base, X, n, k)
    BY FilledNext
  <2> QED BY <2>1 DEF FilledBy
<1>4. Reads(f, T[k], ctx, 2)
  <2>1. \A p \in T[k] : f[p] = Filled(e, base, X, n)[p]
    BY <1>0, <1>1, <1>3
  <2> QED BY <1>3, <2>1, ReadsElsewhere
<1>5. DraftEntry(f, ctx, E[k].tok, base + k - 1, T[k]) = X[k]
  BY <1>3, <1>4, DraftRow
<1> QED BY <1>0, <1>1, <1>2, <1>5 DEF DraftRun, DraftFills
----------------------------------------------------------------------------
(***************************************************************************)
(* Paths and masks of a tree.                                              *)
(***************************************************************************)
\* A path of a tree of n nodes goes up node by node.
Rising(a, n) ==
    /\ a \in Seq(0 .. (n - 1))
    /\ \A k, l \in DOMAIN a : k < l => a[k] < a[l]

\* The path of a node rises and ends in the node.
LEMMA PathRises ==
    ASSUME NEW n \in Nat, NEW p, Ordered(p, n), NEW i \in DOMAIN p
    PROVE  Rising(Ancestors(p, i), n) /\ Ancestors(p, i) # << >>
<1>1. /\ p \in [0 .. (n - 1) -> Root .. (n - 1)] /\ \A j \in 0 .. (n - 1) : p[j] < j
      /\ i \in 0 .. (n - 1)
  BY DEF Ordered
<1>2. /\ Ancestors(p, Root) = << >>
      /\ \A j \in 0 .. (n - 1) : Ancestors(p, j) = Append(Ancestors(p, p[j]), j)
  BY PathRecursion
<1> DEFINE Good(j) == /\ Ancestors(p, j) \in Seq(0 .. j)
                      /\ \A k, l \in DOMAIN Ancestors(p, j) :
                             k < l => Ancestors(p, j)[k] < Ancestors(p, j)[l]
           G == {m \in 0 .. n : \A j \in Root .. (m - 1) : Good(j)}
<1>3. 0 \in G
  <2>1. ASSUME NEW j \in Root .. (0 - 1) PROVE Good(j)
    <3>1. j = Root
      BY DEF Root
    <3>2. PICK a : a = Ancestors(p, j)
      OBVIOUS
    <3>3. a = << >>
      BY <1>2, <3>1, <3>2
    <3>4. a \in Seq(0 .. j) /\ DOMAIN a = {}
      BY <3>3
    <3> QED BY <3>2, <3>4
  <2> QED BY <2>1
<1>4. ASSUME NEW m \in 0 .. (n - 1), m \in G PROVE m + 1 \in G
  <2>1. p[m] \in Root .. (m - 1) /\ m \in 0 .. (n - 1) /\ m \in Nat
    BY <1>1 DEF Root
  <2>2. Good(p[m])
    BY <1>4, <2>1
  <2>3. PICK a : a = Ancestors(p, p[m])
    OBVIOUS
  <2>4. a \in Seq(0 .. p[m]) /\ \A k, l \in DOMAIN a : k < l => a[k] < a[l]
    BY <2>2, <2>3
  <2>5. Ancestors(p, m) = Append(a, m)
    BY <1>2, <2>1, <2>3
  <2>6. \A k \in DOMAIN a : a[k] \in 0 .. m /\ a[k] < m
    BY <2>1, <2>4 DEF Root
  <2>7. a \in Seq(0 .. m)
    BY <2>4, <2>6
  <2>8. PICK b : b = Append(a, m)
    OBVIOUS
  <2>9. b \in Seq(0 .. m) /\ Len(b) = Len(a) + 1 /\ b[Len(a) + 1] = m
        /\ \A k \in 1 .. Len(a) : b[k] = a[k]
    BY <2>1, <2>7, <2>8
  <2>10. ASSUME NEW k \in DOMAIN b, NEW l \in DOMAIN b, k < l PROVE b[k] < b[l]
    <3>1. PICK e \in Nat : e = Len(a) /\ DOMAIN a = 1 .. e /\ DOMAIN b = 1 .. (e + 1)
      BY <2>7, <2>9
    <3>2. k \in 1 .. e /\ b[k] = a[k]
      BY <2>9, <2>10, <3>1
    <3>3. CASE l = e + 1
      BY <2>6, <2>9, <3>1, <3>2, <3>3
    <3>4. CASE l # e + 1
      <4>1. l \in 1 .. e /\ b[l] = a[l]
        BY <2>9, <3>1, <3>4
      <4> QED BY <2>4, <2>10, <3>1, <3>2, <4>1
    <3> QED BY <3>3, <3>4
  <2>11. Good(m)
    BY <2>5, <2>8, <2>9, <2>10
  <2>12. ASSUME NEW j \in Root .. ((m + 1) - 1) PROVE Good(j)
    <3>1. CASE j = m
      BY <2>11, <3>1
    <3>2. CASE j # m
      BY <1>4, <2>1, <3>2 DEF Root
    <3> QED BY <3>1, <3>2
  <2> HIDE DEF Good
  <2> QED BY <2>1, <2>12
<1>5. \A k \in 0 .. n : k \in G
  <2> HIDE DEF G
  <2> QED BY <1>3, <1>4, Induct
<1>6. Good(i)
  <2>1. i + 1 \in 0 .. n /\ i \in Root .. ((i + 1) - 1)
    BY <1>1 DEF Root
  <2> HIDE DEF Good
  <2> QED BY <1>5, <2>1
<1>7. PICK a : a = Ancestors(p, i)
  OBVIOUS
<1>8. a \in Seq(0 .. i) /\ \A k, l \in DOMAIN a : k < l => a[k] < a[l]
  BY <1>6, <1>7
<1>9. a \in Seq(0 .. (n - 1))
  BY <1>1, <1>8
<1>10. a # << >>
  <2>1. PICK b : b = Ancestors(p, p[i])
    OBVIOUS
  <2>2. p[i] \in Root .. (i - 1) /\ i + 1 \in 0 .. n /\ i \in 0 .. n /\ p[i] \in Root .. (i - 1)
    BY <1>1 DEF Root
  <2>3. Good(p[i])
    <3> HIDE DEF Good
    <3> QED BY <1>5, <2>2
  <2>4. b \in Seq(0 .. p[i])
    BY <2>1, <2>3
  <2>5. a = Append(b, i)
    BY <1>1, <1>2, <1>7, <2>1
  <2> QED BY <2>4, <2>5
<1> QED BY <1>7, <1>8, <1>9, <1>10 DEF Rising

\* A rising path is at node k - 1 or further by its place k.
LEMMA RisingAhead ==
    ASSUME NEW n \in Nat, NEW a, Rising(a, n)
    PROVE  \A k \in DOMAIN a : a[k] \in 0 .. (n - 1) /\ a[k] >= k - 1
<1>1. a \in Seq(0 .. (n - 1)) /\ \A k, l \in DOMAIN a : k < l => a[k] < a[l]
  BY DEF Rising
<1>2. PICK m \in Nat : m = Len(a) /\ DOMAIN a = 1 .. m
  BY <1>1
<1> DEFINE G == {k \in 0 .. m : k > 0 => a[k] >= k - 1}
<1>3. 0 \in G
  BY <1>2
<1>4. ASSUME NEW k \in 0 .. (m - 1), k \in G PROVE k + 1 \in G
  <2>1. k + 1 \in 1 .. m /\ a[k + 1] \in 0 .. (n - 1) /\ k \in Nat
    BY <1>1, <1>2
  <2>2. CASE k = 0
    BY <2>1, <2>2
  <2>3. CASE k # 0
    <3>1. a[k] >= k - 1 /\ a[k] < a[k + 1] /\ a[k] \in 0 .. (n - 1)
      BY SMTT(30), <1>1, <1>2, <1>4, <2>1, <2>3
    <3> QED BY <2>1, <3>1
  <2> QED BY <2>2, <2>3
<1>5. \A k \in 0 .. m : k \in G
  <2> HIDE DEF G
  <2> QED BY <1>2, <1>3, <1>4, Induct
<1> QED BY <1>1, <1>2, <1>5

\* a goes from a node of the first level down to node i, from parent to child.
Climbs(p, n, i, a) ==
    /\ a \in Seq(0 .. (n - 1)) /\ Len(a) \in Nat \ {0} /\ a[Len(a)] = i /\ p[a[1]] = Root
    /\ \A k \in 2 .. Len(a) : p[a[k]] = a[k - 1]

\* The ancestors of a node are its path.
LEMMA PathClimbs ==
    ASSUME NEW n \in Nat, NEW p, Ordered(p, n), NEW i \in 0 .. (n - 1)
    PROVE  Climbs(p, n, i, Ancestors(p, i))
<1>1. p \in [0 .. (n - 1) -> Root .. (n - 1)] /\ \A j \in 0 .. (n - 1) : p[j] < j
  BY DEF Ordered
<1>2. /\ Ancestors(p, Root) = << >>
      /\ \A j \in 0 .. (n - 1) : Ancestors(p, j) = Append(Ancestors(p, p[j]), j)
  BY PathRecursion
<1> DEFINE G == {m \in 0 .. n : \A j \in 0 .. (m - 1) : Climbs(p, n, j, Ancestors(p, j))}
<1>3. 0 \in G
  OBVIOUS
<1>4. ASSUME NEW m \in 0 .. (n - 1), m \in G PROVE m + 1 \in G
  <2>1. p[m] \in Root .. (m - 1) /\ m \in 0 .. (n - 1) /\ m \in Nat
    BY <1>1 DEF Root
  <2>2. PICK b : b = Ancestors(p, p[m])
    OBVIOUS
  <2>3. PICK a : a = Append(b, m)
    OBVIOUS
  <2>4. Climbs(p, n, m, a)
    <3>1. CASE p[m] = Root
      <4>1. b = << >>
        BY <1>2, <2>2, <3>1
      <4>2. a \in Seq(0 .. (n - 1)) /\ Len(a) = 1 /\ a[1] = m
        BY <2>1, <2>3, <4>1
      <4> QED BY <3>1, <4>2 DEF Climbs
    <3>2. CASE p[m] # Root
      <4>1. p[m] \in 0 .. (m - 1)
        BY <2>1, <3>2 DEF Root
      <4>2. Climbs(p, n, p[m], b)
        BY <1>4, <2>2, <4>1
      <4>3. PICK l \in Nat \ {0} : l = Len(b)
        BY <4>2 DEF Climbs
      <4>4. b \in Seq(0 .. (n - 1)) /\ b[l] = p[m] /\ p[b[1]] = Root
            /\ \A k \in 2 .. l : p[b[k]] = b[k - 1]
        BY <4>2, <4>3 DEF Climbs
      <4>5. /\ a \in Seq(0 .. (n - 1)) /\ Len(a) = l + 1 /\ a[l + 1] = m
            /\ \A k \in 1 .. l : a[k] = b[k]
        BY <2>1, <2>3, <4>3, <4>4, AppendProperties
      <4>6. \A k \in 2 .. (l + 1) : p[a[k]] = a[k - 1]
        <5> SUFFICES ASSUME NEW k \in 2 .. (l + 1) PROVE p[a[k]] = a[k - 1]
          OBVIOUS
        <5>1. CASE k = l + 1
          <6>1. k - 1 = l /\ l \in 1 .. l
            BY <4>3, <5>1
          <6> QED BY <4>4, <4>5, <5>1, <6>1
        <5>2. CASE k # l + 1
          <6>1. k \in 2 .. l /\ k \in 1 .. l /\ k - 1 \in 1 .. l
            BY <4>3, <5>2
          <6> QED BY <4>4, <4>5, <6>1
        <5> QED BY <5>1, <5>2
      <4>7. a[1] = b[1] /\ l + 1 \in Nat \ {0}
        BY <4>3, <4>5
      <4> QED BY <4>4, <4>5, <4>6, <4>7 DEF Climbs
    <3> QED BY <3>1, <3>2
  <2>5. a = Ancestors(p, m)
    BY <1>2, <2>1, <2>2, <2>3
  <2>6. ASSUME NEW j \in 0 .. ((m + 1) - 1) PROVE Climbs(p, n, j, Ancestors(p, j))
    <3>1. CASE j = m
      BY <2>4, <2>5, <3>1
    <3>2. CASE j # m
      <4>1. j \in 0 .. (m - 1)
        BY <2>1, <3>2
      <4> QED BY <1>4, <4>1
    <3> QED BY <3>1, <3>2
  <2> QED BY <2>1, <2>6
<1>5. \A k \in 0 .. n : k \in G
  <2> HIDE DEF G
  <2> QED BY <1>3, <1>4, Induct
<1>6. n \in G
  BY <1>5
<1> QED BY <1>6

\* The path of a node above another is the beginning of the other's.
PathOfPrefix(p, a, k) == Ancestors(p, a[k]) = Opening(a, k)

LEMMA PathPrefix ==
    ASSUME NEW n \in Nat, NEW p, Ordered(p, n), NEW i, NEW a, Climbs(p, n, i, a)
    PROVE  \A k \in 1 .. Len(a) : PathOfPrefix(p, a, k)
<1>1. PICK l \in Nat \ {0} : l = Len(a)
  BY DEF Climbs
<1>2. /\ a \in Seq(0 .. (n - 1)) /\ p[a[1]] = Root
      /\ \A k \in 2 .. l : p[a[k]] = a[k - 1]
  BY <1>1 DEF Climbs
<1>3. /\ Ancestors(p, Root) = << >>
      /\ \A j \in 0 .. (n - 1) : Ancestors(p, j) = Append(Ancestors(p, p[j]), j)
  BY PathRecursion
<1>4. \A k \in 1 .. l : a[k] \in 0 .. (n - 1)
  BY <1>1, <1>2
<1>5. a \in Seq(Nat)
  BY <1>2
<1>6. Opening(a, 0) = << >> /\ \A k \in 1 .. l : Opening(a, k) = Append(Opening(a, k - 1), a[k])
  BY <1>1, <1>5, OpeningsJoined
<1> DEFINE G == {k \in 0 .. l : k # 0 => PathOfPrefix(p, a, k)}
<1>7. 0 \in G
  OBVIOUS
<1>8. ASSUME NEW k \in 0 .. (l - 1), k \in G PROVE k + 1 \in G
  <2>1. k + 1 \in 1 .. l /\ (k + 1) - 1 = k /\ k + 1 \in 0 .. l
    BY <1>1
  <2>2. Ancestors(p, a[k + 1]) = Append(Ancestors(p, p[a[k + 1]]), a[k + 1])
    BY <1>3, <1>4, <2>1
  <2>3. Opening(a, k + 1) = Append(Opening(a, k), a[k + 1])
    BY <1>6, <2>1
  <2>4. CASE k = 0
    <3>1. p[a[k + 1]] = Root
      BY <1>2, <2>4
    <3> QED BY <1>3, <1>6, <2>1, <2>2, <2>3, <2>4, <3>1 DEF PathOfPrefix
  <2>5. CASE k # 0
    <3>1. k + 1 \in 2 .. l /\ Ancestors(p, a[k]) = Opening(a, k)
      BY <1>8, <2>1, <2>5 DEF PathOfPrefix
    <3>2. p[a[k + 1]] = a[k]
      BY <1>2, <2>1, <3>1
    <3> QED BY <2>1, <2>2, <2>3, <3>1, <3>2 DEF PathOfPrefix
  <2> QED BY <2>4, <2>5
<1>9. \A k \in 0 .. l : k \in G
  <2> HIDE DEF G
  <2> QED BY <1>7, <1>8, Induct
<1> QED BY <1>1, <1>9

\* No node of a path comes after its last.
LEMMA PathBelow ==
    ASSUME NEW n \in Nat, NEW p, Ordered(p, n), NEW i \in 0 .. (n - 1)
    PROVE  ToSet(Ancestors(p, i)) \subseteq 0 .. i
<1>1. PICK a : a = Ancestors(p, i)
  OBVIOUS
<1>2. Rising(a, n) /\ Climbs(p, n, i, a)
  <2>1. i \in DOMAIN p
    BY DEF Ordered
  <2> QED BY <1>1, <2>1, PathRises, PathClimbs
<1>3. PICK l \in Nat \ {0} : l = Len(a)
  BY <1>2 DEF Climbs
<1>4. a \in Seq(0 .. (n - 1)) /\ a[l] = i /\ DOMAIN a = 1 .. l
  BY <1>2, <1>3 DEF Climbs
<1>5. \A j, h \in DOMAIN a : j < h => a[j] < a[h]
  BY <1>2 DEF Rising
<1>6. ASSUME NEW x \in ToSet(a) PROVE x \in 0 .. i
  <2>1. PICK m \in 1 .. l : a[m] = x
    BY <1>4 DEF ToSet
  <2>2. x \in 0 .. (n - 1)
    BY <1>4, <2>1
  <2>3. m < l => a[m] < a[l]
    <3>1. m \in DOMAIN a /\ l \in DOMAIN a
      BY <1>3, <1>4
    <3> QED BY <1>5, <3>1
  <2> QED BY <1>3, <1>4, <2>1, <2>2, <2>3
<1> QED BY <1>1, <1>6

\* After k rounds a node sees the k + 1 last nodes of its path a of l + 1, and its pointer is
\* at the one before them.
ChasedTo(c, k, i, l, a) ==
    /\ c.see[i] = {a[m] : m \in {j \in 1 .. (l + 1) : j >= l + 1 - k}}
    /\ c.anc[i] = IF k >= l THEN Root ELSE a[l - k]

\* One round more.
LEMMA OneRound ==
    ASSUME NEW n \in Nat, NEW p \in [0 .. (n - 1) -> Root .. (n - 1)], NEW i \in 0 .. (n - 1),
           NEW a, Climbs(p, n, i, a), NEW l \in Nat, Len(a) = l + 1,
           NEW c \in Chased(n), NEW k \in Nat, ChasedTo(c, k, i, l, a)
    PROVE  ChasedTo(Chase(p, c), k + 1, i, l, a)
<1>2. PICK d : d = Chase(p, c)
  OBVIOUS
<1>3. d.see[i] = c.see[i] \cup ({c.anc[i]} \ {Root})
      /\ d.anc[i] = IF c.anc[i] = Root THEN Root ELSE p[c.anc[i]]
  BY <1>2 DEF Chase
<1>4. /\ a \in Seq(0 .. (n - 1)) /\ p[a[1]] = Root
      /\ \A m \in 2 .. (l + 1) : p[a[m]] = a[m - 1]
      /\ \A m \in 1 .. (l + 1) : a[m] \in 0 .. (n - 1)
  <2>1. /\ a \in Seq(0 .. (n - 1)) /\ p[a[1]] = Root
        /\ \A m \in 2 .. (l + 1) : p[a[m]] = a[m - 1]
    BY DEF Climbs
  <2>2. DOMAIN a = 1 .. (l + 1)
    BY <2>1
  <2>3. \A m \in DOMAIN a : a[m] \in 0 .. (n - 1)
    <3>1. PICK S : S = 0 .. (n - 1)
      OBVIOUS
    <3>2. a \in Seq(S)
      BY <2>1, <3>1
    <3>3. \A m \in DOMAIN a : a[m] \in S
      BY <3>2
    <3> QED BY <3>1, <3>3
  <2> QED BY <2>1, <2>2, <2>3
<1>5. CASE k >= l
  <2>1. c.anc[i] = Root
    BY <1>5 DEF ChasedTo
  <2>2. {j \in 1 .. (l + 1) : j >= l + 1 - k} = {j \in 1 .. (l + 1) : j >= l + 1 - (k + 1)}
    BY <1>5
  <2>3. d.see[i] = {a[m] : m \in {j \in 1 .. (l + 1) : j >= l + 1 - (k + 1)}}
    BY <1>3, <2>1, <2>2 DEF ChasedTo
  <2>4. k + 1 >= l
    BY <1>5
  <2> QED BY <1>2, <1>3, <2>1, <2>3, <2>4 DEF ChasedTo
<1>6. CASE ~(k >= l)
  <2>1. l - k \in 1 .. (l + 1) /\ l + 1 - (k + 1) = l - k /\ l - (k + 1) = (l - k) - 1
    BY <1>6
  <2>2. c.anc[i] = a[l - k] /\ a[l - k] \in 0 .. (n - 1) /\ a[l - k] # Root
    BY <1>4, <1>6, <2>1 DEF ChasedTo, Root
  <2>3. {j \in 1 .. (l + 1) : j >= l + 1 - (k + 1)}
            = {j \in 1 .. (l + 1) : j >= l + 1 - k} \cup {l - k}
    <3>1. \A j \in 1 .. (l + 1) : j >= l + 1 - (k + 1) <=> j >= l + 1 - k \/ j = l - k
      OBVIOUS
    <3> QED BY <2>1, <3>1
  <2>4. d.see[i] = {a[m] : m \in {j \in 1 .. (l + 1) : j >= l + 1 - (k + 1)}}
    <3>1. d.see[i] = c.see[i] \cup {a[l - k]}
      BY <1>3, <2>2
    <3>2. c.see[i] = {a[m] : m \in {j \in 1 .. (l + 1) : j >= l + 1 - k}}
      BY DEF ChasedTo
    <3> QED BY <2>3, <3>1, <3>2
  <2>5. d.anc[i] = p[a[l - k]]
    BY <1>3, <2>2
  <2>6. CASE l - k = 1
    <3>1. k + 1 >= l
      BY <2>6
    <3> QED BY <1>2, <1>4, <2>4, <2>5, <2>6, <3>1 DEF ChasedTo
  <2>7. CASE l - k # 1
    <3>1. ~(k + 1 >= l) /\ l - k \in 2 .. (l + 1)
      BY <2>1, <2>7
    <3> QED BY <1>2, <1>4, <2>1, <2>4, <2>5, <3>1 DEF ChasedTo
  <2> QED BY <2>6, <2>7
<1> QED BY <1>5, <1>6

\* What a row of the mask sees is its node's path.
SeesPath(p, depth, i) == AncestorMask(p, depth)[i] = ToSet(Ancestors(p, i))

\* The pointers chased as many times as the path is long, or more, every row is the path.
LEMMA MaskIsPath ==
    ASSUME NEW n \in Nat, NEW p, Ordered(p, n), NEW depth \in Nat, NEW i \in 0 .. (n - 1),
           Len(Ancestors(p, i)) <= depth
    PROVE  SeesPath(p, depth, i)
<1>1. p \in [0 .. (n - 1) -> Root .. (n - 1)]
  BY DEF Ordered
<1>2. PICK a : a = Ancestors(p, i)
  OBVIOUS
<1>3. Climbs(p, n, i, a)
  BY <1>2, PathClimbs
<1>4. PICK l \in Nat : Len(a) = l + 1
  <2>1. Len(a) \in Nat \ {0}
    BY <1>3 DEF Climbs
  <2>2. PICK x \in Nat \ {0} : x = Len(a)
    BY <2>1
  <2>3. x - 1 \in Nat /\ x = (x - 1) + 1
    OBVIOUS
  <2> QED BY <2>2, <2>3
<1>4a. depth \in Nat \ {0} /\ l <= depth - 1
  BY <1>2, <1>4
<1>5. PICK f \in [0 .. (depth - 1) -> Chased(n)] : MaskRounds(f, p, depth)
  BY <1>1, <1>4a, Rounds
<1>5a. /\ f[0] = [see |-> [j \in DOMAIN p |-> {j}], anc |-> p]
       /\ \A k \in 1 .. (depth - 1) : f[k] = Chase(p, f[k - 1])
       /\ AncestorMask(p, depth) = f[depth - 1].see
  BY <1>5 DEF MaskRounds
<1> DEFINE G == {k \in 0 .. (depth - 1) : ChasedTo(f[k], k, i, l, a)}
<1>6. /\ a \in Seq(0 .. (n - 1)) /\ a[l + 1] = i /\ p[a[1]] = Root
      /\ \A m \in 2 .. (l + 1) : p[a[m]] = a[m - 1]
  BY <1>3, <1>4 DEF Climbs
<1>7. 0 \in G
  <2>1. f[0].see[i] = {i} /\ f[0].anc[i] = p[i]
    BY <1>1, <1>5a
  <2>2. {j \in 1 .. (l + 1) : j >= l + 1 - 0} = {l + 1}
    BY <1>4
  <2>3. f[0].see[i] = {a[m] : m \in {j \in 1 .. (l + 1) : j >= l + 1 - 0}}
    BY <1>6, <2>1, <2>2
  <2>4. CASE l = 0
    <3>1. 0 >= l /\ l + 1 = 1
      BY <2>4
    <3>2. p[i] = Root
      BY <1>6, <3>1
    <3> QED BY <1>4a, <2>1, <2>3, <3>1, <3>2 DEF ChasedTo
  <2>5. CASE l # 0
    <3>1. ~(0 >= l) /\ l - 0 = l /\ l + 1 \in 2 .. (l + 1) /\ (l + 1) - 1 = l
      BY <1>4, <2>5
    <3>2. p[i] = a[l]
      BY <1>6, <3>1
    <3> QED BY SMTT(30), <1>4a, <2>1, <2>3, <3>1, <3>2 DEF ChasedTo
  <2> QED BY <2>4, <2>5
<1>8. ASSUME NEW k \in 0 .. ((depth - 1) - 1), k \in G PROVE k + 1 \in G
  <2>1. k + 1 \in 0 .. (depth - 1) /\ k + 1 \in 1 .. (depth - 1) /\ (k + 1) - 1 = k /\ k \in Nat
        /\ k \in 0 .. (depth - 1)
    BY <1>4a
  <2>2. f[k] \in Chased(n) /\ f[k + 1] = Chase(p, f[k]) /\ ChasedTo(f[k], k, i, l, a)
    BY <1>5, <1>5a, <1>8, <2>1
  <2>3. ChasedTo(Chase(p, f[k]), k + 1, i, l, a)
    BY <1>1, <1>3, <1>4, <2>1, <2>2, OneRound
  <2> QED BY <2>1, <2>2, <2>3
<1> HIDE DEF G
<1>9. depth - 1 \in Nat
  BY <1>4a
<1>9a. depth - 1 \in G
  <2>1. \A k \in 0 .. (depth - 1) : k \in G
    BY <1>7, <1>8, <1>9, Induct
  <2> QED BY <1>9, <2>1
<1>10. f[depth - 1].see[i] = {a[m] : m \in {j \in 1 .. (l + 1) : j >= l + 1 - (depth - 1)}}
  BY <1>9a DEF G, ChasedTo
<1>11. {j \in 1 .. (l + 1) : j >= l + 1 - (depth - 1)} = 1 .. (l + 1)
  BY <1>4, <1>4a
<1>12. ToSet(a) = {a[m] : m \in 1 .. (l + 1)}
  <2>1. DOMAIN a = 1 .. (l + 1)
    BY <1>4, <1>6
  <2> QED BY <2>1 DEF ToSet
<1> QED BY <1>2, <1>5a, <1>10, <1>11, <1>12 DEF SeesPath
----------------------------------------------------------------------------
(***************************************************************************)
(* The tokens of a path, and what sees them.                               *)
(***************************************************************************)
\* A token is named by a number.
LEMMA NodeTokenType ==
    ASSUME NEW n \in Nat, NEW p, Ordered(p, n), NEW i
    PROVE  NodeToken(p, i) \in Nat
<1>1. PICK S : S = {c \in DOMAIN p : p[c] = p[i] /\ c <= i}
  OBVIOUS
<1>2. PICK T : T = 0 .. (n - 1)
  OBVIOUS
<1>3. S \subseteq T
  BY <1>1, <1>2 DEF Ordered
<1>4. IsFiniteSet(T)
  BY <1>2, FS_Interval
<1>5. IsFiniteSet(S)
  BY <1>3, <1>4, FS_Subset
<1>6. Cardinality(S) \in Nat
  BY <1>5, FS_CardinalityType
<1> QED BY <1>1, <1>6 DEF NodeToken

\* The tokens from the first level down to node i.
Words(p, i) == PathTokens(p, Ancestors(p, i))

\* A node's tokens are its parent's and its own, and begin with those of every node above.
Spelled(p, i) ==
    /\ Words(p, i) \in Seq(Nat) /\ Len(Words(p, i)) = Len(Ancestors(p, i))
    /\ Words(p, p[i]) \in Seq(Nat) /\ Len(Words(p, p[i])) = Len(Ancestors(p, i)) - 1
    /\ Words(p, i) = Append(Words(p, p[i]), NodeToken(p, i))
    /\ \A k \in DOMAIN Ancestors(p, i) :
           Words(p, Ancestors(p, i)[k]) = Opening(Words(p, i), k)

LEMMA Spelling ==
    ASSUME NEW n \in Nat, NEW p, Ordered(p, n), NEW i \in 0 .. (n - 1)
    PROVE  Spelled(p, i)
<1>1. p \in [0 .. (n - 1) -> Root .. (n - 1)] /\ \A j \in 0 .. (n - 1) : p[j] < j
  BY DEF Ordered
<1>2. /\ Ancestors(p, Root) = << >>
      /\ \A j \in 0 .. (n - 1) : Ancestors(p, j) = Append(Ancestors(p, p[j]), j)
  BY PathRecursion
<1>3. PICK a, b : a = Ancestors(p, i) /\ b = Ancestors(p, p[i])
  OBVIOUS
<1>4. Climbs(p, n, i, a)
  BY <1>3, PathClimbs
<1>5. PICK l \in Nat \ {0} : l = Len(a)
  BY <1>4 DEF Climbs
<1>6. a \in Seq(0 .. (n - 1)) /\ a[l] = i /\ DOMAIN a = 1 .. l
  BY <1>4, <1>5 DEF Climbs
<1>7. a = Append(b, i)
  BY <1>2, <1>3
<1>8. b \in Seq(0 .. (n - 1))
  <2>1. CASE p[i] = Root
    BY <1>2, <1>3, <2>1
  <2>2. CASE p[i] # Root
    <3>1. p[i] \in 0 .. (n - 1)
      BY <1>1, <2>2 DEF Root
    <3>2. Climbs(p, n, p[i], b)
      BY <1>3, <3>1, PathClimbs
    <3> QED BY <3>2 DEF Climbs
  <2> QED BY <2>1, <2>2
<1>9. /\ Len(b) = l - 1 /\ DOMAIN b = 1 .. (l - 1)
      /\ \A k \in 1 .. (l - 1) : a[k] = b[k]
  <2>1. Len(a) = Len(b) + 1 /\ \A k \in 1 .. Len(b) : a[k] = b[k]
    BY <1>7, <1>8, AppendProperties
  <2>2. Len(b) \in Nat /\ DOMAIN b = 1 .. Len(b)
    BY <1>8
  <2>3. Len(b) = l - 1
    BY <1>5, <2>1, <2>2
  <2> QED BY <2>1, <2>2, <2>3
<1>10. PICK u, v : u = Words(p, i) /\ v = Words(p, p[i])
  OBVIOUS
<1>11. u \in Seq(Nat) /\ Len(u) = l /\ \A k \in 1 .. l : u[k] = NodeToken(p, a[k])
  <2>1. u = [k \in 1 .. l |-> NodeToken(p, a[k])]
    BY <1>3, <1>6, <1>10 DEF Words, PathTokens
  <2>2. \A k \in 1 .. l : NodeToken(p, a[k]) \in Nat
    BY NodeTokenType
  <2> QED BY <2>1, <2>2
<1>12. v \in Seq(Nat) /\ Len(v) = l - 1 /\ \A k \in 1 .. (l - 1) : v[k] = NodeToken(p, b[k])
  <2>1. v = [k \in 1 .. (l - 1) |-> NodeToken(p, b[k])]
    BY <1>3, <1>9, <1>10 DEF Words, PathTokens
  <2>2. \A k \in 1 .. (l - 1) : NodeToken(p, b[k]) \in Nat
    BY NodeTokenType
  <2>3. l - 1 \in Nat
    OBVIOUS
  <2> QED BY <2>1, <2>2, <2>3
<1>13. u = Append(v, NodeToken(p, i))
  <2>1. PICK w : w = Append(v, NodeToken(p, i))
    OBVIOUS
  <2>2. NodeToken(p, i) \in Nat
    BY NodeTokenType
  <2>3. /\ w \in Seq(Nat) /\ Len(w) = Len(v) + 1 /\ w[Len(v) + 1] = NodeToken(p, i)
        /\ \A k \in 1 .. Len(v) : w[k] = v[k]
    BY <1>12, <2>1, <2>2, AppendProperties
  <2>4. Len(w) = l /\ w[l] = NodeToken(p, i) /\ \A k \in 1 .. (l - 1) : w[k] = v[k]
    <3>1. Len(v) = l - 1 /\ (l - 1) + 1 = l
      BY <1>12
    <3> QED BY <2>3, <3>1
  <2>5. ASSUME NEW k \in 1 .. l PROVE u[k] = w[k]
    <3>1. CASE k = l
      BY <1>6, <1>11, <2>4, <3>1
    <3>2. CASE k # l
      <4>1. k \in 1 .. (l - 1)
        BY <3>2
      <4> QED BY <1>9, <1>11, <1>12, <2>4, <4>1
    <3> QED BY <3>1, <3>2
  <2>6. u = w
    BY <1>11, <2>3, <2>4, <2>5, SameText
  <2> QED BY <2>1, <2>6
<1>14. ASSUME NEW k \in 1 .. l PROVE Words(p, a[k]) = Opening(u, k)
  <2>1. PathOfPrefix(p, a, k)
    BY <1>4, <1>5, PathPrefix
  <2>2. PICK c : c = Opening(a, k)
    OBVIOUS
  <2>3. c = Ancestors(p, a[k])
    BY <2>1, <2>2 DEF PathOfPrefix
  <2>4. a \in Seq(Nat) /\ k \in 0 .. Len(a)
    BY <1>5, <1>6
  <2>5. c \in Seq(Nat) /\ Len(c) = k /\ \A j \in 1 .. k : c[j] = a[j]
    BY <2>2, <2>4, Openings
  <2>6. k \in 0 .. Len(u) /\ k \in Nat
    BY <1>11
  <2>7. PICK w : w = Opening(u, k)
    OBVIOUS
  <2>8. w \in Seq(Nat) /\ Len(w) = k /\ \A j \in 1 .. k : w[j] = u[j]
    BY <1>11, <2>6, <2>7, Openings
  <2>9. PICK x : x = Words(p, a[k])
    OBVIOUS
  <2>10. x = [j \in 1 .. k |-> NodeToken(p, c[j])]
    BY <2>3, <2>5, <2>9 DEF Words, PathTokens
  <2>11. \A j \in 1 .. k : NodeToken(p, c[j]) \in Nat
    BY NodeTokenType
  <2>12. x \in Seq(Nat) /\ Len(x) = k /\ \A j \in 1 .. k : x[j] = NodeToken(p, c[j])
    BY <2>6, <2>10, <2>11
  <2>13. \A j \in 1 .. k : x[j] = w[j]
    <3> SUFFICES ASSUME NEW j \in 1 .. k PROVE x[j] = w[j]
      OBVIOUS
    <3>1. j \in 1 .. l
      BY <2>6
    <3> QED BY <1>11, <2>5, <2>8, <2>12, <3>1
  <2>14. x = w
    BY <2>8, <2>12, <2>13, SameText
  <2> QED BY <2>7, <2>9, <2>14
<1> QED BY <1>3, <1>5, <1>6, <1>10, <1>11, <1>12, <1>13, <1>14 DEF Spelled

\* The first positions hold a text.
Begins(e, t, n) == \A k \in 1 .. n : e[k - 1] = Opening(t, k)

\* Seeing everything before it, a row reads the text so far.
LEMMA ReadsText ==
    ASSUME NEW e, NEW ctx \in Seq(Nat), NEW L \in Nat, L = Len(ctx), Begins(e, ctx, L)
    PROVE  Reads(e, 0 .. (L - 1), ctx, 1)
<1>1. PICK g : g = [k \in 1 .. L |-> k - 1]
  OBVIOUS
<1>2. g \in [1 .. Len(ctx) -> 0 .. (L - 1)] /\ \A k \in 1 .. L : g[k] = k - 1
  BY <1>1
<1>3. \A k \in 1 .. Len(ctx) : e[g[k]] = Opening(ctx, k)
  BY <1>2 DEF Begins
<1>4. \A q \in 0 .. (L - 1) : \E k \in 1 .. Len(ctx) : g[k] = q
  <2> SUFFICES ASSUME NEW q \in 0 .. (L - 1) PROVE \E k \in 1 .. Len(ctx) : g[k] = q
    OBVIOUS
  <2>1. q + 1 \in 1 .. L /\ (q + 1) - 1 = q
    OBVIOUS
  <2> QED BY <1>2, <2>1
<1> QED BY <1>2, <1>3, <1>4 DEF Reads

\* The first positions hold a text, one token ahead.
Leads(e, t, n) == \A p \in 0 .. (n - 1) : e[p] = Opening(t, p + 2)

\* Seeing everything before it, a row of the drafter reads the text so far.
LEMMA ReadsAhead ==
    ASSUME NEW e, NEW ctx \in Seq(Nat), NEW n \in Nat, Len(ctx) = n + 1, Leads(e, ctx, n)
    PROVE  Reads(e, 0 .. (n - 1), ctx, 2)
<1> DEFINE g == [k \in 2 .. (n + 1) |-> k - 2]
<1>1. g \in [2 .. Len(ctx) -> 0 .. (n - 1)]
  OBVIOUS
<1>2. ASSUME NEW k \in 2 .. Len(ctx) PROVE e[g[k]] = Opening(ctx, k)
  <2>1. k - 2 \in 0 .. (n - 1) /\ (k - 2) + 2 = k /\ g[k] = k - 2
    OBVIOUS
  <2> QED BY <2>1 DEF Leads
<1>3. ASSUME NEW p \in 0 .. (n - 1) PROVE \E k \in 2 .. Len(ctx) : g[k] = p
  <2>1. p + 2 \in 2 .. Len(ctx) /\ g[p + 2] = p
    OBVIOUS
  <2> QED BY <2>1
<1> QED BY <1>1, <1>2, <1>3 DEF Reads

\* An opening leads as the text does.
LEMMA OpeningLeads ==
    ASSUME NEW e, NEW t \in Seq(Nat), NEW k \in 1 .. Len(t), NEW n \in Nat, Leads(e, t, n), k - 1 <= n
    PROVE  Leads(e, Opening(t, k), k - 1)
<1> SUFFICES ASSUME NEW p \in 0 .. (k - 1 - 1) PROVE e[p] = Opening(Opening(t, k), p + 2)
  BY DEF Leads
<1>1. p \in 0 .. (n - 1) /\ k \in 0 .. Len(t) /\ p + 2 \in 0 .. k
  OBVIOUS
<1>2. Opening(Opening(t, k), p + 2) = Opening(t, p + 2)
  BY <1>1, OpeningsJoined
<1> QED BY <1>1, <1>2 DEF Leads

\* The nodes above i, at their positions from base on.
NodesAbove(p, base, i) == {base + x : x \in ToSet(Ancestors(p, i)) \ {i}}

\* Nodes hold the text and the path down to them.
Branches(e, t, p, base, n) == \A j \in 0 .. (n - 1) : e[base + j] = t \o Words(p, j)

\* Seeing the text and the nodes above it, a row reads the text and the path down to it.
LEMMA ReadsPath ==
    ASSUME NEW n \in Nat, NEW p, Ordered(p, n), NEW i \in 0 .. (n - 1),
           NEW t \in Seq(Nat), NEW L \in Nat, L = Len(t), NEW e, Begins(e, t, L), Branches(e, t, p, L, n)
    PROVE  Reads(e, (0 .. (L - 1)) \cup NodesAbove(p, L, i), t \o Words(p, p[i]), 1)
<1>1. PICK a : a = Ancestors(p, i)
  OBVIOUS
<1>2. Rising(a, n) /\ Climbs(p, n, i, a)
  <2>1. i \in DOMAIN p
    BY DEF Ordered
  <2> QED BY <1>1, <2>1, PathRises, PathClimbs
<1>3. PICK l \in Nat \ {0} : l = Len(a)
  BY <1>2 DEF Climbs
<1>4. /\ a \in Seq(0 .. (n - 1)) /\ DOMAIN a = 1 .. l /\ a[l] = i
      /\ \A k, m \in 1 .. l : k < m => a[k] < a[m]
  <2>1. a \in Seq(0 .. (n - 1)) /\ a[l] = i
    BY <1>2, <1>3 DEF Climbs
  <2>2. \A k, m \in DOMAIN a : k < m => a[k] < a[m]
    BY <1>2 DEF Rising
  <2>3. DOMAIN a = 1 .. l
    BY <1>3, <2>1
  <2> QED BY <2>1, <2>2, <2>3
<1>5. Spelled(p, i)
  BY Spelling
<1>6. PICK u, v : u = Words(p, i) /\ v = Words(p, p[i])
  OBVIOUS
<1>7. /\ u \in Seq(Nat) /\ v \in Seq(Nat) /\ Len(u) = l /\ Len(v) = l - 1
      /\ u = Append(v, NodeToken(p, i)) /\ \A k \in 1 .. l : Words(p, a[k]) = Opening(u, k)
  BY <1>1, <1>3, <1>4, <1>5, <1>6 DEF Spelled
<1>8. PICK ctx : ctx = t \o v
  OBVIOUS
<1>9. PICK N \in Nat : N = L + l - 1
  <2>1. L + l - 1 \in Nat
    OBVIOUS
  <2> QED BY <2>1
<1>10. /\ ctx \in Seq(Nat) /\ Len(ctx) = N
       /\ \A k \in 0 .. L : Opening(ctx, k) = Opening(t, k)
       /\ \A k \in 0 .. (l - 1) : Opening(ctx, L + k) = t \o Opening(v, k)
  <2>1. /\ t \o v \in Seq(Nat) /\ Len(t \o v) = Len(t) + Len(v)
        /\ \A k \in 0 .. Len(t) : Opening(t \o v, k) = Opening(t, k)
        /\ \A k \in 0 .. Len(v) : Opening(t \o v, Len(t) + k) = t \o Opening(v, k)
    BY ZenonT(30), <1>7, OpeningsJoined
  <2> QED BY <1>7, <1>8, <1>9, <2>1
<1>11. \A k \in 1 .. (l - 1) : Opening(u, k) = Opening(v, k)
  <2> SUFFICES ASSUME NEW k \in 1 .. (l - 1) PROVE Opening(u, k) = Opening(v, k)
    OBVIOUS
  <2>1. PICK w : w = << NodeToken(p, i) >>
    OBVIOUS
  <2>2. w \in Seq(Nat) /\ v \o w = Append(v, NodeToken(p, i))
    <3>1. NodeToken(p, i) \in Nat
      BY NodeTokenType
    <3> QED BY <1>7, <2>1, <3>1
  <2>3. k \in 0 .. Len(v)
    BY <1>7
  <2>4. \A j \in 0 .. Len(v) : Opening(v \o w, j) = Opening(v, j)
    BY ZenonT(30), <1>7, <2>2, OpeningsJoined
  <2> QED BY <1>7, <2>2, <2>3, <2>4
<1>12. PICK S : S = (0 .. (L - 1)) \cup NodesAbove(p, L, i)
  OBVIOUS
<1>13. PICK g : g = [k \in 1 .. N |-> IF k <= L THEN k - 1 ELSE L + a[k - L]]
  OBVIOUS
<1>14. ASSUME NEW k \in 1 .. N, k <= L
       PROVE  g[k] \in S /\ g[k] = k - 1 /\ e[g[k]] = Opening(ctx, k)
  <2>1. g[k] = k - 1 /\ k - 1 \in 0 .. (L - 1) /\ k \in 1 .. L /\ k \in 0 .. L
    BY <1>13, <1>14
  <2> QED BY <1>10, <1>12, <2>1 DEF Begins
<1>15. ASSUME NEW k \in 1 .. N, k > L
       PROVE  g[k] \in S /\ g[k] = L + a[k - L] /\ e[g[k]] = Opening(ctx, k)
  <2>1. PICK m \in 1 .. (l - 1) : k = L + m /\ m = k - L
    <3>1. k - L \in 1 .. (l - 1) /\ k = L + (k - L)
      BY <1>9, <1>15
    <3> QED BY <3>1
  <2>2. g[k] = L + a[m]
    <3>1. ~(k <= L)
      BY <1>15
    <3> QED BY <1>13, <2>1, <3>1
  <2>3. a[m] \in 0 .. (n - 1) /\ a[m] < a[l] /\ m \in DOMAIN a /\ m \in 1 .. l /\ m \in 0 .. (l - 1)
    BY <1>3, <1>4, <2>1
  <2>4. a[m] \in ToSet(a) /\ a[m] # i
    BY <1>4, <2>3 DEF ToSet
  <2>5. L + a[m] \in S
    BY <1>1, <1>12, <2>4 DEF NodesAbove
  <2>6. e[L + a[m]] = t \o Opening(u, m)
    BY <1>7, <2>3 DEF Branches
  <2> QED BY <1>10, <1>11, <2>1, <2>2, <2>3, <2>5, <2>6
<1>16. g \in [1 .. Len(ctx) -> S] /\ \A k \in 1 .. Len(ctx) : e[g[k]] = Opening(ctx, k)
  <2>1. \A k \in 1 .. N : g[k] \in S /\ e[g[k]] = Opening(ctx, k)
    BY <1>14, <1>15
  <2> QED BY <1>10, <1>13, <2>1
<1>17. ASSUME NEW q \in S PROVE \E k \in 1 .. N : g[k] = q
  <2>1. CASE q \in 0 .. (L - 1)
    <3>1. q + 1 \in 1 .. N /\ q + 1 <= L /\ (q + 1) - 1 = q
      BY <1>9, <2>1
    <3> QED BY <1>14, <3>1
  <2>2. CASE q \in NodesAbove(p, L, i)
    <3>1. PICK x \in ToSet(a) : x # i /\ q = L + x
      BY <1>1, <2>2 DEF NodesAbove
    <3>2. PICK m \in 1 .. l : a[m] = x
      BY <1>4, <3>1 DEF ToSet
    <3>3. m # l
      BY <1>4, <3>1, <3>2
    <3>4. L + m \in 1 .. N /\ L + m > L /\ (L + m) - L = m
      BY <1>9, <3>3
    <3> QED BY <1>15, <3>1, <3>2, <3>4
  <2> QED BY <1>12, <2>1, <2>2
<1>18. Reads(e, S, ctx, 1)
  <2>1. \A q \in S : \E k \in 1 .. Len(ctx) : g[k] = q
    BY <1>10, <1>17
  <2> QED BY <1>16, <2>1 DEF Reads
<1> QED BY <1>6, <1>8, <1>12, <1>18
=============================================================================
