--------------------------- MODULE Sampling_proofs ---------------------------
(***************************************************************************)
(* Theorems about Sampling, for every vocabulary, every weights, every     *)
(* tree and every acceptance rule: what is accepted and drawn has some     *)
(* probability, what is recorded is what the sampler does, and with drafts *)
(* drawn from the head nothing is lost.                                    *)
(***************************************************************************)
EXTENDS Sampling, Trees_proofs

----------------------------------------------------------------------------
(***************************************************************************)
(* Rows of weights.                                                        *)
(***************************************************************************)
Weights == [Token -> Nat]

\* The sums of a row, token by token.
LEMMA RowSums ==
    ASSUME NEW w \in Weights
    PROVE  /\ Upto(w, 0) = 0
           /\ \A k \in 0 .. Vocab : Upto(w, k) \in Nat
           /\ \A k \in 1 .. Vocab : Upto(w, k) = Upto(w, k - 1) + w[k]
           /\ Total(w) = Upto(w, Vocab) /\ Total(w) \in Nat
<1>1. Vocab \in Nat /\ w \in [1 .. Vocab -> Nat]
  BY SamplingAssumption DEF Weights, Token
<1>2. Total(w) = Upto(w, Vocab)
  BY DEF Total
<1>3. /\ Upto(w, 0) = 0
      /\ \A k \in 0 .. Vocab : Upto(w, k) \in Nat
      /\ \A k \in 1 .. Vocab : Upto(w, k) = Upto(w, k - 1) + w[k]
  BY <1>1, Sums
<1>4. Upto(w, Vocab) \in Nat
  BY <1>1, <1>3
<1> QED BY <1>2, <1>3, <1>4

\* A row below another has no more weight.
LEMMA TotalBelow ==
    ASSUME NEW w \in Weights, NEW v \in Weights, \A x \in Token : w[x] <= v[x]
    PROVE  Total(w) <= Total(v)
<1> DEFINE G0 == {k \in 0 .. Vocab : Upto(w, k) <= Upto(v, k)}
<1>0. Vocab \in Nat /\ Token = 1 .. Vocab
  BY SamplingAssumption DEF Token
<1>1. 0 \in G0
  BY <1>0, RowSums
<1>2. ASSUME NEW k \in 0 .. (Vocab - 1), k \in G0 PROVE k + 1 \in G0
  <2>1. k + 1 \in Token /\ k + 1 \in 0 .. Vocab /\ (k + 1) - 1 = k /\ k \in 0 .. Vocab
    BY <1>0
  <2>2. Upto(w, k + 1) = Upto(w, k) + w[k + 1] /\ Upto(v, k + 1) = Upto(v, k) + v[k + 1]
    BY <1>0, <2>1, RowSums
  <2>3. w[k + 1] <= v[k + 1] /\ w[k + 1] \in Nat /\ v[k + 1] \in Nat
    BY <2>1 DEF Weights
  <2>4. Upto(w, k) \in Nat /\ Upto(v, k) \in Nat /\ Upto(w, k) <= Upto(v, k)
    BY <2>1, <1>2, RowSums
  <2>5. Upto(w, k + 1) <= Upto(v, k + 1)
    BY <2>2, <2>3, <2>4
  <2> QED BY <2>1, <2>5
<1> HIDE DEF G0
<1>3. Vocab \in Nat /\ Vocab \in 0 .. Vocab
  BY <1>0
<1>3a. \A k \in 0 .. Vocab : k \in G0
  BY <1>1, <1>2, <1>3, Induct
<1>5. Vocab \in G0
  BY <1>3, <1>3a
<1> QED BY <1>0, <1>5, RowSums DEF G0

\* A row with one token's weight taken away.
LEMMA TotalWithout ==
    ASSUME NEW w \in Weights, NEW a \in Token, NEW v \in Weights, v[a] = 0,
           \A x \in Token \ {a} : v[x] = w[x]
    PROVE  Total(v) = Total(w) - w[a] /\ w[a] <= Total(w)
<1> DEFINE G0 == {k \in 0 .. Vocab : Upto(w, k) = Upto(v, k) + (IF a <= k THEN w[a] ELSE 0)}
<1>0. Vocab \in Nat /\ Token = 1 .. Vocab /\ w[a] \in Nat /\ a \in Nat
  BY SamplingAssumption DEF Token, Weights
<1>1. 0 \in G0
  BY <1>0, RowSums
<1>2. ASSUME NEW k \in 0 .. (Vocab - 1), k \in G0 PROVE k + 1 \in G0
  <2>1. k + 1 \in Token /\ k + 1 \in 0 .. Vocab /\ (k + 1) - 1 = k /\ k \in 0 .. Vocab
    BY <1>0
  <2>2. Upto(w, k + 1) = Upto(w, k) + w[k + 1] /\ Upto(v, k + 1) = Upto(v, k) + v[k + 1]
    BY <1>0, <2>1, RowSums
  <2>3. w[k + 1] \in Nat /\ v[k + 1] \in Nat
    BY <2>1 DEF Weights
  <2>4. Upto(w, k) \in Nat /\ Upto(v, k) \in Nat
        /\ Upto(w, k) = Upto(v, k) + (IF a <= k THEN w[a] ELSE 0)
    BY <2>1, <1>2, RowSums
  <2>5. CASE a = k + 1
    <3>1. Upto(w, k) = Upto(v, k) /\ v[k + 1] = 0
      BY <2>4, <2>5, <1>0
    <3>2. Upto(w, k + 1) = Upto(v, k + 1) + w[a]
      BY <3>1, <2>2, <2>3, <2>4, <2>5
    <3> QED BY <2>1, <3>2, <2>5
  <2>6. CASE a # k + 1
    <3>1. v[k + 1] = w[k + 1] /\ (a <= k + 1 <=> a <= k)
      BY <2>1, <2>6, <1>0
    <3>2. Upto(w, k + 1) = Upto(v, k + 1) + (IF a <= k + 1 THEN w[a] ELSE 0)
      BY <3>1, <2>2, <2>3, <2>4, <1>0
    <3> QED BY <2>1, <3>2
  <2> QED BY <2>5, <2>6
<1> HIDE DEF G0
<1>3. Vocab \in Nat /\ Vocab \in 0 .. Vocab
  BY <1>0
<1>3a. \A k \in 0 .. Vocab : k \in G0
  BY <1>1, <1>2, <1>3, Induct
<1>5. Vocab \in G0
  BY <1>3, <1>3a
<1>4. Total(w) = Total(v) + w[a] /\ Total(v) \in Nat
  BY <1>0, <1>5, RowSums DEF G0
<1> QED BY <1>4, <1>0

\* A row without weights.
LEMMA TotalNone ==
    ASSUME NEW w, w = [x \in Token |-> 0]
    PROVE  w \in Weights /\ Total(w) = 0
<1>0. w \in Weights
  BY DEF Weights
<1> DEFINE G0 == {k \in 0 .. Vocab : Upto(w, k) = 0}
<1>1. Vocab \in Nat /\ Token = 1 .. Vocab
  BY SamplingAssumption DEF Token
<1>2. 0 \in G0
  BY <1>0, <1>1, RowSums
<1>3. ASSUME NEW k \in 0 .. (Vocab - 1), k \in G0 PROVE k + 1 \in G0
  <2>1. k + 1 \in Token /\ k + 1 \in 0 .. Vocab /\ (k + 1) - 1 = k
    BY <1>1
  <2>2. Upto(w, k + 1) = Upto(w, k) + w[k + 1] /\ w[k + 1] = 0 /\ Upto(w, k) = 0
    BY <1>0, <1>1, <1>3, <2>1, RowSums
  <2> QED BY <2>1, <2>2
<1> HIDE DEF G0
<1>5. Vocab \in Nat /\ Vocab \in 0 .. Vocab
  BY <1>1
<1>6. \A k \in 0 .. Vocab : k \in G0
  BY <1>2, <1>3, <1>5, Induct
<1>4. Vocab \in G0
  BY <1>5, <1>6
<1> QED BY <1>0, <1>1, <1>4, RowSums DEF G0

\* A row with all its weight on one token.
LEMMA TotalOne ==
    ASSUME NEW a \in Token
    PROVE  /\ [NoMass EXCEPT ![a] = W] = [x \in Token |-> IF x = a THEN W ELSE 0]
           /\ [NoMass EXCEPT ![a] = W] \in Weights
           /\ Total([NoMass EXCEPT ![a] = W]) = W
<1> DEFINE w == [NoMass EXCEPT ![a] = W]
<1>1. w = [x \in Token |-> IF x = a THEN W ELSE 0] /\ W \in Nat
  BY SamplingAssumption DEF NoMass
<1>2. w \in Weights /\ w[a] = W
  <2> HIDE DEF w
  <2>1. \A x \in Token : w[x] \in Nat
    BY <1>1
  <2> QED BY <1>1, <2>1 DEF Weights
<1>3. NoMass \in Weights /\ Total(NoMass) = 0
  BY TotalNone DEF NoMass
<1>4. NoMass[a] = 0 /\ \A x \in Token \ {a} : NoMass[x] = w[x]
  BY <1>1 DEF NoMass
<1>5. Total(w) \in Nat /\ Total(NoMass) = Total(w) - w[a]
  <2> HIDE DEF w
  <2> QED BY <1>2, <1>3, <1>4, TotalWithout, RowSums
<1>6. Total(w) = W
  <2> HIDE DEF w
  <2> QED BY <1>1, <1>2, <1>3, <1>5
<1> QED BY <1>1, <1>2, <1>6

\* x comes first in the order of w.
Best(w, x) == x \in Token /\ \A y \in Token \ {x} : Above(w, x, y)

\* A row has a first token, its argmax.
LEMMA ArgmaxBest ==
    ASSUME NEW w \in Weights
    PROVE  Best(w, Argmax(w))
<1> DEFINE First(b, k) == \A y \in (1 .. k) \ {b} : Above(w, b, y)
           G0 == {k \in 0 .. (Vocab - 1) : \E b \in 1 .. (k + 1) : First(b, k + 1)}
<1>0. Vocab \in Nat /\ Vocab > 0 /\ Token = 1 .. Vocab
  BY SamplingAssumption DEF Token
<1>1. 0 \in G0
  <2>1. First(1, 1)
    OBVIOUS
  <2>2. 1 \in 1 .. (0 + 1) /\ 0 \in 0 .. (Vocab - 1) /\ 0 + 1 = 1
    BY <1>0
  <2> QED BY <2>1, <2>2
<1>2. ASSUME NEW k \in 0 .. ((Vocab - 1) - 1), k \in G0 PROVE k + 1 \in G0
  <2>1. PICK b \in 1 .. (k + 1) : First(b, k + 1)
    BY <1>2
  <2>2. k + 2 \in Token /\ b \in Token /\ b < k + 2 /\ k + 1 \in 0 .. (Vocab - 1) /\ (k + 1) + 1 = k + 2
    BY <1>0
  <2>3. w[b] \in Nat /\ w[k + 2] \in Nat /\ \A y \in 1 .. (k + 2) : y \in Token /\ w[y] \in Nat
    BY <1>0, <2>2 DEF Weights
  <2>4. CASE w[k + 2] > w[b]
    <3>1. ASSUME NEW y \in (1 .. (k + 2)) \ {k + 2} PROVE Above(w, k + 2, y)
      <4>1. y \in 1 .. (k + 1) /\ w[y] \in Nat
        BY <2>3
      <4>2. w[b] >= w[y]
        <5>1. CASE y = b
          BY <5>1, <2>3
        <5>2. CASE y # b
          <6>1. Above(w, b, y)
            BY <2>1, <4>1, <5>2
          <6> QED BY <6>1, <4>1, <2>3 DEF Above
        <5> QED BY <5>1, <5>2
      <4>3. w[k + 2] > w[y]
        BY <4>1, <4>2, <2>3, <2>4
      <4> QED BY <4>3 DEF Above
    <3>2. First(k + 2, k + 2)
      BY <3>1
    <3> QED BY <3>2, <2>2
  <2>5. CASE ~(w[k + 2] > w[b])
    <3>1. Above(w, b, k + 2)
      BY <2>2, <2>3, <2>5 DEF Above
    <3>2. ASSUME NEW y \in (1 .. (k + 2)) \ {b} PROVE Above(w, b, y)
      <4>1. y = k + 2 \/ y \in (1 .. (k + 1)) \ {b}
        OBVIOUS
      <4> QED BY <2>1, <3>1, <4>1
    <3>3. First(b, k + 2) /\ b \in 1 .. (k + 2)
      BY <3>2
    <3> QED BY <3>3, <2>2
  <2> QED BY <2>4, <2>5
<1> HIDE DEF G0
<1>3. Vocab - 1 \in Nat
  BY <1>0
<1>4. \A k \in 0 .. (Vocab - 1) : k \in G0
  BY <1>1, <1>2, <1>3, Induct
<1>5. \E b \in Token : First(b, Vocab)
  <2>1. Vocab - 1 \in G0 /\ (Vocab - 1) + 1 = Vocab
    BY <1>0, <1>4
  <2> QED BY <2>1, <1>0 DEF G0
<1>6. \E b \in Token : \A y \in Token \ {b} : Above(w, b, y)
  BY <1>0, <1>5
<1> QED BY <1>6 DEF Best, Argmax

\* Processing a row: it keeps what it keeps as it was, and the first token.
LEMMA ProcessedIs ==
    ASSUME NEW w \in Softmax, NEW pa \in Params
    PROVE  /\ Processed(pa, w) \in Weights
           /\ \A x \in Token : Processed(pa, w)[x] <= w[x]
           /\ Total(Processed(pa, w)) \in 1 .. W
<1> DEFINE before(x) == {y \in Token : Above(w, y, x)}
           mass(S) == Total([y \in Token |-> IF y \in S THEN w[y] ELSE 0])
           keep == {x \in Token : /\ mass(before(x)) <= pa.top_p
                                  /\ pa.top_k > 0 => Cardinality(before(x)) < pa.top_k}
<1>0. PICK f : f = Processed(pa, w)
  OBVIOUS
<1>1. f = [x \in Token |-> IF x \in keep THEN w[x] ELSE 0]
  BY <1>0 DEF Processed
<1>2. w \in Weights /\ Total(w) = W /\ W \in Nat /\ W > 0
  BY SamplingAssumption DEF Softmax, Weights
<1>3. f \in Weights /\ \A x \in Token : f[x] <= w[x]
  <2> HIDE DEF keep
  <2>1. ASSUME NEW x \in Token PROVE f[x] \in Nat /\ f[x] <= w[x]
    <3>1. w[x] \in Nat
      BY <1>2 DEF Weights
    <3> QED BY <1>1, <3>1
  <2> QED BY <1>1, <2>1 DEF Weights
<1>4. PICK a : a = Argmax(w)
  OBVIOUS
<1>5. Best(w, a)
  BY <1>2, <1>4, ArgmaxBest
<1>6. before(a) = {}
  <2>1. \A x \in Token : w[x] \in Nat /\ x \in Nat
    BY <1>2 DEF Weights, Token
  <2>2. ASSUME NEW y \in Token, Above(w, y, a) PROVE FALSE
    <3>1. a \in Token /\ (y # a => Above(w, a, y))
      BY <1>5 DEF Best
    <3> QED BY <3>1, <2>1, <2>2 DEF Above
  <2> QED BY <2>2
<1>7. mass({}) = 0
  BY TotalNone
<1>8. a \in keep
  <2>1. Cardinality({}) = 0
    BY FS_EmptySet
  <2>2. pa.top_p \in Nat /\ pa.top_k \in Nat
    BY SamplingAssumption
  <2>3. a \in Token
    BY <1>5 DEF Best
  <2> QED BY <2>1, <2>2, <2>3, <1>6, <1>7
<1>9. a \in Token /\ f[a] = w[a] /\ w[a] \in Nat
  <2> HIDE DEF keep
  <2> QED BY <1>8, <1>5, <1>1, <1>2 DEF Best, Weights
<1>10. w[a] > 0
  <2> SUFFICES ASSUME w[a] = 0 PROVE FALSE
    BY <1>9
  <2>1. ASSUME NEW x \in Token PROVE w[x] = 0
    <3>1. w[x] \in Nat /\ (x # a => Above(w, a, x))
      BY <1>5, <1>2 DEF Best, Weights
    <3> QED BY <3>1 DEF Above
  <2>2. w = [x \in Token |-> 0]
    BY <2>1, <1>2 DEF Weights
  <2> QED BY <2>2, <1>2, TotalNone
<1>11. Total(f) <= Total(w) /\ Total(f) \in Nat
  BY <1>2, <1>3, TotalBelow, RowSums
<1>12. f[a] <= Total(f)
  <2>1. PICK g : g = [x \in Token |-> IF x = a THEN 0 ELSE f[x]]
    OBVIOUS
  <2>2. g \in Weights
    BY <2>1, <1>3 DEF Weights
  <2>3. g[a] = 0 /\ \A x \in Token \ {a} : g[x] = f[x]
    BY <2>1, <1>9
  <2> QED BY <2>2, <2>3, <1>3, <1>9, TotalWithout
<1>13. Total(f) \in 1 .. W
  BY <1>2, <1>9, <1>10, <1>11, <1>12
<1> QED BY <1>0, <1>3, <1>13

----------------------------------------------------------------------------
(***************************************************************************)
(* The drafts below a node.                                                *)
(***************************************************************************)
\* s is the nodes below i among the first k, in order, each once.
Lists(s, p, i, k) ==
    /\ s \in Seq(Nat)
    /\ \A j \in 1 .. Len(s) : s[j] \in 0 .. (k - 1) /\ p[s[j]] = i
    /\ \A c \in 0 .. (k - 1) : p[c] = i => \E j \in 1 .. Len(s) : s[j] = c
    /\ \A j, l \in 1 .. Len(s) : j < l => s[j] < s[l]

\* children() lists the nodes below a node.
LEMMA ChildrenListed ==
    ASSUME NEW n \in Nat, NEW p, DOMAIN p = 0 .. (n - 1), NEW i
    PROVE  Lists(Children(p, i), p, i, n)
<1> DEFINE step == [k \in 1 .. n |-> [s \in Seq(Nat) |->
                        IF p[k - 1] = i THEN Append(s, k - 1) ELSE s]]
           Good(h) == h = [k \in 0 .. n |->
                        IF k = 0 THEN << >>
                        ELSE IF p[k - 1] = i THEN Append(h[k - 1], k - 1) ELSE h[k - 1]]
<1>1. Cardinality(DOMAIN p) = n
  BY FS_Interval
<1>2. step \in [1 .. n -> [Seq(Nat) -> Seq(Nat)]]
  OBVIOUS
<1>3. PICK f \in [0 .. n -> Seq(Nat)] : Iterates(f, n, << >>, step)
  <2> HIDE DEF step
  <2>1. << >> \in Seq(Nat)
    OBVIOUS
  <2> QED BY <1>2, <2>1, Recursion
<1>4. Good(f)
  <2>1. ASSUME NEW k \in 0 .. n
        PROVE  f[k] = IF k = 0 THEN << >>
                      ELSE IF p[k - 1] = i THEN Append(f[k - 1], k - 1) ELSE f[k - 1]
    <3>1. f[k] = IF k = 0 THEN << >> ELSE step[k][f[k - 1]]
      BY <1>3 DEF Iterates
    <3>2. k # 0 => k \in 1 .. n /\ k - 1 \in 0 .. n
      OBVIOUS
    <3>3. k # 0 => step[k][f[k - 1]] = IF p[k - 1] = i THEN Append(f[k - 1], k - 1) ELSE f[k - 1]
      BY <1>3, <3>2
    <3> QED BY <3>1, <3>3
  <2>2. f = [k \in 0 .. n |-> f[k]]
    BY <1>3
  <2> HIDE DEF step
  <2> QED BY <2>1, <2>2
<1>5. \E h : Good(h)
  <2> HIDE DEF Good
  <2> QED BY <1>4
<1>6. PICK g : g = (CHOOSE h : Good(h))
  OBVIOUS
<1>7. Good(g)
  <2> HIDE DEF Good
  <2> QED BY <1>5, <1>6
<1>8. Children(p, i) = g[n]
  BY <1>1, <1>6 DEF Children
<1>9. g[0] = << >> /\ \A k \in 1 .. n :
          g[k] = IF p[k - 1] = i THEN Append(g[k - 1], k - 1) ELSE g[k - 1]
  <2>1. DOMAIN g = 0 .. n /\ \A k \in 0 .. n : g[k] = IF k = 0 THEN << >>
                   ELSE IF p[k - 1] = i THEN Append(g[k - 1], k - 1) ELSE g[k - 1]
    BY <1>7
  <2>2. g[0] = << >>
    BY <2>1
  <2>3. ASSUME NEW k \in 1 .. n
        PROVE  g[k] = IF p[k - 1] = i THEN Append(g[k - 1], k - 1) ELSE g[k - 1]
    <3>1. k \in 0 .. n /\ k # 0
      OBVIOUS
    <3> QED BY <3>1, <2>1
  <2> QED BY <2>2, <2>3
<1> HIDE DEF Good
<1> DEFINE G0 == {k \in 0 .. n : Lists(g[k], p, i, k)}
<1>10. 0 \in G0
  <2>1. Lists(<< >>, p, i, 0)
    BY DEF Lists
  <2> QED BY <2>1, <1>9
<1>11. ASSUME NEW k \in 0 .. (n - 1), k \in G0 PROVE k + 1 \in G0
  <2>1. PICK s : s = g[k]
    OBVIOUS
  <2>2. Lists(s, p, i, k) /\ s \in Seq(Nat)
    BY <1>11, <2>1 DEF Lists
  <2>3. g[k + 1] = IF p[k] = i THEN Append(s, k) ELSE s
    <3>1. k + 1 \in 1 .. n /\ (k + 1) - 1 = k
      OBVIOUS
    <3> QED BY <3>1, <2>1, <1>9
  <2>4. CASE p[k] = i
    <3>1. PICK t : t = Append(s, k)
      OBVIOUS
    <3>2. PICK m \in Nat : m = Len(s)
      BY <2>2
    <3>3. t \in Seq(Nat) /\ Len(t) = m + 1 /\ t[m + 1] = k /\ \A j \in 1 .. m : t[j] = s[j]
      BY <2>2, <3>1, <3>2
    <3>4. \A j \in 1 .. m : s[j] \in 0 .. (k - 1) /\ p[s[j]] = i
      BY <2>2, <3>2 DEF Lists
    <3>5. ASSUME NEW j \in 1 .. (m + 1) PROVE t[j] \in 0 .. ((k + 1) - 1) /\ p[t[j]] = i
      <4>1. CASE j = m + 1
        BY <4>1, <3>3, <2>4
      <4>2. CASE j # m + 1
        <5>1. j \in 1 .. m
          BY <4>2
        <5>2. t[j] = s[j] /\ s[j] \in 0 .. (k - 1) /\ p[s[j]] = i
          BY <5>1, <3>3, <3>4
        <5> QED BY <5>2
      <4> QED BY <4>1, <4>2
    <3>6. ASSUME NEW c \in 0 .. ((k + 1) - 1), p[c] = i PROVE \E j \in 1 .. (m + 1) : t[j] = c
      <4>1. CASE c = k
        <5>1. m + 1 \in 1 .. (m + 1)
          OBVIOUS
        <5> QED BY <4>1, <5>1, <3>3
      <4>2. CASE c # k
        <5>1. c \in 0 .. (k - 1)
          BY <4>2
        <5>2. PICK j \in 1 .. m : s[j] = c
          BY <5>1, <3>2, <3>6, <2>2 DEF Lists
        <5>3. j \in 1 .. (m + 1)
          OBVIOUS
        <5> QED BY <5>2, <5>3, <3>3
      <4> QED BY <4>1, <4>2
    <3>7. ASSUME NEW j \in 1 .. (m + 1), NEW l \in 1 .. (m + 1), j < l PROVE t[j] < t[l]
      <4>1. j \in 1 .. m
        BY <3>7
      <4>2. t[j] = s[j] /\ s[j] \in 0 .. (k - 1)
        BY <4>1, <3>3, <3>4
      <4>3. CASE l = m + 1
        BY <4>2, <4>3, <3>3
      <4>4. CASE l # m + 1
        <5>1. l \in 1 .. m
          BY <4>4
        <5>2. s[j] < s[l]
          BY <5>1, <4>1, <3>2, <3>7, <2>2 DEF Lists
        <5> QED BY <5>1, <5>2, <4>2, <3>3
      <4> QED BY <4>3, <4>4
    <3>8. Lists(t, p, i, k + 1)
      BY <3>3, <3>5, <3>6, <3>7 DEF Lists
    <3>9. g[k + 1] = t /\ k + 1 \in 0 .. n
      BY <3>1, <2>3, <2>4
    <3> QED BY <3>8, <3>9
  <2>5. CASE p[k] # i
    <3>1. \A j \in 1 .. Len(s) : s[j] \in 0 .. ((k + 1) - 1) /\ p[s[j]] = i
      BY <2>2 DEF Lists
    <3>2. ASSUME NEW c \in 0 .. ((k + 1) - 1), p[c] = i PROVE \E j \in 1 .. Len(s) : s[j] = c
      <4>1. c \in 0 .. (k - 1)
        BY <2>5, <3>2
      <4> QED BY <4>1, <3>2, <2>2 DEF Lists
    <3>3. Lists(s, p, i, k + 1)
      BY <3>1, <3>2, <2>2 DEF Lists
    <3> QED BY <3>3, <2>3, <2>5
  <2> QED BY <2>4, <2>5
<1> HIDE DEF G0
<1>12. n \in 0 .. n
  OBVIOUS
<1>13. \A k \in 0 .. n : k \in G0
  BY <1>10, <1>11, Induct
<1>14. n \in G0
  BY <1>12, <1>13
<1> QED BY <1>8, <1>14 DEF G0

----------------------------------------------------------------------------
(***************************************************************************)
(* The tree.                                                               *)
(***************************************************************************)
Row == {w \in Weights : Total(w) \in 1 .. W}

\* Siblings carry different tokens.
Drafted(tok, n) ==
    /\ tok \in [0 .. (n - 1) -> Token]
    /\ \A c, d \in 0 .. (n - 1) : parents[c] = parents[d] /\ tok[c] = tok[d] => c = d

\* A tree of n drafts.
GrownTo(n) ==
    /\ params \in Params
    /\ Ordered(parents, n)
    /\ Drafted(tokens, n)
    /\ lp \in [Root .. (n - 1) -> Row]
    /\ DOMAIN draft_q = 0 .. (n - 1)
    /\ \A c \in 0 .. (n - 1) :
           IF params.sample
           THEN draft_q[c] \in Softmax /\ draft_q[c][tokens[c]] > 0 /\ parents[c] = c - 1
           ELSE draft_q[c] = Point
    /\ power \in [0 .. (n - 1) -> 1 .. G]

Grown == \E n \in Nat : GrownTo(n)

\* The rows of a tree are rows with weight.
LEMMA RowIs ==
    ASSUME NEW n \in Nat, GrownTo(n), NEW i \in Root .. (n - 1)
    PROVE  P(i) \in Row /\ P(i) \in Weights /\ Total(P(i)) \in 1 .. W
<1>1. lp[i] \in Row
  BY DEF GrownTo
<1>2. CASE params.greedy
  <2>1. Argmax(lp[i]) \in Token
    BY <1>1, ArgmaxBest DEF Best, Row
  <2>2. P(i) = [NoMass EXCEPT ![Argmax(lp[i])] = W]
    BY <1>2 DEF P
  <2>3. P(i) \in Weights /\ Total(P(i)) = W
    BY <2>1, <2>2, TotalOne
  <2> QED BY <2>3, SamplingAssumption DEF Row
<1>3. CASE ~params.greedy
  BY <1>1, <1>3 DEF P, Row
<1> QED BY <1>2, <1>3

\* The drafts below node i.
Kids(i) == Children(parents, i)

\* m drafts are below node i, in order.
HasKids(n, i, m) ==
    /\ Kids(i) \in Seq(Nat) /\ Len(Kids(i)) = m
    /\ \A k \in 1 .. m : Kids(i)[k] \in 0 .. (n - 1) /\ parents[Kids(i)[k]] = i /\ i < Kids(i)[k]
    /\ \A c \in 0 .. (n - 1) : parents[c] = i => \E k \in 1 .. m : Kids(i)[k] = c
    /\ \A k, l \in 1 .. m : k # l => Kids(i)[k] # Kids(i)[l]

\* The children of a node of a tree are listed by some number of them.
LEMMA KidsAre ==
    ASSUME NEW n \in Nat, GrownTo(n), NEW i \in Root .. (n - 1)
    PROVE  \E m \in Nat : HasKids(n, i, m)
<1>1. parents \in [0 .. (n - 1) -> Root .. (n - 1)] /\ \A c \in 0 .. (n - 1) : parents[c] < c
  BY DEF GrownTo, Ordered
<1>2. PICK s : s = Kids(i)
  OBVIOUS
<1>3. Lists(s, parents, i, n)
  BY <1>1, <1>2, ChildrenListed DEF Kids
<1>4. PICK m \in Nat : m = Len(s)
  BY <1>3 DEF Lists
<1>5. \A k \in 1 .. m : s[k] \in 0 .. (n - 1) /\ parents[s[k]] = i /\ i < s[k]
  BY <1>1, <1>3, <1>4 DEF Lists
<1>6. ASSUME NEW k \in 1 .. m, NEW l \in 1 .. m, k # l PROVE s[k] # s[l]
  <2>1. s[k] \in Int /\ s[l] \in Int
    BY <1>5
  <2>2. k < l \/ l < k
    BY <1>6
  <2>3. s[k] < s[l] \/ s[l] < s[k]
    BY <2>2, <1>3, <1>4 DEF Lists
  <2> QED BY <2>1, <2>3
<1>7. \A c \in 0 .. (n - 1) : parents[c] = i => \E k \in 1 .. m : s[k] = c
  BY <1>3, <1>4 DEF Lists
<1>8. s \in Seq(Nat)
  BY <1>3 DEF Lists
<1>9. HasKids(n, i, m)
  BY <1>2, <1>4, <1>5, <1>6, <1>7, <1>8 DEF HasKids
<1> QED BY <1>9

\* What row i leaves to its other tokens once k drafts are rejected.
LeftAfter(tok, i, k) == [x \in Token |-> IF \E j \in 1 .. k : tok[Kids(i)[j]] = x THEN 0 ELSE P(i)[x]]
Rest(tok, i, k) == Total(LeftAfter(tok, i, k))

\* Nothing is rejected yet.
LEMMA RestWhole ==
    ASSUME NEW n \in Nat, GrownTo(n), NEW i \in Root .. (n - 1), NEW tok
    PROVE  LeftAfter(tok, i, 0) = P(i) /\ Rest(tok, i, 0) = Total(P(i))
<1>1. P(i) \in [Token -> Nat]
  BY RowIs DEF Weights
<1>2. LeftAfter(tok, i, 0) = P(i)
  BY <1>1 DEF LeftAfter
<1> QED BY <1>2 DEF Rest

\* What is left after k drafts.
LEMMA RestIs ==
    ASSUME NEW n \in Nat, GrownTo(n), NEW i \in Root .. (n - 1), NEW tok, NEW k
    PROVE  /\ LeftAfter(tok, i, k) \in Weights
           /\ Rest(tok, i, k) \in 0 .. W /\ Rest(tok, i, k) <= Total(P(i))
<1>1. P(i) \in Weights /\ Total(P(i)) \in 1 .. W
  BY RowIs
<1>2. PICK f : f = LeftAfter(tok, i, k)
  OBVIOUS
<1>3. \A x \in Token : f[x] \in Nat /\ f[x] <= P(i)[x]
  <2>1. \A x \in Token : P(i)[x] \in Nat
    BY <1>1 DEF Weights
  <2> QED BY <2>1, <1>2 DEF LeftAfter
<1>4. f \in Weights
  BY <1>2, <1>3 DEF LeftAfter, Weights
<1>5. Total(f) <= Total(P(i)) /\ Total(f) \in Nat
  BY <1>1, <1>3, <1>4, TotalBelow, RowSums
<1>6. Total(f) \in 0 .. W /\ Total(f) <= Total(P(i))
  BY <1>1, <1>5, SamplingAssumption
<1> QED BY <1>2, <1>4, <1>6 DEF Rest

\* A rejected draft takes its own weight away, which was still there.
Falls(tok, i, k) ==
    LET p == Pn(tok, Kids(i)[k]) IN
    /\ p \in Nat /\ p <= Rest(tok, i, k - 1)
    /\ Rest(tok, i, k) = Rest(tok, i, k - 1) - p
LEMMA RestFalls ==
    ASSUME NEW n \in Nat, GrownTo(n), NEW i \in Root .. (n - 1), NEW m \in Nat, HasKids(n, i, m),
           NEW tok, Drafted(tok, n), NEW k \in 1 .. m
    PROVE  Falls(tok, i, k)
<1>1. PICK c : c = Kids(i)[k]
  OBVIOUS
<1>2. c \in 0 .. (n - 1) /\ parents[c] = i
  BY <1>1 DEF HasKids
<1>3. PICK a \in Token : a = tok[c]
  BY <1>2 DEF Drafted
<1>4. \A j \in 1 .. m : j # k => tok[Kids(i)[j]] # a
  <2> SUFFICES ASSUME NEW j \in 1 .. m, j # k PROVE tok[Kids(i)[j]] # a
    OBVIOUS
  <2>1. Kids(i)[j] \in 0 .. (n - 1) /\ parents[Kids(i)[j]] = i /\ Kids(i)[j] # c
    BY <1>1 DEF HasKids
  <2> QED BY <2>1, <1>2, <1>3 DEF Drafted
<1>5. PICK f : f = LeftAfter(tok, i, k - 1)
  OBVIOUS
<1>6. PICK g : g = LeftAfter(tok, i, k)
  OBVIOUS
<1>7. f \in Weights /\ g \in Weights
  BY <1>5, <1>6, RestIs
<1>8. f[a] = P(i)[a] /\ P(i)[a] \in Nat
  <2>1. ~\E j \in 1 .. (k - 1) : tok[Kids(i)[j]] = a
    <3> SUFFICES ASSUME NEW j \in 1 .. (k - 1) PROVE tok[Kids(i)[j]] # a
      OBVIOUS
    <3>1. j \in 1 .. m /\ j # k
      OBVIOUS
    <3> QED BY <3>1, <1>4
  <2>2. f[a] = P(i)[a]
    BY <2>1, <1>5 DEF LeftAfter
  <2> QED BY <2>2, <1>7 DEF Weights
<1>9. g[a] = 0
  <2>1. k \in 1 .. k
    OBVIOUS
  <2>2. \E j \in 1 .. k : tok[Kids(i)[j]] = a
    BY <2>1, <1>1, <1>3
  <2> QED BY <2>2, <1>6 DEF LeftAfter
<1>10. ASSUME NEW x \in Token \ {a} PROVE g[x] = f[x]
  <2>1. (\E j \in 1 .. k : tok[Kids(i)[j]] = x) <=> (\E j \in 1 .. (k - 1) : tok[Kids(i)[j]] = x)
    <3>1. ASSUME NEW j \in 1 .. k, tok[Kids(i)[j]] = x PROVE \E l \in 1 .. (k - 1) : tok[Kids(i)[l]] = x
      <4>1. j # k
        BY <1>1, <1>3, <3>1
      <4>2. j \in 1 .. (k - 1)
        BY <4>1
      <4> QED BY <4>2, <3>1
    <3>2. ASSUME NEW j \in 1 .. (k - 1), tok[Kids(i)[j]] = x PROVE \E l \in 1 .. k : tok[Kids(i)[l]] = x
      <4>1. j \in 1 .. k
        OBVIOUS
      <4> QED BY <4>1, <3>2
    <3> QED BY <3>1, <3>2
  <2> QED BY <2>1, <1>5, <1>6 DEF LeftAfter
<1>11. Total(g) = Total(f) - f[a] /\ f[a] <= Total(f)
  BY <1>7, <1>9, <1>10, TotalWithout
<1>12. Pn(tok, c) = P(i)[a]
  BY <1>2, <1>3 DEF Pn
<1>13. Rest(tok, i, k - 1) = Total(f) /\ Rest(tok, i, k) = Total(g)
  BY <1>5, <1>6 DEF Rest
<1> QED BY <1>1, <1>8, <1>11, <1>12, <1>13 DEF Falls

----------------------------------------------------------------------------
(***************************************************************************)
(* The tests at a row.                                                     *)
(***************************************************************************)
Fraction == Nat \X (Nat \ {0})

\* The test of draft c.
LEMMA AcceptType ==
    ASSUME NEW n \in Nat, GrownTo(n), NEW tok \in [0 .. (n - 1) -> Token], NEW c \in 0 .. (n - 1),
           NEW rest \in Nat
    PROVE  /\ Pn(tok, c) \in Nat
           /\ Accept(tok, c, rest) \in Fraction
<1>1. W \in Nat \ {0} /\ G \in Nat \ {0} /\ params.rule \in {"exact", "power", "relaxed"}
  BY SamplingAssumption DEF GrownTo
<1>2. parents[c] \in Root .. (n - 1) /\ tok[c] \in Token
  BY DEF GrownTo, Ordered
<1>3. Pn(tok, c) \in Nat
  BY <1>2, RowIs DEF Pn, Weights
<1>4. PICK q \in Nat : q = IF draft_q[c] = Point THEN W ELSE draft_q[c][tok[c]]
  <2>1. draft_q[c] = Point \/ draft_q[c] \in [Token -> 0 .. W]
    BY DEF GrownTo, Softmax
  <2> QED BY <2>1, <1>1, <1>2
<1>5. Ratio(tok, c, rest) \in Fraction
  <2>1. PICK p \in Nat : p = Pn(tok, c)
    BY <1>3
  <2>2. Ratio(tok, c, rest) = IF q * rest = 0 THEN (IF p > 0 THEN One ELSE Zero)
                              ELSE IF p * W >= q * rest THEN One ELSE <<p * W, q * rest>>
    BY <2>1, <1>4 DEF Ratio
  <2>3. q * rest \in Nat /\ p * W \in Nat
    BY <1>1
  <2>4. One \in Fraction /\ Zero \in Fraction
    BY DEF One, Zero, Fraction
  <2>5. q * rest # 0 => <<p * W, q * rest>> \in Fraction
    BY <2>3 DEF Fraction
  <2> QED BY <2>2, <2>4, <2>5
<1>6. <<power[c], G>> \in Fraction
  BY <1>1 DEF Fraction, GrownTo
<1>7. One \in Fraction /\ Zero \in Fraction
  BY DEF One, Zero, Fraction
<1>8. PICK a \in Fraction : a = Ratio(tok, c, rest)
  BY <1>5
<1>9. Accept(tok, c, rest) \in {a, <<power[c], G>>, One, Zero}
  BY <1>1, <1>8 DEF Accept
<1> QED BY <1>3, <1>6, <1>7, <1>8, <1>9

\* The test of the k-th draft below i, those before it rejected.
Acc(tok, i, k) == Accept(tok, Kids(i)[k], Rest(tok, i, k - 1))
Passes(tok, u, i, k) == u[Kids(i)[k]] * Acc(tok, i, k)[2] < Acc(tok, i, k)[1] * G
Fails(tok, u, i, k) == \A j \in 1 .. k : ~Passes(tok, u, i, j)

TestState(n) == [rest : Nat, nxt : Root .. (n - 1), acc : Seq(Fraction)]

\* One test.
LEMMA SiblingType ==
    ASSUME NEW n \in Nat, GrownTo(n), NEW tok \in [0 .. (n - 1) -> Token], NEW c \in 0 .. (n - 1),
           NEW u, NEW s \in TestState(n)
    PROVE  /\ Sibling(tok, u, s, c) \in TestState(n)
           /\ s.nxt # Root => Sibling(tok, u, s, c) = s
           /\ s.nxt = Root =>
                  LET a == Accept(tok, c, s.rest)
                      r == Sibling(tok, u, s, c)
                  IN  /\ r.acc = Append(s.acc, a)
                      /\ u[c] * a[2] < a[1] * G => r.nxt = c
                      /\ ~(u[c] * a[2] < a[1] * G) => r.nxt = Root /\ r.rest = Max0(s.rest - Pn(tok, c))
<1>1. s.rest \in Nat /\ s.nxt \in Root .. (n - 1) /\ s.acc \in Seq(Fraction)
  BY DEF TestState
<1>2. PICK a \in Fraction : a = Accept(tok, c, s.rest)
  BY <1>1, AcceptType
<1>3. PICK p \in Nat : p = Pn(tok, c)
  BY <1>1, AcceptType
<1>4. Max0(s.rest - p) \in Nat
  BY <1>1 DEF Max0
<1>5. Append(s.acc, a) \in Seq(Fraction)
  BY <1>1
<1>6. s = [rest |-> s.rest, nxt |-> s.nxt, acc |-> s.acc]
  BY DEF TestState
<1>7. c \in Root .. (n - 1)
  BY DEF Root
<1>8. CASE s.nxt # Root
  BY <1>8 DEF Sibling, Decided
<1>9. CASE s.nxt = Root
  <2>1. Sibling(tok, u, s, c) =
            IF u[c] * a[2] < a[1] * G THEN [s EXCEPT !.nxt = c, !.acc = Append(@, a)]
            ELSE [s EXCEPT !.rest = Max0(@ - p), !.acc = Append(@, a)]
    BY <1>9, <1>2, <1>3 DEF Sibling, Decided
  <2>2. PICK r : r = Sibling(tok, u, s, c)
    OBVIOUS
  <2>4. CASE u[c] * a[2] < a[1] * G
    <3>1. r = [s EXCEPT !.nxt = c, !.acc = Append(@, a)]
      BY <2>1, <2>2, <2>4
    <3>2. r \in TestState(n) /\ r.nxt = c /\ r.acc = Append(s.acc, a)
      BY <3>1, <1>1, <1>5, <1>7 DEF TestState
    <3> QED BY <3>2, <1>2, <1>9, <2>2, <2>4
  <2>5. CASE ~(u[c] * a[2] < a[1] * G)
    <3>1. r = [s EXCEPT !.rest = Max0(@ - p), !.acc = Append(@, a)]
      BY <2>1, <2>2, <2>5
    <3>2. r \in TestState(n) /\ r.rest = Max0(s.rest - p) /\ r.nxt = s.nxt /\ r.acc = Append(s.acc, a)
      BY <3>1, <1>1, <1>4, <1>5 DEF TestState
    <3> QED BY <3>2, <1>2, <1>3, <1>9, <2>2, <2>5
  <2> QED BY <2>4, <2>5
<1> QED BY <1>8, <1>9

\* s is what k tests at row i leave.
After(s, tok, u, i, k) ==
    /\ s.acc \in Seq(Fraction) /\ Len(s.acc) \in 0 .. k
    /\ \A j \in 1 .. Len(s.acc) : s.acc[j] = Acc(tok, i, j)
    /\ Fails(tok, u, i, k) => s.nxt = Root /\ Len(s.acc) = k /\ s.rest = Rest(tok, i, k)
    /\ \A l \in 1 .. k : Fails(tok, u, i, l - 1) /\ Passes(tok, u, i, l) =>
                             s.nxt = Kids(i)[l] /\ Len(s.acc) = l

\* The first of the tests that passes, if any does.
LEMMA FirstPass ==
    ASSUME NEW tok, NEW u, NEW i, NEW k \in Nat
    PROVE  Fails(tok, u, i, k) \/ \E l \in 1 .. k : Fails(tok, u, i, l - 1) /\ Passes(tok, u, i, l)
<1> DEFINE T == {j \in 1 .. k : Passes(tok, u, i, j)}
<1>1. CASE T = {}
  BY <1>1 DEF Fails
<1>2. CASE T # {}
  <2>1. T \subseteq Nat
    OBVIOUS
  <2>2. PICK l \in T : \A j \in T : l <= j
    BY <1>2, <2>1, NatLeast
  <2>3. ASSUME NEW j \in 1 .. (l - 1) PROVE ~Passes(tok, u, i, j)
    <3>1. j \in 1 .. k /\ ~(l <= j)
      BY <2>2
    <3>2. j \notin T
      BY <2>2, <3>1
    <3> QED BY <3>1, <3>2
  <2> QED BY <2>2, <2>3 DEF Fails
<1> QED BY <1>1, <1>2

\* One test more.
LEMMA AfterNext ==
    ASSUME NEW n \in Nat, GrownTo(n), NEW i \in Root .. (n - 1), NEW m \in Nat, HasKids(n, i, m),
           NEW tok, Drafted(tok, n), NEW u, NEW k \in 1 .. m,
           NEW s \in TestState(n), After(s, tok, u, i, k - 1)
    PROVE  /\ Sibling(tok, u, s, Kids(i)[k]) \in TestState(n)
           /\ After(Sibling(tok, u, s, Kids(i)[k]), tok, u, i, k)
<1>1. PICK c : c = Kids(i)[k]
  OBVIOUS
<1>2. c \in 0 .. (n - 1) /\ parents[c] = i
  BY <1>1 DEF HasKids
<1>3. PICK r : r = Sibling(tok, u, s, c)
  OBVIOUS
<1>4. tok \in [0 .. (n - 1) -> Token]
  BY DEF Drafted
<1>5. r \in TestState(n)
  BY <1>2, <1>3, <1>4, SiblingType
<1>6. s.acc \in Seq(Fraction) /\ Len(s.acc) \in 0 .. (k - 1)
      /\ \A j \in 1 .. Len(s.acc) : s.acc[j] = Acc(tok, i, j)
  BY DEF After
<1>7. CASE Fails(tok, u, i, k - 1)
  <2>1. s.nxt = Root /\ Len(s.acc) = k - 1 /\ s.rest = Rest(tok, i, k - 1)
    BY <1>7 DEF After
  <2>2. PICK a : a = Acc(tok, i, k)
    OBVIOUS
  <2>3. a = Accept(tok, c, s.rest)
    BY <1>1, <2>1, <2>2 DEF Acc
  <2>4. a \in Fraction
    <3>1. s.rest \in Nat
      BY DEF TestState
    <3> QED BY <3>1, <2>3, <1>2, <1>4, AcceptType
  <2>5. /\ r.acc = Append(s.acc, a)
        /\ u[c] * a[2] < a[1] * G => r.nxt = c
        /\ ~(u[c] * a[2] < a[1] * G) => r.nxt = Root /\ r.rest = Max0(s.rest - Pn(tok, c))
    <3>1. s.nxt = Root
      BY <2>1
    <3>2. LET b == Accept(tok, c, s.rest)
              h == Sibling(tok, u, s, c)
          IN  /\ h.acc = Append(s.acc, b)
              /\ u[c] * b[2] < b[1] * G => h.nxt = c
              /\ ~(u[c] * b[2] < b[1] * G) => h.nxt = Root /\ h.rest = Max0(s.rest - Pn(tok, c))
      BY <3>1, <1>2, <1>4, SiblingType
    <3> QED BY <3>2, <2>3, <1>3
  <2>6. Passes(tok, u, i, k) <=> u[c] * a[2] < a[1] * G
    BY <1>1, <2>2 DEF Passes
  <2>7. /\ r.acc \in Seq(Fraction) /\ Len(r.acc) = k
        /\ \A j \in 1 .. k : r.acc[j] = Acc(tok, i, j)
    <3>1. PICK z \in Seq(Fraction) : z = s.acc
      BY <1>6
    <3>2. Append(z, a) \in Seq(Fraction) /\ Len(Append(z, a)) = k
          /\ Append(z, a)[k] = a /\ \A j \in 1 .. (k - 1) : Append(z, a)[j] = z[j]
      BY <3>1, <2>1, <2>4
    <3>3. r.acc = Append(z, a)
      BY <3>1, <2>5
    <3>4. ASSUME NEW j \in 1 .. k PROVE Append(z, a)[j] = Acc(tok, i, j)
      <4>1. CASE j = k
        BY <4>1, <3>2, <2>2
      <4>2. CASE j # k
        <5>1. j \in 1 .. (k - 1) /\ j \in 1 .. Len(s.acc)
          BY <4>2, <2>1
        <5> QED BY <5>1, <3>1, <3>2, <1>6
      <4> QED BY <4>1, <4>2
    <3> QED BY <3>2, <3>3, <3>4
  <2>8. ASSUME Fails(tok, u, i, k)
        PROVE  r.nxt = Root /\ r.rest = Rest(tok, i, k)
    <3>1. ~Passes(tok, u, i, k)
      BY <2>8 DEF Fails
    <3>2. r.nxt = Root /\ r.rest = Max0(s.rest - Pn(tok, c))
      BY <3>1, <2>5, <2>6
    <3>3. Falls(tok, i, k)
      BY RestFalls
    <3>4. PICK p : p = Pn(tok, c)
      OBVIOUS
    <3>5. p \in Nat /\ p <= Rest(tok, i, k - 1) /\ Rest(tok, i, k) = Rest(tok, i, k - 1) - p
      BY <3>3, <3>4, <1>1 DEF Falls
    <3>6. Rest(tok, i, k - 1) \in Nat
      BY <2>1 DEF TestState
    <3>7. Max0(Rest(tok, i, k - 1) - p) = Rest(tok, i, k - 1) - p
      BY <3>5, <3>6 DEF Max0
    <3> QED BY <3>2, <3>4, <3>5, <3>7, <2>1
  <2>9. ASSUME NEW l \in 1 .. k, Fails(tok, u, i, l - 1), Passes(tok, u, i, l)
        PROVE  r.nxt = Kids(i)[l] /\ k = l
    <3>1. l = k
      <4>1. ~(l \in 1 .. (k - 1))
        BY <2>9, <1>7 DEF Fails
      <4> QED BY <4>1
    <3> QED BY <3>1, <2>9, <2>5, <2>6, <1>1
  <2>10. After(r, tok, u, i, k)
    <3>1. k \in 0 .. k
      OBVIOUS
    <3> QED BY <3>1, <2>7, <2>8, <2>9 DEF After
  <2> QED BY <2>10, <1>1, <1>3, <1>5
<1>8. CASE ~Fails(tok, u, i, k - 1)
  <2>1. PICK l \in 1 .. (k - 1) : Fails(tok, u, i, l - 1) /\ Passes(tok, u, i, l)
    <3>1. k - 1 \in Nat
      OBVIOUS
    <3> QED BY <3>1, <1>8, FirstPass
  <2>2. s.nxt = Kids(i)[l] /\ Len(s.acc) = l
    BY <2>1 DEF After
  <2>3. Kids(i)[l] # Root
    <3>1. l \in 1 .. m
      OBVIOUS
    <3> QED BY <3>1 DEF HasKids, Root
  <2>4. r = s
    BY <2>2, <2>3, <1>2, <1>3, <1>4, SiblingType
  <2>5. ~Fails(tok, u, i, k)
    <3>1. l \in 1 .. k
      OBVIOUS
    <3> QED BY <3>1, <2>1 DEF Fails
  <2>6. ASSUME NEW j \in 1 .. k, Fails(tok, u, i, j - 1), Passes(tok, u, i, j) PROVE j = l
    <3>1. ~(l \in 1 .. (j - 1))
      BY <2>1, <2>6 DEF Fails
    <3>2. ~(j \in 1 .. (l - 1))
      BY <2>1, <2>6 DEF Fails
    <3> QED BY <3>1, <3>2
  <2>7. Len(s.acc) \in 0 .. k
    BY <1>6
  <2>8. After(s, tok, u, i, k)
    BY <1>6, <2>2, <2>5, <2>6, <2>7 DEF After
  <2> QED BY <2>8, <2>4, <1>1, <1>3, <1>5
<1> QED BY <1>7, <1>8

\* The inner loop tests the drafts of a row one after the other, each against what the
\* rejected ones left.
LEMMA TestedAfter ==
    ASSUME NEW n \in Nat, GrownTo(n), NEW i \in Root .. (n - 1), NEW m \in Nat, HasKids(n, i, m),
           NEW tok, Drafted(tok, n), NEW u
    PROVE  Tested(tok, u, i) \in TestState(n) /\ After(Tested(tok, u, i), tok, u, i, m)
<1> DEFINE x0 == [rest |-> Total(P(i)), nxt |-> Root, acc |-> << >>]
           X == TestState(n)
           step == [k \in 1 .. m |-> [s \in X |-> Sibling(tok, u, s, Kids(i)[k])]]
           Good(h) == h = [k \in 0 .. m |-> IF k = 0 THEN x0 ELSE Sibling(tok, u, h[k - 1], Kids(i)[k])]
<1>1. x0 \in X
  <2>1. Total(P(i)) \in Nat /\ Root \in Root .. (n - 1) /\ << >> \in Seq(Fraction)
    BY RowIs DEF Root
  <2> QED BY <2>1 DEF TestState
<1>2. step \in [1 .. m -> [X -> X]]
  <2>1. ASSUME NEW k \in 1 .. m, NEW s \in X PROVE Sibling(tok, u, s, Kids(i)[k]) \in X
    <3>1. Kids(i)[k] \in 0 .. (n - 1) /\ tok \in [0 .. (n - 1) -> Token]
      BY DEF HasKids, Drafted
    <3> QED BY <3>1, SiblingType
  <2> HIDE DEF X
  <2> QED BY <2>1
<1>3. PICK f \in [0 .. m -> X] : Iterates(f, m, x0, step)
  <2> HIDE DEF X, step, x0
  <2> QED BY <1>1, <1>2, Recursion
<1>4. ASSUME NEW k \in 0 .. m
      PROVE  f[k] = IF k = 0 THEN x0 ELSE Sibling(tok, u, f[k - 1], Kids(i)[k])
  <2> HIDE DEF x0, X
  <2>1. f[k] = IF k = 0 THEN x0 ELSE step[k][f[k - 1]]
    BY <1>3 DEF Iterates
  <2>2. k # 0 => k \in 1 .. m /\ f[k - 1] \in X
    BY <1>3
  <2>3. k # 0 => step[k][f[k - 1]] = Sibling(tok, u, f[k - 1], Kids(i)[k])
    BY <2>2
  <2> QED BY <2>1, <2>3
<1>5. Good(f)
  <2> HIDE DEF x0, X, step
  <2>1. f = [k \in 0 .. m |-> f[k]]
    BY <1>3
  <2> QED BY <2>1, <1>4
<1>6. \E h : Good(h)
  <2> HIDE DEF Good
  <2> QED BY <1>5
<1>7. PICK g : g = (CHOOSE h : Good(h))
  OBVIOUS
<1>8. Good(g)
  <2> HIDE DEF Good
  <2> QED BY <1>6, <1>7
<1>9. Tested(tok, u, i) = g[m]
  BY <1>7 DEF Tested, HasKids, Kids
<1>10. g[0] = x0 /\ \A k \in 1 .. m : g[k] = Sibling(tok, u, g[k - 1], Kids(i)[k])
  <2> HIDE DEF x0
  <2>1. \A k \in 0 .. m : g[k] = IF k = 0 THEN x0 ELSE Sibling(tok, u, g[k - 1], Kids(i)[k])
    BY <1>8
  <2>2. ASSUME NEW k \in 1 .. m PROVE g[k] = Sibling(tok, u, g[k - 1], Kids(i)[k])
    <3>1. k \in 0 .. m /\ k # 0
      OBVIOUS
    <3> QED BY <3>1, <2>1
  <2> QED BY <2>1, <2>2
<1> HIDE DEF Good, X, step
<1> DEFINE G0 == {k \in 0 .. m : g[k] \in TestState(n) /\ After(g[k], tok, u, i, k)}
<1>11. 0 \in G0
  <2>1. x0.acc = << >> /\ x0.nxt = Root /\ x0.rest = Rest(tok, i, 0)
    BY RestWhole
  <2>2. x0 \in TestState(n)
    BY <1>1 DEF X
  <2> HIDE DEF x0
  <2>3. After(x0, tok, u, i, 0)
    <3>1. << >> \in Seq(Fraction) /\ Len(<< >>) = 0
      OBVIOUS
    <3> QED BY <3>1, <2>1 DEF After
  <2> QED BY <2>2, <2>3, <1>10
<1>12. ASSUME NEW k \in 0 .. (m - 1), k \in G0 PROVE k + 1 \in G0
  <2>1. k + 1 \in 1 .. m /\ (k + 1) - 1 = k /\ k + 1 \in 0 .. m
    OBVIOUS
  <2>2. g[k] \in TestState(n) /\ After(g[k], tok, u, i, (k + 1) - 1)
    BY <1>12, <2>1
  <2>3. g[k + 1] = Sibling(tok, u, g[k], Kids(i)[k + 1])
    BY <2>1, <1>10
  <2>4. g[k + 1] \in TestState(n) /\ After(g[k + 1], tok, u, i, k + 1)
    <3>1. PICK j \in 1 .. m : j = k + 1
      BY <2>1
    <3>2. PICK s : s = g[k]
      OBVIOUS
    <3>3. s \in TestState(n) /\ After(s, tok, u, i, j - 1)
      BY <3>1, <3>2, <2>1, <2>2
    <3>4. PICK r : r = Sibling(tok, u, s, Kids(i)[j])
      OBVIOUS
    <3>5. r \in TestState(n) /\ After(r, tok, u, i, j)
      BY <3>3, <3>4, AfterNext
    <3>6. g[j] = r
      BY <3>1, <3>2, <3>4, <2>3
    <3> QED BY <3>1, <3>5, <3>6
  <2> QED BY <2>1, <2>4
<1> HIDE DEF G0
<1>13. \A k \in 0 .. m : k \in G0
  BY <1>11, <1>12, Induct
<1>14. m \in G0
  <2>1. m \in 0 .. m
    OBVIOUS
  <2> QED BY <2>1, <1>13
<1> QED BY <1>9, <1>14 DEF G0

----------------------------------------------------------------------------
(***************************************************************************)
(* The accepted path.                                                      *)
(***************************************************************************)
\* What holds of a row if it holds of the rows after it, holds of all.
LEMMA Descend ==
    ASSUME NEW n \in Nat, NEW S,
           \A c \in Root .. (n - 1) : (\A d \in (c + 1) .. (n - 1) : d \in S) => c \in S
    PROVE  \A c \in Root .. (n - 1) : c \in S
<1> DEFINE G0 == {k \in 0 .. (n + 1) : \A c \in (n - k) .. (n - 1) : c \in S}
<1>1. 0 \in G0
  OBVIOUS
<1>2. ASSUME NEW k \in 0 .. ((n + 1) - 1), k \in G0 PROVE k + 1 \in G0
  <2>1. PICK e \in Root .. (n - 1) : e = n - (k + 1)
    BY DEF Root
  <2>2. \A d \in (e + 1) .. (n - 1) : d \in S
    BY <1>2, <2>1 DEF Root
  <2>3. e \in S
    BY <2>2
  <2>4. \A c \in (n - (k + 1)) .. (n - 1) : c \in S
    <3> SUFFICES ASSUME NEW c \in (n - (k + 1)) .. (n - 1) PROVE c \in S
      OBVIOUS
    <3>1. c = e \/ c \in (e + 1) .. (n - 1)
      BY <2>1 DEF Root
    <3> QED BY <3>1, <2>2, <2>3
  <2>5. k + 1 \in 0 .. (n + 1)
    OBVIOUS
  <2> QED BY <2>4, <2>5
<1> HIDE DEF G0
<1>3. n + 1 \in Nat /\ n + 1 \in 0 .. (n + 1)
  OBVIOUS
<1>4. \A k \in 0 .. (n + 1) : k \in G0
  BY <1>1, <1>2, <1>3, Induct
<1>5. n + 1 \in G0
  BY <1>3, <1>4
<1>6. n - (n + 1) = Root
  BY DEF Root
<1> QED BY <1>5, <1>6 DEF G0

\* A step goes to a later row, or ends.
Descends(nx, n) ==
    /\ nx \in [Root .. (n - 1) -> Root .. (n - 1)]
    /\ \A c \in Root .. (n - 1) : nx[c] # Root => c < nx[c]

\* f is the paths the steps make.
Path(f, nx, c) == IF nx[c] = Root THEN << >> ELSE <<nx[c]>> \o f[nx[c]]
Follows(f, nx, n) ==
    /\ f \in [Root .. (n - 1) -> Seq(Nat)]
    /\ \A c \in Root .. (n - 1) : f[c] = Path(f, nx, c)

\* A row put before a path.
LEMMA Longer1 ==
    ASSUME NEW s \in Seq(Nat), NEW x \in Nat
    PROVE  /\ <<x>> \o s \in Seq(Nat) /\ <<x>> \o s # << >>
           /\ ToSet(<<x>> \o s) = {x} \cup ToSet(s)
           /\ Last(<<x>> \o s) = IF s = << >> THEN x ELSE Last(s)
           /\ s # << >> => Last(s) \in ToSet(s)
           /\ ToSet(s) \subseteq Nat
<1>1. PICK t : t = <<x>> \o s
  OBVIOUS
<1>2. PICK l \in Nat : l = Len(s)
  OBVIOUS
<1>3. <<x>> \in Seq(Nat) /\ Len(<<x>>) = 1 /\ <<x>>[1] = x
  OBVIOUS
<1>4. t \in Seq(Nat) /\ Len(t) = l + 1 /\ t[1] = x /\ \A j \in 2 .. (l + 1) : t[j] = s[j - 1]
  <2>1. t \in Seq(Nat) /\ Len(t) = Len(<<x>>) + Len(s)
    BY <1>1, <1>3
  <2>2. \A j \in 1 .. (l + 1) : t[j] = IF j <= 1 THEN <<x>>[j] ELSE s[j - 1]
    BY <1>1, <1>2, <1>3
  <2> QED BY <2>1, <2>2, <1>2, <1>3
<1>5. DOMAIN t = 1 .. (l + 1) /\ DOMAIN s = 1 .. l
  BY <1>2, <1>4
<1>6. \A y : y \in ToSet(t) <=> \E j \in 1 .. (l + 1) : t[j] = y
  BY <1>5 DEF ToSet
<1>7. \A y : y \in ToSet(s) <=> \E j \in 1 .. l : s[j] = y
  BY <1>5 DEF ToSet
<1>8. ASSUME NEW y PROVE y \in ToSet(t) <=> y = x \/ y \in ToSet(s)
  <2>1. ASSUME NEW j \in 1 .. (l + 1), t[j] = y PROVE y = x \/ \E k \in 1 .. l : s[k] = y
    <3>1. CASE j = 1
      BY <3>1, <2>1, <1>4
    <3>2. CASE j # 1
      <4>1. j \in 2 .. (l + 1) /\ j - 1 \in 1 .. l
        BY <3>2
      <4> QED BY <4>1, <2>1, <1>4
    <3> QED BY <3>1, <3>2
  <2>2. ASSUME NEW k \in 1 .. l, s[k] = y PROVE \E j \in 1 .. (l + 1) : t[j] = y
    <3>1. k + 1 \in 2 .. (l + 1) /\ k + 1 \in 1 .. (l + 1) /\ (k + 1) - 1 = k
      OBVIOUS
    <3> QED BY <3>1, <2>2, <1>4
  <2>3. 1 \in 1 .. (l + 1)
    OBVIOUS
  <2> QED BY <2>1, <2>2, <2>3, <1>4, <1>6, <1>7
<1>9. Last(t) = t[l + 1] /\ Last(s) = s[l]
  BY <1>2, <1>4 DEF Last
<1>10. s = << >> <=> l = 0
  BY <1>2
<1>11. l # 0 => l + 1 \in 2 .. (l + 1) /\ (l + 1) - 1 = l /\ l \in 1 .. l
  OBVIOUS
<1>12. Last(t) = IF s = << >> THEN x ELSE Last(s)
  BY <1>4, <1>9, <1>10, <1>11
<1>13. s # << >> => Last(s) \in ToSet(s)
  BY <1>7, <1>9, <1>10, <1>11
<1>14. t # << >>
  BY <1>4
<1>15. ToSet(s) \subseteq Nat
  BY <1>2, <1>7
<1> QED BY <1>1, <1>4, <1>8, <1>12, <1>13, <1>14, <1>15

\* Steps make paths.
LEMMA PathsExist ==
    ASSUME NEW n \in Nat, NEW nx, Descends(nx, n)
    PROVE  \E f : Follows(f, nx, n)
<1> DEFINE D == Root .. (n - 1)
           Good(f, k) == \A c \in (n - k) .. (n - 1) : f[c] = Path(f, nx, c)
           G0 == {k \in 0 .. (n + 1) : \E f \in [D -> Seq(Nat)] : Good(f, k)}
<1>1. 0 \in G0
  <2>1. PICK f : f = [c \in D |-> << >>]
    OBVIOUS
  <2>2. f \in [D -> Seq(Nat)]
    BY <2>1
  <2>3. Good(f, 0)
    OBVIOUS
  <2> HIDE DEF Good
  <2> QED BY <2>2, <2>3
<1>2. ASSUME NEW k \in 0 .. ((n + 1) - 1), k \in G0 PROVE k + 1 \in G0
  <2>1. PICK f \in [D -> Seq(Nat)] : Good(f, k)
    <3> HIDE DEF Good
    <3> QED BY <1>2
  <2>2. PICK e \in D : e = n - (k + 1)
    <3>1. n - (k + 1) \in D
      BY DEF Root
    <3> QED BY <3>1
  <2>3. \A c \in D : nx[c] \in D /\ (nx[c] # Root => nx[c] \in Nat /\ c < nx[c])
    <3>1. \A c \in D : nx[c] \in D /\ (nx[c] # Root => c < nx[c])
      BY DEF Descends
    <3>2. \A y \in D : y # Root => y \in Nat
      BY DEF Root
    <3> QED BY <3>1, <3>2
  <2>4. Path(f, nx, e) \in Seq(Nat)
    <3>1. CASE nx[e] = Root
      BY <3>1 DEF Path
    <3>2. CASE nx[e] # Root
      <4>1. nx[e] \in Nat /\ f[nx[e]] \in Seq(Nat)
        BY <2>2, <2>3, <3>2, <2>1
      <4> QED BY <4>1, <3>2, Longer1 DEF Path
    <3> QED BY <3>1, <3>2
  <2>5. PICK g : g = [c \in D |-> IF c = e THEN Path(f, nx, e) ELSE f[c]]
    OBVIOUS
  <2>6. g \in [D -> Seq(Nat)]
    BY <2>1, <2>4, <2>5
  <2>7. ASSUME NEW c \in (n - (k + 1)) .. (n - 1) PROVE g[c] = Path(g, nx, c)
    <3>1. c \in D /\ c >= e
      BY <2>2 DEF Root
    <3>2. g[c] = Path(f, nx, c)
      <4>1. CASE c = e
        BY <4>1, <3>1, <2>5
      <4>2. CASE c # e
        <5>1. c \in (n - k) .. (n - 1)
          BY <4>2, <3>1, <2>2 DEF Root
        <5> QED BY <5>1, <4>2, <3>1, <2>1, <2>5
      <4> QED BY <4>1, <4>2
    <3>3. nx[c] # Root => g[nx[c]] = f[nx[c]]
      <4>1. nx[c] # Root => nx[c] \in D /\ nx[c] # e
        BY <2>3, <3>1, <2>2 DEF Root
      <4> QED BY <4>1, <2>5
    <3> QED BY <3>2, <3>3 DEF Path
  <2>8. Good(g, k + 1)
    BY <2>7
  <2>9. k + 1 \in 0 .. (n + 1)
    OBVIOUS
  <2> HIDE DEF Good, D
  <2> QED BY <2>6, <2>8, <2>9
<1> HIDE DEF G0
<1>3. n + 1 \in Nat /\ n + 1 \in 0 .. (n + 1)
  OBVIOUS
<1>4. \A k \in 0 .. (n + 1) : k \in G0
  BY <1>1, <1>2, <1>3, Induct
<1>5. n + 1 \in G0
  BY <1>3, <1>4
<1>6. PICK f \in [D -> Seq(Nat)] : Good(f, n + 1)
  <2> HIDE DEF Good
  <2> QED BY <1>5 DEF G0
<1>7. n - (n + 1) = Root
  BY DEF Root
<1>8. Follows(f, nx, n)
  BY <1>6, <1>7 DEF Follows
<1> QED BY <1>8

\* Rows on a path: each is where a step of the path, or the first one, leads; what follows
\* it is on the path too; no step leads on from its end.
OnPath(f, nx, c) ==
    LET end == IF f[c] = << >> THEN c ELSE Last(f[c]) IN
    /\ \A j \in ToSet(f[c]) : ToSet(f[j]) \subseteq ToSet(f[c]) /\ j # Root
    /\ \A i \in ToSet(f[c]) : \E j \in {c} \cup ToSet(f[c]) : nx[j] = i
    /\ nx[end] = Root /\ end \in {c} \cup ToSet(f[c])
    /\ nx[c] # Root => nx[c] \in ToSet(f[c])
    /\ nx[c] = Root => ToSet(f[c]) = {}
LEMMA Paths ==
    ASSUME NEW n \in Nat, NEW nx, Descends(nx, n), NEW f, Follows(f, nx, n)
    PROVE  \A c \in Root .. (n - 1) : OnPath(f, nx, c) /\ ToSet(f[c]) \subseteq Root .. (n - 1)
<1> DEFINE S == {c \in Root .. (n - 1) : OnPath(f, nx, c) /\ ToSet(f[c]) \subseteq Root .. (n - 1)}
<1>1. ASSUME NEW c \in Root .. (n - 1), \A d \in (c + 1) .. (n - 1) : d \in S
      PROVE  c \in S
  <2>1. f[c] = Path(f, nx, c)
    BY DEF Follows
  <2>2. CASE nx[c] = Root
    <3>1. f[c] = << >>
      BY <2>1, <2>2 DEF Path
    <3>2. ToSet(f[c]) = {}
      BY <3>1 DEF ToSet
    <3> QED BY <3>1, <3>2, <2>2 DEF OnPath
  <2>3. CASE nx[c] # Root
    <3>1. PICK d \in Nat : d = nx[c]
      BY <2>3 DEF Descends, Root
    <3>2. d \in (c + 1) .. (n - 1) /\ d # Root /\ d \in Root .. (n - 1)
      BY <2>3, <3>1 DEF Descends, Root
    <3>3. OnPath(f, nx, d) /\ ToSet(f[d]) \subseteq Root .. (n - 1)
      BY <1>1, <3>2
    <3>4. PICK s \in Seq(Nat) : s = f[d]
      BY <3>2 DEF Follows
    <3>5. PICK t : t = f[c]
      OBVIOUS
    <3>6. t = <<d>> \o s
      BY <2>1, <2>3, <3>1, <3>4, <3>5 DEF Path
    <3>7. /\ t # << >> /\ ToSet(t) = {d} \cup ToSet(s)
          /\ Last(t) = IF s = << >> THEN d ELSE Last(s)
      BY <3>6, Longer1
    <3>8. /\ \A j \in ToSet(s) : ToSet(f[j]) \subseteq ToSet(s) /\ j # Root
          /\ \A i \in ToSet(s) : \E j \in {d} \cup ToSet(s) : nx[j] = i
          /\ nx[IF s = << >> THEN d ELSE Last(s)] = Root
          /\ (IF s = << >> THEN d ELSE Last(s)) \in {d} \cup ToSet(s)
      BY <3>3, <3>4 DEF OnPath
    <3>9. \A j \in ToSet(t) : ToSet(f[j]) \subseteq ToSet(t) /\ j # Root
      BY <3>2, <3>4, <3>7, <3>8
    <3>10. \A i \in ToSet(t) : \E j \in {c} \cup ToSet(t) : nx[j] = i
      BY <3>1, <3>7, <3>8
    <3>11. nx[Last(t)] = Root /\ Last(t) \in {c} \cup ToSet(t)
      BY <3>7, <3>8
    <3>12. d \in ToSet(t)
      BY <3>7
    <3>13. ToSet(t) \subseteq Root .. (n - 1)
      BY <3>2, <3>3, <3>4, <3>7
    <3>14. OnPath(f, nx, c)
      BY <3>1, <3>5, <3>7, <3>9, <3>10, <3>11, <3>12, <2>3 DEF OnPath
    <3> QED BY <3>5, <3>13, <3>14
  <2> QED BY <2>2, <2>3
<1> HIDE DEF S
<1>2. \A c \in Root .. (n - 1) : c \in S
  BY <1>1, Descend
<1> QED BY <1>2 DEF S

\* Where the tests at a row lead.
LEMMA NextIs ==
    ASSUME NEW n \in Nat, GrownTo(n), NEW i \in Root .. (n - 1), NEW m \in Nat, HasKids(n, i, m),
           NEW tok, Drafted(tok, n), NEW u
    PROVE  /\ Tested(tok, u, i).nxt = Root <=> Fails(tok, u, i, m)
           /\ \A k \in 1 .. m : Tested(tok, u, i).nxt = Kids(i)[k] <=>
                                    Fails(tok, u, i, k - 1) /\ Passes(tok, u, i, k)
           /\ Tested(tok, u, i).nxt \in Root .. (n - 1)
           /\ Tested(tok, u, i).nxt # Root =>
                  i < Tested(tok, u, i).nxt /\ parents[Tested(tok, u, i).nxt] = i
<1>1. PICK s : s = Tested(tok, u, i)
  OBVIOUS
<1>2. s \in TestState(n) /\ After(s, tok, u, i, m)
  BY <1>1, TestedAfter
<1>3. /\ Fails(tok, u, i, m) => s.nxt = Root
      /\ \A l \in 1 .. m : Fails(tok, u, i, l - 1) /\ Passes(tok, u, i, l) => s.nxt = Kids(i)[l]
  BY <1>2 DEF After
<1>4. Fails(tok, u, i, m) \/ \E l \in 1 .. m : Fails(tok, u, i, l - 1) /\ Passes(tok, u, i, l)
  BY FirstPass
<1>5. /\ \A k \in 1 .. m : Kids(i)[k] \in 0 .. (n - 1) /\ parents[Kids(i)[k]] = i /\ i < Kids(i)[k]
      /\ \A k, l \in 1 .. m : k # l => Kids(i)[k] # Kids(i)[l]
  BY DEF HasKids
<1>6. \A k \in 1 .. m : Kids(i)[k] # Root
  BY <1>5 DEF Root
<1>7. s.nxt = Root => Fails(tok, u, i, m)
  BY <1>3, <1>4, <1>6
<1>8. ASSUME NEW k \in 1 .. m, s.nxt = Kids(i)[k]
      PROVE  Fails(tok, u, i, k - 1) /\ Passes(tok, u, i, k)
  <2>1. PICK l \in 1 .. m : Fails(tok, u, i, l - 1) /\ Passes(tok, u, i, l)
    BY <1>3, <1>4, <1>6, <1>8
  <2>2. l = k
    BY <2>1, <1>3, <1>5, <1>8
  <2> QED BY <2>1, <2>2
<1>9. s.nxt # Root => i < s.nxt /\ parents[s.nxt] = i
  BY <1>3, <1>4, <1>5
<1>10. s.nxt \in Root .. (n - 1)
  BY <1>2 DEF TestState
<1> QED BY <1>1, <1>3, <1>7, <1>8, <1>9, <1>10

NextOf(n, tok, u) == [c \in Root .. (n - 1) |-> Tested(tok, u, c).nxt]

\* Where a node's test leads: to one of its children, or nowhere.
LEMMA NextDescends ==
    ASSUME NEW n \in Nat, GrownTo(n), NEW tok, Drafted(tok, n), NEW u
    PROVE  /\ Descends(NextOf(n, tok, u), n)
           /\ \A c \in Root .. (n - 1) : NextOf(n, tok, u)[c] = Tested(tok, u, c).nxt
           /\ \A c \in Root .. (n - 1) :
                  Tested(tok, u, c).nxt # Root => parents[Tested(tok, u, c).nxt] = c
<1>1. ASSUME NEW c \in Root .. (n - 1)
      PROVE  /\ Tested(tok, u, c).nxt \in Root .. (n - 1)
             /\ Tested(tok, u, c).nxt # Root =>
                    c < Tested(tok, u, c).nxt /\ parents[Tested(tok, u, c).nxt] = c
  <2>1. PICK m \in Nat : HasKids(n, c, m)
    BY KidsAre
  <2> QED BY <2>1, NextIs
<1>2. PICK nx : nx = NextOf(n, tok, u)
  OBVIOUS
<1>3. nx = [c \in Root .. (n - 1) |-> Tested(tok, u, c).nxt]
  BY <1>2 DEF NextOf
<1>4. Descends(nx, n)
  BY <1>1, <1>3 DEF Descends
<1> QED BY <1>1, <1>2, <1>3, <1>4

\* The walk is the path from the root.
LEMMA WalkFollows ==
    ASSUME NEW n \in Nat, GrownTo(n), NEW tok, Drafted(tok, n), NEW u
    PROVE  \E f : Follows(f, NextOf(n, tok, u), n) /\ Walk(tok, u) = f[Root]
<1>1. PICK nx : nx = NextOf(n, tok, u)
  OBVIOUS
<1>2. Descends(nx, n) /\ \A c \in Root .. (n - 1) : nx[c] = Tested(tok, u, c).nxt
  BY <1>1, NextDescends
<1>3. PICK f : Follows(f, nx, n)
  BY <1>2, PathsExist
<1> DEFINE Good(h) == h = [cur \in Nodes \cup {Root} |->
                             LET nxt == Tested(tok, u, cur).nxt
                             IN  IF nxt = Root THEN << >> ELSE <<nxt>> \o h[nxt]]
<1>4. Nodes \cup {Root} = Root .. (n - 1)
  BY DEF Nodes, GrownTo, Ordered, Root
<1>5. ASSUME NEW h, h = [c \in Root .. (n - 1) |-> h[c]]
      PROVE  Good(h) <=> \A c \in Root .. (n - 1) : h[c] = Path(h, nx, c)
  <2>1. PICK w : w = [cur \in Root .. (n - 1) |->
                        LET nxt == Tested(tok, u, cur).nxt
                        IN  IF nxt = Root THEN << >> ELSE <<nxt>> \o h[nxt]]
    OBVIOUS
  <2>2. Good(h) <=> h = w
    BY <2>1, <1>4
  <2>3. \A c \in Root .. (n - 1) : w[c] = Path(h, nx, c)
    BY <2>1, <1>2 DEF Path
  <2>4. w = [c \in Root .. (n - 1) |-> w[c]]
    BY <2>1
  <2> HIDE DEF Good
  <2>5. h = w <=> \A c \in Root .. (n - 1) : h[c] = w[c]
    BY <2>4, <1>5
  <2> QED BY <2>2, <2>3, <2>5
<1>6. f = [c \in Root .. (n - 1) |-> f[c]] /\ \A c \in Root .. (n - 1) : f[c] = Path(f, nx, c)
  BY <1>3 DEF Follows
<1>7. \E h : Good(h)
  <2> HIDE DEF Good
  <2> QED BY <1>5, <1>6
<1>8. PICK g : g = (CHOOSE h : Good(h))
  OBVIOUS
<1>9. Good(g)
  <2> HIDE DEF Good
  <2> QED BY <1>7, <1>8
<1>10. Walk(tok, u) = g[Root]
  BY <1>8 DEF Walk
<1>11. g = [c \in Root .. (n - 1) |-> g[c]]
  BY <1>4, <1>9
<1> HIDE DEF Good
<1>12. \A c \in Root .. (n - 1) : g[c] = Path(g, nx, c)
  BY <1>5, <1>9, <1>11
<1> DEFINE S == {c \in Root .. (n - 1) : g[c] \in Seq(Nat)}
<1>13. ASSUME NEW c \in Root .. (n - 1), \A d \in (c + 1) .. (n - 1) : d \in S
       PROVE  c \in S
  <2>1. g[c] = Path(g, nx, c)
    BY <1>12
  <2>2. CASE nx[c] = Root
    <3>1. g[c] = << >>
      BY <2>1, <2>2 DEF Path
    <3>2. << >> \in Seq(Nat)
      OBVIOUS
    <3> QED BY <3>1, <3>2
  <2>3. CASE nx[c] # Root
    <3>1. PICK d \in Nat : d = nx[c]
      BY <2>3, <1>2 DEF Descends, Root
    <3>2. d \in (c + 1) .. (n - 1)
      BY <2>3, <3>1, <1>2 DEF Descends, Root
    <3>3. g[d] \in Seq(Nat)
      BY <3>2, <1>13
    <3>4. g[c] = <<d>> \o g[d]
      BY <2>1, <2>3, <3>1 DEF Path
    <3>5. <<d>> \o g[d] \in Seq(Nat)
      BY <3>3, Longer1
    <3> QED BY <3>4, <3>5
  <2> QED BY <2>2, <2>3
<1> HIDE DEF S
<1>14. \A c \in Root .. (n - 1) : c \in S
  BY <1>13, Descend
<1>15. Follows(g, nx, n)
  BY <1>11, <1>12, <1>14 DEF S, Follows
<1> QED BY <1>1, <1>10, <1>15

\* A row is reached if its parent is and the tests there lead to it.
LEMMA ReachesIs ==
    ASSUME NEW n \in Nat, GrownTo(n), NEW tok, Drafted(tok, n), NEW u
    PROVE  /\ Reaches(tok, u, Root)
           /\ \A i \in 0 .. (n - 1) : Reaches(tok, u, i) <=>
                  Reaches(tok, u, parents[i]) /\ Tested(tok, u, parents[i]).nxt = i
           /\ \A c \in ToSet(Walk(tok, u)) : c \in 0 .. (n - 1)
<1>1. PICK nx : nx = NextOf(n, tok, u)
  OBVIOUS
<1>2. /\ Descends(nx, n) /\ \A c \in Root .. (n - 1) : nx[c] = Tested(tok, u, c).nxt
      /\ \A c \in Root .. (n - 1) : nx[c] # Root => parents[nx[c]] = c
  BY <1>1, NextDescends
<1>3. PICK f : Follows(f, nx, n) /\ Walk(tok, u) = f[Root]
  BY <1>1, WalkFollows
<1>4. Root \in Root .. (n - 1)
  BY DEF Root
<1>5. PICK S : S = ToSet(f[Root])
  OBVIOUS
<1>0. \A c \in Root .. (n - 1) : OnPath(f, nx, c) /\ ToSet(f[c]) \subseteq Root .. (n - 1)
  BY <1>2, <1>3, Paths
<1>6. /\ S \subseteq Root .. (n - 1)
      /\ \A j \in S : ToSet(f[j]) \subseteq S /\ j # Root
      /\ \A i \in S : \E j \in {Root} \cup S : nx[j] = i
      /\ nx[Root] # Root => nx[Root] \in S
  <2>1. OnPath(f, nx, Root) /\ ToSet(f[Root]) \subseteq Root .. (n - 1)
    BY <1>0, <1>4
  <2> QED BY <2>1, <1>5 DEF OnPath
<1>7. \A c \in Root .. (n - 1) : nx[c] # Root => nx[c] \in ToSet(f[c])
  BY <1>0 DEF OnPath
<1>8. \A i : Reaches(tok, u, i) <=> i = Root \/ i \in S
  BY <1>3, <1>5 DEF Reaches
<1>9. \A i \in 0 .. (n - 1) : i # Root /\ parents[i] \in Root .. (n - 1) /\ i \in Root .. (n - 1)
  BY DEF GrownTo, Ordered, Root
<1>10. ASSUME NEW i \in 0 .. (n - 1), i \in S
       PROVE  (parents[i] = Root \/ parents[i] \in S) /\ nx[parents[i]] = i
  <2>1. PICK j \in {Root} \cup S : nx[j] = i
    BY <1>6, <1>10
  <2>2. j \in Root .. (n - 1) /\ i # Root
    BY <2>1, <1>4, <1>6, <1>9
  <2>3. parents[i] = j
    BY <2>1, <2>2, <1>2
  <2> QED BY <2>1, <2>3
<1>11. ASSUME NEW i \in 0 .. (n - 1), parents[i] = Root \/ parents[i] \in S, nx[parents[i]] = i
       PROVE  i \in S
  <2>1. CASE parents[i] = Root
    BY <2>1, <1>6, <1>9, <1>11
  <2>2. CASE parents[i] \in S
    <3>1. i \in ToSet(f[parents[i]])
      BY <1>7, <1>9, <1>11
    <3> QED BY <2>2, <3>1, <1>6
  <2> QED BY <1>11, <2>1, <2>2
<1>12. \A i \in 0 .. (n - 1) : nx[parents[i]] = Tested(tok, u, parents[i]).nxt
  BY <1>2, <1>9
<1>13. \A c \in S : c \in 0 .. (n - 1)
  BY <1>6 DEF Root
<1> QED BY <1>3, <1>5, <1>8, <1>9, <1>10, <1>11, <1>12, <1>13

\* No draft below the end of a walk is accepted.
LEMMA WalkEnds ==
    ASSUME NEW n \in Nat, GrownTo(n), NEW tok, Drafted(tok, n), NEW u, NEW end,
           end = IF Walk(tok, u) = << >> THEN Root ELSE Last(Walk(tok, u))
    PROVE  end \in Root .. (n - 1) /\ Tested(tok, u, end).nxt = Root
<1>1. PICK nx : nx = NextOf(n, tok, u)
  OBVIOUS
<1>2. Descends(nx, n) /\ \A c \in Root .. (n - 1) : nx[c] = Tested(tok, u, c).nxt
  BY <1>1, NextDescends
<1>3. PICK f : Follows(f, nx, n) /\ Walk(tok, u) = f[Root]
  BY <1>1, WalkFollows
<1>4. Root \in Root .. (n - 1)
  BY DEF Root
<1>5. ToSet(f[Root]) \subseteq Root .. (n - 1) /\ nx[end] = Root /\ end \in {Root} \cup ToSet(f[Root])
  <2>1. OnPath(f, nx, Root) /\ ToSet(f[Root]) \subseteq Root .. (n - 1)
    BY <1>2, <1>3, <1>4, Paths
  <2> QED BY <2>1, <1>3 DEF OnPath
<1>6. end \in Root .. (n - 1)
  BY <1>4, <1>5
<1> QED BY <1>2, <1>5, <1>6

----------------------------------------------------------------------------
(***************************************************************************)
(* The trees of a request.                                                 *)
(***************************************************************************)
\* A request starts with no draft.
LEMMA GrownInit == Init => Grown
<1> SUFFICES ASSUME Init PROVE GrownTo(0)
  BY DEF Grown
<1>1. params \in Params /\ parents = << >> /\ tokens = << >> /\ draft_q = << >> /\ power = << >>
  BY DEF Init
<1>2. PICK w \in Softmax : lp = [i \in {Root} |-> Processed(params, w)]
  BY DEF Init
<1>3. Processed(params, w) \in Row
  BY <1>1, ProcessedIs DEF Row
<1>4. {Root} = Root .. (0 - 1)
  BY DEF Root
<1>5. lp \in [Root .. (0 - 1) -> Row]
  BY <1>2, <1>3, <1>4
<1>6. 0 .. (0 - 1) = {}
  OBVIOUS
<1>7. \A X : << >> \in [{} -> X]
  <2> SUFFICES ASSUME NEW X PROVE << >> \in [{} -> X]
    OBVIOUS
  <2>1. << >> \in [1 .. 0 -> X]
    OBVIOUS
  <2>2. 1 .. 0 = {}
    OBVIOUS
  <2> QED BY <2>1, <2>2
<1>8. Ordered(parents, 0)
  BY <1>1, <1>6, <1>7 DEF Ordered
<1>9. Drafted(tokens, 0)
  BY <1>1, <1>6, <1>7 DEF Drafted
<1>10. DOMAIN draft_q = 0 .. (0 - 1) /\ power \in [0 .. (0 - 1) -> 1 .. G]
  BY <1>1, <1>6, <1>7
<1> QED BY <1>1, <1>5, <1>6, <1>8, <1>9, <1>10 DEF GrownTo

\* A function one argument longer.
Lengthens(g, f, b, n, x, X) ==
    /\ g \in [b .. ((n + 1) - 1) -> X]
    /\ g[n] = x
    /\ \A c \in b .. (n - 1) : g[c] = f[c]
LEMMA Lengthened ==
    ASSUME NEW n \in Nat, NEW b \in Int, b <= n, NEW X, NEW f \in [b .. (n - 1) -> X], NEW x \in X
    PROVE  Lengthens(With(f, n, x), f, b, n, x, X)
<1>1. b .. (n - 1) \cup {n} = b .. ((n + 1) - 1)
  OBVIOUS
<1>2. With(f, n, x) = [c \in b .. ((n + 1) - 1) |-> IF c = n THEN x ELSE f[c]]
  BY <1>1 DEF With
<1>3. PICK g : g = With(f, n, x)
  OBVIOUS
<1>4. n \in b .. ((n + 1) - 1) /\ \A c \in b .. (n - 1) : c # n /\ c \in b .. ((n + 1) - 1)
  OBVIOUS
<1>5. \A c \in b .. ((n + 1) - 1) : c # n => c \in b .. (n - 1)
  OBVIOUS
<1>6. g[n] = x /\ \A c \in b .. (n - 1) : g[c] = f[c]
  BY <1>2, <1>3, <1>4
<1>7. g \in [b .. ((n + 1) - 1) -> X]
  BY <1>2, <1>3, <1>5
<1> QED BY <1>3, <1>6, <1>7 DEF Lengthens

\* A draft added to a tree leaves a tree, its row and its head's row in place.
LEMMA GrownNext == Grown /\ [Next]_vars => Grown'
<1> SUFFICES ASSUME Grown, [Next]_vars PROVE Grown'
  OBVIOUS
<1>1. CASE UNCHANGED vars
  BY <1>1 DEF vars, Grown, GrownTo, Ordered, Drafted
<1>2. CASE Next
  <2>1. PICK n \in Nat : GrownTo(n)
    BY DEF Grown
  <2>2. Nodes = 0 .. (n - 1) /\ Cardinality(Nodes) = n
    <3>1. Nodes = 0 .. (n - 1)
      BY <2>1 DEF Nodes, GrownTo, Ordered
    <3>2. Cardinality(0 .. (n - 1)) = n
      BY FS_Interval
    <3> QED BY <3>1, <3>2
  <2>3. PICK i \in Nodes \cup {Root}, x \in Token, w \in Rows, b \in Powers \cup {G},
             q \in (IF params.sample THEN Softmax ELSE {Point}) : AddDraft(i, x, w, q, b)
    BY <1>2 DEF Next
  <2>4. /\ \A c \in Nodes : parents[c] <= i /\ (parents[c] = i => tokens[c] # x)
        /\ \/ params.sample /\ i = n - 1 /\ q \in Softmax /\ q[x] > 0
           \/ ~params.sample /\ q = Point
        /\ parents' = With(parents, n, i)
        /\ tokens' = With(tokens, n, x)
        /\ lp' = With(lp, n, Processed(params, w))
        /\ draft_q' = With(draft_q, n, q)
        /\ power' = With(power, n, b)
        /\ params' = params
    BY <2>2, <2>3 DEF AddDraft
  <2>5. i \in Root .. (n - 1) /\ i \in Root .. ((n + 1) - 1) /\ i < n
    BY <2>2, <2>3 DEF Root
  <2>6. Processed(params, w) \in Row
    <3>1. w \in Softmax /\ params \in Params
      BY <2>1, <2>3, SamplingAssumption DEF GrownTo
    <3> QED BY <3>1, ProcessedIs DEF Row
  <2>7. b \in 1 .. G
    BY <2>3, SamplingAssumption
  <2>8. parents \in [0 .. (n - 1) -> Root .. ((n + 1) - 1)] /\ \A c \in 0 .. (n - 1) : parents[c] < c
    <3>1. parents \in [0 .. (n - 1) -> Root .. (n - 1)] /\ \A c \in 0 .. (n - 1) : parents[c] < c
      BY <2>1 DEF GrownTo, Ordered
    <3>2. Root .. (n - 1) \subseteq Root .. ((n + 1) - 1)
      BY DEF Root
    <3> QED BY <3>1, <3>2
  <2>9. /\ parents' \in [0 .. ((n + 1) - 1) -> Root .. ((n + 1) - 1)] /\ parents'[n] = i
        /\ \A c \in 0 .. (n - 1) : parents'[c] = parents[c]
    <3>1. 0 \in Int /\ 0 <= n
      OBVIOUS
    <3>2. PICK g : g = With(parents, n, i)
      OBVIOUS
    <3>3. /\ g \in [0 .. ((n + 1) - 1) -> Root .. ((n + 1) - 1)] /\ g[n] = i
          /\ \A c \in 0 .. (n - 1) : g[c] = parents[c]
      <4>1. Lengthens(With(parents, n, i), parents, 0, n, i, Root .. ((n + 1) - 1))
        BY <3>1, <2>5, <2>8, Lengthened
      <4> QED BY <4>1, <3>2 DEF Lengthens
    <3>4. parents' = g
      BY <3>2, <2>4
    <3> QED BY <3>3, <3>4
  <2>10. /\ tokens' \in [0 .. ((n + 1) - 1) -> Token] /\ tokens'[n] = x
         /\ \A c \in 0 .. (n - 1) : tokens'[c] = tokens[c]
    <3>1. tokens \in [0 .. (n - 1) -> Token] /\ 0 \in Int /\ 0 <= n
      BY <2>1 DEF GrownTo, Drafted
    <3>2. PICK g : g = With(tokens, n, x)
      OBVIOUS
    <3>3. /\ g \in [0 .. ((n + 1) - 1) -> Token] /\ g[n] = x
          /\ \A c \in 0 .. (n - 1) : g[c] = tokens[c]
      <4>1. Lengthens(With(tokens, n, x), tokens, 0, n, x, Token)
        BY <3>1, Lengthened
      <4> QED BY <4>1, <3>2 DEF Lengthens
    <3>4. tokens' = g
      BY <3>2, <2>4
    <3> QED BY <3>3, <3>4
  <2>11. lp' \in [Root .. ((n + 1) - 1) -> Row]
    <3>1. lp \in [Root .. (n - 1) -> Row] /\ Root \in Int /\ Root <= n
      BY <2>1 DEF GrownTo, Root
    <3>2. Lengthens(With(lp, n, Processed(params, w)), lp, Root, n, Processed(params, w), Row)
      BY <3>1, <2>6, Lengthened
    <3> QED BY <3>2, <2>4 DEF Lengthens
  <2>12. power' \in [0 .. ((n + 1) - 1) -> 1 .. G]
    <3>1. power \in [0 .. (n - 1) -> 1 .. G] /\ 0 \in Int /\ 0 <= n
      BY <2>1 DEF GrownTo
    <3>2. Lengthens(With(power, n, b), power, 0, n, b, 1 .. G)
      BY <3>1, <2>7, Lengthened
    <3> QED BY <3>2, <2>4 DEF Lengthens
  <2>13. /\ DOMAIN draft_q' = 0 .. ((n + 1) - 1) /\ draft_q'[n] = q
         /\ \A c \in 0 .. (n - 1) : draft_q'[c] = draft_q[c]
    <3>1. DOMAIN draft_q = 0 .. (n - 1)
      BY <2>1 DEF GrownTo
    <3>2. 0 .. (n - 1) \cup {n} = 0 .. ((n + 1) - 1)
      OBVIOUS
    <3>3. draft_q' = [c \in 0 .. ((n + 1) - 1) |-> IF c = n THEN q ELSE draft_q[c]]
      BY <3>1, <3>2, <2>4 DEF With
    <3>4. n \in 0 .. ((n + 1) - 1) /\ \A c \in 0 .. (n - 1) : c # n /\ c \in 0 .. ((n + 1) - 1)
      OBVIOUS
    <3> QED BY <3>3, <3>4
  <2>14. \A c \in 0 .. ((n + 1) - 1) : c = n \/ c \in 0 .. (n - 1)
    OBVIOUS
  <2>15. Ordered(parents', n + 1)
    BY <2>5, <2>8, <2>9, <2>14 DEF Ordered
  <2>16. ASSUME NEW c \in 0 .. ((n + 1) - 1), NEW d \in 0 .. ((n + 1) - 1),
                parents'[c] = parents'[d], tokens'[c] = tokens'[d]
         PROVE  c = d
    <3>1. CASE c \in 0 .. (n - 1) /\ d \in 0 .. (n - 1)
      BY <3>1, <2>1, <2>9, <2>10, <2>16 DEF GrownTo, Drafted
    <3>2. CASE c \in 0 .. (n - 1) /\ d = n
      <4>1. parents[c] = i /\ tokens[c] = x
        BY <3>2, <2>9, <2>10, <2>16
      <4> QED BY <4>1, <3>2, <2>2, <2>4
    <3>3. CASE c = n /\ d \in 0 .. (n - 1)
      <4>1. parents[d] = i /\ tokens[d] = x
        BY <3>3, <2>9, <2>10, <2>16
      <4> QED BY <4>1, <3>3, <2>2, <2>4
    <3> QED BY <3>1, <3>2, <3>3, <2>14
  <2>17. ASSUME NEW c \in 0 .. ((n + 1) - 1)
         PROVE  IF params'.sample
                THEN draft_q'[c] \in Softmax /\ draft_q'[c][tokens'[c]] > 0 /\ parents'[c] = c - 1
                ELSE draft_q'[c] = Point
    <3>1. CASE c = n
      BY <3>1, <2>4, <2>9, <2>10, <2>13
    <3>2. CASE c \in 0 .. (n - 1)
      <4>1. IF params.sample
            THEN draft_q[c] \in Softmax /\ draft_q[c][tokens[c]] > 0 /\ parents[c] = c - 1
            ELSE draft_q[c] = Point
        BY <3>2, <2>1 DEF GrownTo
      <4> QED BY <4>1, <3>2, <2>4, <2>9, <2>10, <2>13
    <3> QED BY <3>1, <3>2, <2>14
  <2>18. params' \in Params
    BY <2>1, <2>4 DEF GrownTo
  <2>19. n + 1 \in Nat
    OBVIOUS
  <2>20. GrownTo(n + 1)'
    BY <2>10, <2>11, <2>12, <2>13, <2>15, <2>16, <2>17, <2>18 DEF GrownTo, Drafted
  <2>21. (\E m \in Nat : GrownTo(m))'
    BY <2>19, <2>20
  <2> QED BY <2>21 DEF Grown
<1> QED BY <1>1, <1>2

\* The trees a request's drafts grow into.
THEOREM TreesGrow == Spec => []Grown
<1>1. Init => Grown
  BY GrownInit
<1>2. Grown /\ [Next]_vars => Grown'
  BY GrownNext
<1> QED BY <1>1, <1>2, PTL DEF Spec

\* A test of a draft without weight passes under the relaxed rule only.
LEMMA PassesWithMass ==
    ASSUME NEW n \in Nat, GrownTo(n), NEW tok \in [0 .. (n - 1) -> Token], NEW c \in 0 .. (n - 1),
           NEW rest \in Nat, Pn(tok, c) = 0, NEW v \in Nat,
           v * Accept(tok, c, rest)[2] < Accept(tok, c, rest)[1] * G
    PROVE  /\ params.rule = "relaxed"
           /\ 0 * W >= params.tau * Total(P(parents[c])) \/ RankAt(parents[c], tok[c]) < params.accept_topk
<1>1. W \in Nat \ {0} /\ G \in Nat \ {0} /\ params.rule \in {"exact", "power", "relaxed"}
  BY SamplingAssumption DEF GrownTo
<1>2. PICK a \in Fraction : a = Accept(tok, c, rest)
  BY AcceptType
<1>3. a[1] \in Nat /\ a[2] \in Nat /\ v * a[2] < a[1] * G
  BY <1>2 DEF Fraction
<1>4. a[1] # 0
  <2> SUFFICES ASSUME a[1] = 0 PROVE FALSE
    OBVIOUS
  <2>1. PICK b \in Nat : b = a[2]
    BY <1>3
  <2>2. v * b < 0 * G
    BY <1>3, <2>1
  <2>3. v * b \in Nat /\ 0 * G = 0
    BY <1>1
  <2> QED BY <2>2, <2>3
<1>5. Ratio(tok, c, rest)[1] = 0
  <2>1. PICK q : q = IF draft_q[c] = Point THEN W ELSE draft_q[c][tok[c]]
    OBVIOUS
  <2>2. PICK p : p = Pn(tok, c)
    OBVIOUS
  <2>3. Ratio(tok, c, rest) = IF q * rest = 0 THEN (IF p > 0 THEN One ELSE Zero)
                              ELSE IF p * W >= q * rest THEN One ELSE <<p * W, q * rest>>
    BY <2>1, <2>2 DEF Ratio
  <2>4. p = 0 /\ p * W = 0
    BY <2>2, <1>1
  <2>5. q \in Nat
    <3>1. draft_q[c] = Point \/ draft_q[c] \in [Token -> 0 .. W]
      BY DEF GrownTo, Softmax
    <3> QED BY <3>1, <2>1, <1>1
  <2>6. q * rest \in Nat
    BY <2>5
  <2>7. Ratio(tok, c, rest) = IF q * rest = 0 THEN Zero ELSE <<0, q * rest>>
    BY <2>3, <2>4, <2>6
  <2> QED BY <2>7 DEF Zero
<1>6. params.rule = "relaxed"
  <2>1. CASE params.rule = "exact"
    BY <2>1, <1>2, <1>4, <1>5 DEF Accept
  <2>2. CASE params.rule = "power"
    BY <2>2, <1>2, <1>4, <1>5 DEF Accept
  <2> QED BY <1>1, <2>1, <2>2
<1>7. a = IF \/ 0 * W >= params.tau * Total(P(parents[c]))
             \/ RankAt(parents[c], tok[c]) < params.accept_topk
          THEN One ELSE Zero
  BY <1>2, <1>6 DEF Accept
<1> QED BY <1>4, <1>6, <1>7 DEF Zero

\* The k-th draft of a row, if it is reached and accepted, has passed its test.
LEMMA ReachedPasses ==
    ASSUME NEW n \in Nat, GrownTo(n), NEW tok, Drafted(tok, n), NEW u,
           NEW c \in 0 .. (n - 1), Reaches(tok, u, c)
    PROVE  \E m \in Nat : \E k \in 1 .. m :
               HasKids(n, parents[c], m) /\ Kids(parents[c])[k] = c /\ Passes(tok, u, parents[c], k)
<1>0. Tested(tok, u, parents[c]).nxt = c
  BY ReachesIs
<1>1. parents[c] \in Root .. (n - 1) /\ Tested(tok, u, parents[c]).nxt = c
  BY <1>0 DEF GrownTo, Ordered
<1>2. PICK i \in Root .. (n - 1) : i = parents[c]
  BY <1>1
<1>3. PICK m \in Nat : HasKids(n, i, m)
  BY KidsAre
<1>4. PICK k \in 1 .. m : Kids(i)[k] = c
  BY <1>2, <1>3 DEF HasKids
<1>5. Passes(tok, u, i, k)
  BY <1>1, <1>2, <1>3, <1>4, NextIs
<1> QED BY <1>2, <1>3, <1>4, <1>5

\* Nodes and uniforms of a tree of n drafts.
LEMMA NodesAre ==
    ASSUME NEW n \in Nat, GrownTo(n)
    PROVE  /\ Nodes = 0 .. (n - 1) /\ Nodes \cup {Root} = Root .. (n - 1)
           /\ Drafted(tokens, n) /\ tokens \in [0 .. (n - 1) -> Token]
           /\ parents \in [0 .. (n - 1) -> Root .. (n - 1)]
           /\ \A u \in [Nodes -> Uniform] : \A c \in 0 .. (n - 1) : u[c] \in Nat /\ u[c] < G
  BY SamplingAssumption DEF Nodes, GrownTo, Ordered, Root, Drafted, Uniform

\* An accepted draft has a probability but under the relaxed rule, and there only at a tau
\* of 0 or by rank (walk, behavior_logprob's logarithm).
LEMMA AcceptedInGrown == Grown => AcceptedHaveMass
<1> SUFFICES ASSUME Grown PROVE AcceptedHaveMass
  OBVIOUS
<1>1. PICK n \in Nat : GrownTo(n)
  BY DEF Grown
<1>2. /\ Nodes = 0 .. (n - 1) /\ Drafted(tokens, n) /\ tokens \in [0 .. (n - 1) -> Token]
      /\ parents \in [0 .. (n - 1) -> Root .. (n - 1)]
      /\ \A u \in [Nodes -> Uniform] : \A c \in 0 .. (n - 1) : u[c] \in Nat /\ u[c] < G
  BY <1>1, NodesAre
<1>3. SUFFICES ASSUME NEW u \in [Nodes -> Uniform], NEW c \in ToSet(Walk(tokens, u)),
                      Pn(tokens, c) = 0
               PROVE  /\ params.rule = "relaxed"
                      /\ params.tau = 0 \/ RankAt(parents[c], tokens[c]) < params.accept_topk
  BY DEF AcceptedHaveMass
<1>4. c \in 0 .. (n - 1) /\ Reaches(tokens, u, c)
  BY <1>1, <1>2, ReachesIs DEF Reaches
<1>5. PICK m \in Nat : \E k \in 1 .. m :
          HasKids(n, parents[c], m) /\ Kids(parents[c])[k] = c /\ Passes(tokens, u, parents[c], k)
  BY <1>1, <1>2, <1>4, ReachedPasses
<1>6. PICK k \in 1 .. m : Kids(parents[c])[k] = c /\ Passes(tokens, u, parents[c], k)
  BY <1>5
<1>7. parents[c] \in Root .. (n - 1)
  BY <1>2, <1>4
<1>8. PICK rest \in Nat : rest = Rest(tokens, parents[c], k - 1)
  BY <1>1, <1>7, RestIs
<1>9. u[c] * Accept(tokens, c, rest)[2] < Accept(tokens, c, rest)[1] * G
  BY <1>6, <1>8 DEF Passes, Acc
<1>10. /\ params.rule = "relaxed"
       /\ 0 * W >= params.tau * Total(P(parents[c])) \/ RankAt(parents[c], tokens[c]) < params.accept_topk
  <2>1. u[c] \in Nat
    BY <1>2, <1>4
  <2> QED BY <2>1, <1>1, <1>2, <1>3, <1>4, <1>9, PassesWithMass
<1>11. 0 * W >= params.tau * Total(P(parents[c])) => params.tau = 0
  <2>1. PICK t \in Nat : t = Total(P(parents[c])) /\ t > 0
    BY <1>1, <1>7, RowIs
  <2>2. PICK a \in Nat : a = params.tau
    BY <1>1, SamplingAssumption DEF GrownTo
  <2>3. 0 * W = 0
    BY SamplingAssumption
  <2>4. 0 >= a * t => a = 0
    BY <2>1
  <2> QED BY <2>1, <2>2, <2>3, <2>4
<1> QED BY <1>10, <1>11

\* Whatever the tree, its rows and its uniforms, a draft that walk accepts has a probability in
\* its row, whose logarithm is taken: only the relaxed rule accepts one without, at a tau of 0
\* or by rank.
THEOREM AcceptedHold == Spec => []AcceptedHaveMass
  BY TreesGrow, AcceptedInGrown, PTL

----------------------------------------------------------------------------
(***************************************************************************)
(* What a row leaves.                                                      *)
(***************************************************************************)
\* A token has no more weight than its row.
LEMMA TokenBelow ==
    ASSUME NEW w \in Weights, NEW a \in Token
    PROVE  w[a] \in Nat /\ w[a] <= Total(w)
<1>1. PICK g : g = [x \in Token |-> IF x = a THEN 0 ELSE w[x]]
  OBVIOUS
<1>2. g \in Weights
  BY <1>1 DEF Weights
<1>3. g[a] = 0 /\ \A x \in Token \ {a} : g[x] = w[x]
  BY <1>1
<1>4. w[a] <= Total(w)
  BY <1>2, <1>3, TotalWithout
<1> QED BY <1>4 DEF Weights

\* Rows added up.
LEMMA TotalPlus ==
    ASSUME NEW w \in Weights, NEW v \in Weights, NEW s, s = [x \in Token |-> w[x] + v[x]]
    PROVE  s \in Weights /\ Total(s) = Total(w) + Total(v)
<1> DEFINE G0 == {k \in 0 .. Vocab : Upto(s, k) = Upto(w, k) + Upto(v, k)}
<1>0. Vocab \in Nat /\ Token = 1 .. Vocab
  BY SamplingAssumption DEF Token
<1>1. s \in Weights
  <2>1. \A x \in Token : w[x] \in Nat /\ v[x] \in Nat
    BY DEF Weights
  <2> QED BY <2>1 DEF Weights
<1>2. 0 \in G0
  BY <1>0, <1>1, RowSums
<1>3. ASSUME NEW k \in 0 .. (Vocab - 1), k \in G0 PROVE k + 1 \in G0
  <2>1. k + 1 \in Token /\ k + 1 \in 0 .. Vocab /\ (k + 1) - 1 = k /\ k \in 0 .. Vocab
    BY <1>0
  <2>2. Upto(w, k + 1) = Upto(w, k) + w[k + 1] /\ Upto(v, k + 1) = Upto(v, k) + v[k + 1]
    BY <1>0, <2>1, RowSums
  <2>6. Upto(s, k + 1) = Upto(s, k) + s[k + 1]
    BY <1>0, <1>1, <2>1, RowSums
  <2>3. w[k + 1] \in Nat /\ v[k + 1] \in Nat /\ s[k + 1] = w[k + 1] + v[k + 1]
    BY <2>1 DEF Weights
  <2>4. Upto(w, k) \in Nat /\ Upto(v, k) \in Nat /\ Upto(s, k) = Upto(w, k) + Upto(v, k)
    BY <2>1, <1>3, RowSums
  <2>5. Upto(s, k + 1) = Upto(w, k + 1) + Upto(v, k + 1)
    BY <2>2, <2>3, <2>4, <2>6
  <2> QED BY <2>1, <2>5
<1> HIDE DEF G0
<1>4. Vocab \in Nat /\ Vocab \in 0 .. Vocab
  BY <1>0
<1>5. \A k \in 0 .. Vocab : k \in G0
  BY <1>2, <1>3, <1>4, Induct
<1>6. Vocab \in G0
  BY <1>4, <1>5
<1> QED BY <1>1, <1>6, RowSums DEF G0

\* A row of multiples.
LEMMA TotalTimes ==
    ASSUME NEW w \in Weights, NEW c \in Nat, NEW s, s = [x \in Token |-> w[x] * c]
    PROVE  s \in Weights /\ Total(s) = Total(w) * c
<1> DEFINE G0 == {k \in 0 .. Vocab : Upto(s, k) = Upto(w, k) * c}
<1>0. Vocab \in Nat /\ Token = 1 .. Vocab
  BY SamplingAssumption DEF Token
<1>1. s \in Weights
  <2>1. ASSUME NEW x \in Token PROVE w[x] * c \in Nat
    <3>1. PICK a \in Nat : a = w[x]
      BY DEF Weights
    <3> QED BY <3>1
  <2> QED BY <2>1 DEF Weights
<1>2. 0 \in G0
  BY <1>0, <1>1, RowSums
<1>3. ASSUME NEW k \in 0 .. (Vocab - 1), k \in G0 PROVE k + 1 \in G0
  <2>1. k + 1 \in Token /\ k + 1 \in 0 .. Vocab /\ (k + 1) - 1 = k /\ k \in 0 .. Vocab
    BY <1>0
  <2>2. Upto(w, k + 1) = Upto(w, k) + w[k + 1] /\ Upto(s, k + 1) = Upto(s, k) + s[k + 1]
    BY <1>0, <1>1, <2>1, RowSums
  <2>3. PICK a \in Nat : a = w[k + 1]
    BY <2>1 DEF Weights
  <2>4. PICK b \in Nat : b = Upto(w, k)
    BY <2>1, RowSums
  <2>5. Upto(s, k) = b * c /\ s[k + 1] = a * c
    BY <2>1, <2>3, <2>4, <1>3
  <2>6. b * c + a * c = (b + a) * c
    OBVIOUS
  <2>7. Upto(s, k + 1) = Upto(w, k + 1) * c
    BY <2>2, <2>3, <2>4, <2>5, <2>6
  <2> QED BY <2>1, <2>7
<1> HIDE DEF G0
<1>4. Vocab \in Nat /\ Vocab \in 0 .. Vocab
  BY <1>0
<1>5. \A k \in 0 .. Vocab : k \in G0
  BY <1>2, <1>3, <1>4, Induct
<1>6. Vocab \in G0
  BY <1>4, <1>5
<1> QED BY <1>1, <1>6, RowSums DEF G0

\* A row below another of the same weight is the other.
LEMMA TotalSame ==
    ASSUME NEW w \in Weights, NEW v \in Weights, \A x \in Token : w[x] <= v[x], Total(w) = Total(v)
    PROVE  \A x \in Token : w[x] = v[x]
<1>1. PICK d : d = [x \in Token |-> v[x] - w[x]]
  OBVIOUS
<1>2. \A x \in Token : w[x] \in Nat /\ v[x] \in Nat
  BY DEF Weights
<1>3. d \in Weights
  BY <1>1, <1>2 DEF Weights
<1>4. v = [x \in Token |-> w[x] + d[x]]
  <2>1. \A x \in Token : v[x] = w[x] + d[x]
    BY <1>1, <1>2
  <2> QED BY <2>1 DEF Weights
<1>5. Total(v) = Total(w) + Total(d)
  BY <1>3, <1>4, TotalPlus
<1>6. Total(d) = 0
  BY <1>3, <1>5, RowSums
<1> SUFFICES ASSUME NEW x \in Token PROVE w[x] = v[x]
  OBVIOUS
<1>7. d[x] \in Nat /\ d[x] <= 0
  BY <1>3, <1>6, TokenBelow
<1> QED BY <1>1, <1>2, <1>7

\* With argmax proposals a row leaves what its drafts do not take.
LEMMA LeftPoint ==
    ASSUME NEW n \in Nat, GrownTo(n), NEW i \in Root .. (n - 1), NEW m \in Nat, HasKids(n, i, m),
           NEW tok, Drafted(tok, n), ~params.sample \/ m = 0
    PROVE  Left(tok, i) = LeftAfter(tok, i, m)
<1>1. PICK ch : ch = Kids(i)
  OBVIOUS
<1>2. ch \in Seq(Nat) /\ Len(ch) = m /\ DOMAIN ch = 1 .. m
  BY <1>1 DEF HasKids
<1>3. PICK p : p = P(i)
  OBVIOUS
<1>4. ~(ch # << >> /\ draft_q[ch[1]] # Point)
  <2>1. CASE m = 0
    BY <2>1, <1>2
  <2>2. CASE m # 0 /\ ~params.sample
    <3>1. ch[1] \in 0 .. (n - 1)
      BY <2>2, <1>1 DEF HasKids
    <3> QED BY <3>1, <2>2 DEF GrownTo
  <2> QED BY <2>1, <2>2
<1>5. Left(tok, i) = Residual(p, [x \in Token |-> IF \E k \in 1 .. m : tok[ch[k]] = x
                                                   THEN Total(p) ELSE 0])
  BY <1>1, <1>2, <1>3, <1>4 DEF Left, Kids
<1>6. ASSUME NEW x \in Token
      PROVE  Max0(p[x] - (IF \E k \in 1 .. m : tok[ch[k]] = x THEN Total(p) ELSE 0))
                 = IF \E k \in 1 .. m : tok[ch[k]] = x THEN 0 ELSE p[x]
  <2>1. p \in Weights /\ Total(p) \in Nat
    BY <1>3, RowIs
  <2>2. p[x] \in Nat /\ p[x] <= Total(p)
    BY <2>1, TokenBelow
  <2> QED BY <2>1, <2>2 DEF Max0
<1>9. PICK f : f = [x \in Token |-> IF \E k \in 1 .. m : tok[ch[k]] = x THEN 0 ELSE p[x]]
  OBVIOUS
<1>7. Left(tok, i) = f
  BY <1>5, <1>6, <1>9 DEF Residual
<1>8. LeftAfter(tok, i, m) = f
  BY <1>1, <1>3, <1>9 DEF LeftAfter
<1> QED BY <1>7, <1>8

\* A sampled draft is the only one of its row.
LEMMA OneKid ==
    ASSUME NEW n \in Nat, GrownTo(n), NEW i \in Root .. (n - 1), NEW m \in Nat, HasKids(n, i, m),
           params.sample
    PROVE  m \in {0, 1}
<1> SUFFICES ASSUME m # 0, m # 1 PROVE FALSE
  OBVIOUS
<1>1. 1 \in 1 .. m /\ 2 \in 1 .. m
  OBVIOUS
<1>2. PICK c \in 0 .. (n - 1) : c = Kids(i)[1] /\ parents[c] = i
  BY <1>1 DEF HasKids
<1>3. PICK d \in 0 .. (n - 1) : d = Kids(i)[2] /\ parents[d] = i
  BY <1>1 DEF HasKids
<1>4. parents[c] = c - 1 /\ parents[d] = d - 1
  BY DEF GrownTo
<1>5. c = d
  BY <1>2, <1>3, <1>4
<1>6. \A k, l \in 1 .. m : k # l => Kids(i)[k] # Kids(i)[l]
  BY DEF HasKids
<1>7. Kids(i)[1] # Kids(i)[2]
  BY <1>1, <1>6
<1> QED BY <1>2, <1>3, <1>5, <1>7

\* A sampled draft is taken off its row with the weight it was drawn with.
LEMMA LeftSampled ==
    ASSUME NEW n \in Nat, GrownTo(n), NEW i \in Root .. (n - 1), NEW m \in Nat, HasKids(n, i, m),
           NEW tok, params.sample, m # 0, NEW q, q = draft_q[Kids(i)[1]]
    PROVE  /\ m = 1 /\ q \in Softmax /\ q # Point
           /\ Left(tok, i) = [x \in Token |-> Max0(P(i)[x] * W - q[x] * Total(P(i)))]
<1>1. m = 1
  BY OneKid
<1>2. PICK ch : ch = Kids(i)
  OBVIOUS
<1>3. ch \in Seq(Nat) /\ Len(ch) = 1 /\ ch[1] \in 0 .. (n - 1)
  BY <1>1, <1>2 DEF HasKids
<1>4. q \in Softmax
  BY <1>2, <1>3 DEF GrownTo
<1>5. q # Point
  <2>1. 1 \in Token
    BY SamplingAssumption DEF Token
  <2>2. DOMAIN q = Token
    BY <1>4 DEF Softmax
  <2>3. DOMAIN << >> = {}
    OBVIOUS
  <2> QED BY <2>1, <2>2, <2>3 DEF Point
<1>6. PICK p : p = P(i)
  OBVIOUS
<1>7. Left(tok, i) = Residual([x \in Token |-> p[x] * W], [x \in Token |-> q[x] * Total(p)])
  BY <1>2, <1>3, <1>5, <1>6 DEF Left, Kids
<1>8. Left(tok, i) = [x \in Token |-> Max0(p[x] * W - q[x] * Total(p))]
  BY <1>7 DEF Residual
<1> QED BY <1>1, <1>4, <1>5, <1>6, <1>8

\* A draft with as much weight as is left at its row, in the proposal's terms, passes.
LEMMA WholePasses ==
    ASSUME NEW n \in Nat, GrownTo(n), NEW tok, NEW c, NEW rest \in Nat, params.rule # "relaxed",
           NEW q, q = (IF draft_q[c] = Point THEN W ELSE draft_q[c][tok[c]]), q * rest # 0,
           Pn(tok, c) * W >= q * rest
    PROVE  Accept(tok, c, rest) = One
<1>1. params.rule \in {"exact", "power"}
  BY SamplingAssumption DEF GrownTo
<1>2. Ratio(tok, c, rest) = One
  BY DEF Ratio
<1> QED BY <1>1, <1>2 DEF Accept

\* A row whose drafts are all rejected has some weight left, but under the relaxed rule.
LEMMA FailsWithMass ==
    ASSUME NEW n \in Nat, GrownTo(n), NEW i \in Root .. (n - 1), NEW m \in Nat, HasKids(n, i, m),
           NEW u, \A c \in 0 .. (n - 1) : u[c] \in Nat /\ u[c] < G,
           Fails(tokens, u, i, m), params.rule # "relaxed"
    PROVE  Total(Left(tokens, i)) # 0
<1>0. Drafted(tokens, n) /\ W \in Nat \ {0} /\ G \in Nat \ {0}
  BY SamplingAssumption DEF GrownTo
<1>1. ASSUME NEW k \in 1 .. m PROVE Acc(tokens, i, k) # One
  <2> SUFFICES ASSUME Acc(tokens, i, k) = One PROVE FALSE
    OBVIOUS
  <2>1. PICK v \in Nat : v = u[Kids(i)[k]] /\ v < G
    BY DEF HasKids
  <2>2. v * 1 < 1 * G
    BY <2>1, <1>0
  <2>3. Passes(tokens, u, i, k)
    BY <2>1, <2>2 DEF Passes, One
  <2> QED BY <2>3 DEF Fails
<1>2. PICK T \in 1 .. W : T = Total(P(i)) /\ Rest(tokens, i, 0) = T
  BY RowIs, RestWhole
<1>3. CASE ~params.sample \/ m = 0
  <2> SUFFICES ASSUME Total(Left(tokens, i)) = 0 PROVE FALSE
    OBVIOUS
  <2>1. Rest(tokens, i, m) = 0
    BY <1>0, <1>3, LeftPoint DEF Rest
  <2> DEFINE S == {k \in 0 .. m : Rest(tokens, i, k) = 0}
  <2>2. S \subseteq Nat /\ m \in S
    BY <2>1
  <2>3. PICK k \in S : \A j \in S : k <= j
    BY <2>2, NatLeast
  <2>4. k \in 1 .. m /\ Rest(tokens, i, k) = 0
    BY <2>3, <1>2
  <2>5. Rest(tokens, i, k - 1) # 0
    <3>1. k - 1 \in 0 .. m /\ ~(k <= k - 1)
      BY <2>4
    <3> QED BY <3>1, <2>3
  <2>6. PICK rest \in Nat : rest = Rest(tokens, i, k - 1) /\ rest # 0
    BY <2>5, RestIs
  <2>7. Falls(tokens, i, k)
    BY <1>0, <2>4, RestFalls
  <2>8. PICK c : c = Kids(i)[k]
    OBVIOUS
  <2>9. Pn(tokens, c) = rest
    <3>1. PICK p : p = Pn(tokens, c)
      OBVIOUS
    <3>2. p \in Nat /\ 0 = rest - p
      BY <3>1, <2>4, <2>6, <2>7, <2>8 DEF Falls
    <3> QED BY <3>1, <3>2
  <2>10. draft_q[c] = Point
    <3>1. c \in 0 .. (n - 1) /\ m # 0
      BY <2>4, <2>8 DEF HasKids
    <3> QED BY <3>1, <1>3 DEF GrownTo
  <2>11. W * rest # 0 /\ rest * W >= W * rest
    BY <1>0, <2>6
  <2>12. Accept(tokens, c, rest) = One
    BY <2>9, <2>10, <2>11, WholePasses
  <2> QED BY <2>4, <2>6, <2>8, <2>12, <1>1 DEF Acc
<1>4. CASE params.sample /\ m # 0
  <2> SUFFICES ASSUME Total(Left(tokens, i)) = 0 PROVE FALSE
    OBVIOUS
  <2>1. PICK c : c = Kids(i)[1]
    OBVIOUS
  <2>2. PICK q : q = draft_q[c]
    OBVIOUS
  <2>3. PICK p : p = P(i)
    OBVIOUS
  <2>4. m = 1 /\ q \in Softmax /\ q # Point
        /\ Left(tokens, i) = [x \in Token |-> Max0(p[x] * W - q[x] * T)]
    BY <1>2, <1>4, <2>1, <2>2, <2>3, LeftSampled
  <2>5. c \in 0 .. (n - 1) /\ parents[c] = i
    BY <2>1, <2>4 DEF HasKids
  <2>6. p \in Weights /\ Total(p) = T /\ q \in Weights /\ Total(q) = W
    BY <1>2, <2>3, <2>4, RowIs DEF Softmax, Weights
  <2>7. PICK a : a = [x \in Token |-> p[x] * W]
    OBVIOUS
  <2>8. PICK b : b = [x \in Token |-> q[x] * T]
    OBVIOUS
  <2>9. a \in Weights /\ Total(a) = T * W /\ b \in Weights /\ Total(b) = W * T
    BY <1>0, <2>6, <2>7, <2>8, TotalTimes
  <2>10. PICK l : l = Left(tokens, i)
    OBVIOUS
  <2>11. \A x \in Token : a[x] \in Nat /\ b[x] \in Nat /\ l[x] = Max0(a[x] - b[x])
    BY <2>4, <2>7, <2>8, <2>9, <2>10 DEF Weights
  <2>12. l \in Weights
    <3>1. \A x \in Token : l[x] \in Nat
      BY <2>11 DEF Max0
    <3> QED BY <3>1, <2>4, <2>10 DEF Weights
  <2>13. ASSUME NEW x \in Token PROVE a[x] <= b[x]
    <3>1. l[x] <= 0 /\ l[x] \in Nat
      BY <2>10, <2>12, TokenBelow
    <3> QED BY <3>1, <2>11 DEF Max0
  <2>14. Total(a) = Total(b)
    BY <1>0, <2>9
  <2>15. \A x \in Token : a[x] = b[x]
    BY <2>9, <2>13, <2>14, TotalSame
  <2>16. PICK x \in Token : x = tokens[c]
    BY <1>0, <2>5 DEF Drafted
  <2>17. q[x] \in Nat /\ q[x] > 0 /\ p[x] \in Nat
    BY <1>4, <2>2, <2>5, <2>6, <2>16 DEF GrownTo, Weights
  <2>18. q[x] * T # 0 /\ p[x] * W >= q[x] * T
    <3>1. PICK y \in Nat : y = q[x] /\ y > 0
      BY <2>17
    <3>2. y * T > 0
      BY <3>1, <1>0
    <3>3. PICK z \in Nat : z = p[x]
      BY <2>17
    <3>4. z * W = y * T
      BY <3>1, <3>3, <2>7, <2>8, <2>15
    <3> QED BY <3>1, <3>2, <3>3, <3>4
  <2>19. Accept(tokens, c, T) = One
    <3>1. q[x] = IF draft_q[c] = Point THEN W ELSE draft_q[c][tokens[c]]
      BY <2>2, <2>4, <2>16
    <3>2. Pn(tokens, c) = p[x]
      BY <2>3, <2>5, <2>16 DEF Pn
    <3>3. T \in Nat
      BY <1>0
    <3> QED BY <3>1, <3>2, <3>3, <2>18, WholePasses
  <2>20. 1 \in 1 .. m /\ 1 - 1 = 0
    BY <2>4
  <2> QED BY <1>1, <1>2, <2>1, <2>19, <2>20 DEF Acc
<1> QED BY <1>3, <1>4

\* A draw is made from a row with some mass left, but under the relaxed rule, and there only
\* where no draft passes its test by its own probability or rank (draw, _score).
LEMMA DrawsInGrown == Grown => DrawsHaveMass
<1> SUFFICES ASSUME Grown PROVE DrawsHaveMass
  OBVIOUS
<1>1. PICK n \in Nat : GrownTo(n)
  BY DEF Grown
<1>2. /\ Nodes = 0 .. (n - 1) /\ Drafted(tokens, n)
      /\ \A u \in [Nodes -> Uniform] : \A c \in 0 .. (n - 1) : u[c] \in Nat /\ u[c] < G
  BY <1>1, NodesAre
<1>3. SUFFICES ASSUME NEW u \in [Nodes -> Uniform], NEW end,
                      end = (IF Walk(tokens, u) = << >> THEN Root ELSE Last(Walk(tokens, u))),
                      Total(Left(tokens, end)) = 0
               PROVE  /\ params.rule = "relaxed"
                      /\ \A c \in ToSet(Children(parents, end)) : ~Relaxes(c)
  BY DEF DrawsHaveMass, Exhausted
<1>4. end \in Root .. (n - 1) /\ Tested(tokens, u, end).nxt = Root
  BY <1>1, <1>2, <1>3, WalkEnds
<1>5. PICK m \in Nat : HasKids(n, end, m)
  BY <1>1, <1>4, KidsAre
<1>6. Fails(tokens, u, end, m)
  BY <1>1, <1>2, <1>4, <1>5, NextIs
<1>7. params.rule = "relaxed"
  BY <1>1, <1>2, <1>3, <1>4, <1>5, <1>6, FailsWithMass
<1>8. ASSUME NEW c \in ToSet(Children(parents, end)), Relaxes(c) PROVE FALSE
  <2>1. PICK k \in 1 .. m : Kids(end)[k] = c
    BY <1>5 DEF HasKids, ToSet, Kids
  <2>2. c \in 0 .. (n - 1)
    BY <1>5, <2>1 DEF HasKids
  <2>3. Acc(tokens, end, k) = One
    BY <1>7, <1>8, <2>1 DEF Acc, Accept, Relaxes
  <2>4. PICK v \in Nat : v = u[c] /\ v < G
    BY <1>2, <2>2
  <2>5. v * 1 < 1 * G
    BY <2>4, SamplingAssumption
  <2>6. Passes(tokens, u, end, k)
    BY <2>1, <2>3, <2>4, <2>5 DEF Passes, One
  <2> QED BY <2>6, <1>6 DEF Fails
<1> QED BY <1>7, <1>8

\* Whatever the tree, its rows and its uniforms, walk draws its last token from a row with some
\* mass left, except where the relaxed rule has refused every token of the row.
THEOREM DrawsHold == Spec => []DrawsHaveMass
  BY TreesGrow, DrawsInGrown, PTL

----------------------------------------------------------------------------
(***************************************************************************)
(* Counting uniforms.                                                      *)
(***************************************************************************)
\* Sets matched one to one are as large.
LEMMA Matched ==
    ASSUME NEW S, IsFiniteSet(S), NEW T, NEW f \in [S -> T],
           \A x, y \in S : f[x] = f[y] => x = y, \A z \in T : \E x \in S : f[x] = z
    PROVE  IsFiniteSet(T) /\ Cardinality(T) = Cardinality(S)
<1>1. f \in Injection(S, T)
  BY DEF Injection, IsInjective
<1>2. f \in Surjection(S, T)
  BY DEF Surjection
<1>3. ExistsBijection(S, T)
  BY <1>1, <1>2 DEF ExistsBijection, Bijection
<1> QED BY <1>3, FS_Bijection

\* The uniforms of n drafts.
Uniforms(n) == [0 .. (n - 1) -> Uniform]

\* The uniforms of a tree are finitely many.
LEMMA UniformsFinite ==
    ASSUME NEW n \in Nat
    PROVE  IsFiniteSet(Uniforms(n))
<1> DEFINE G0 == {k \in 0 .. n : IsFiniteSet(Uniforms(k))}
<1>1. IsFiniteSet(Uniform)
  BY FS_Interval, SamplingAssumption DEF Uniform
<1>2. 0 \in G0
  <2>1. 0 .. (0 - 1) = {}
    OBVIOUS
  <2>2. PICK e : e = [c \in {} |-> 0]
    OBVIOUS
  <2>3. Uniforms(0) = {e}
    <3>1. e \in Uniforms(0)
      BY <2>1, <2>2 DEF Uniforms
    <3>2. ASSUME NEW u \in Uniforms(0) PROVE u = e
      <4>1. u = [c \in {} |-> u[c]]
        BY <2>1 DEF Uniforms
      <4> QED BY <4>1, <2>2
    <3> QED BY <3>1, <3>2
  <2> QED BY <2>3, FS_Singleton
<1>3. ASSUME NEW k \in 0 .. (n - 1), k \in G0 PROVE k + 1 \in G0
  <2>1. IsFiniteSet(Uniforms(k) \X Uniform)
    BY <1>1, <1>3, FS_Product
  <2>2. 0 .. ((k + 1) - 1) = 0 .. (k - 1) \cup {k} /\ k \notin 0 .. (k - 1)
    OBVIOUS
  <2>3. PICK f : f = [z \in Uniforms(k) \X Uniform |->
                          [c \in 0 .. ((k + 1) - 1) |-> IF c = k THEN z[2] ELSE z[1][c]]]
    OBVIOUS
  <2>4. ASSUME NEW z \in Uniforms(k) \X Uniform PROVE f[z] \in Uniforms(k + 1)
    <3>1. z[1] \in [0 .. (k - 1) -> Uniform] /\ z[2] \in Uniform
      BY DEF Uniforms
    <3>2. f[z] = [c \in 0 .. ((k + 1) - 1) |-> IF c = k THEN z[2] ELSE z[1][c]]
      BY <2>3
    <3>3. ASSUME NEW c \in 0 .. ((k + 1) - 1) PROVE (IF c = k THEN z[2] ELSE z[1][c]) \in Uniform
      BY <2>2, <3>1
    <3> QED BY <3>2, <3>3 DEF Uniforms
  <2>5. ASSUME NEW u \in Uniforms(k + 1) PROVE \E z \in Uniforms(k) \X Uniform : f[z] = u
    <3>1. u \in [0 .. ((k + 1) - 1) -> Uniform]
      BY DEF Uniforms
    <3>2. PICK v : v = [c \in 0 .. (k - 1) |-> u[c]]
      OBVIOUS
    <3>3. v \in Uniforms(k) /\ u[k] \in Uniform
      BY <2>2, <3>1, <3>2 DEF Uniforms
    <3>4. PICK z \in Uniforms(k) \X Uniform : z[1] = v /\ z[2] = u[k]
      <4>1. <<v, u[k]>> \in Uniforms(k) \X Uniform
        BY <3>3
      <4> QED BY <4>1
    <3>5. f[z] = [c \in 0 .. ((k + 1) - 1) |-> IF c = k THEN u[k] ELSE v[c]]
      BY <2>3, <3>4
    <3>6. \A c \in 0 .. ((k + 1) - 1) : (IF c = k THEN u[k] ELSE v[c]) = u[c]
      BY <2>2, <3>2
    <3>7. f[z] = u
      BY <3>1, <3>5, <3>6
    <3> QED BY <3>7
  <2>6. f \in Surjection(Uniforms(k) \X Uniform, Uniforms(k + 1))
    <3>1. f = [z \in Uniforms(k) \X Uniform |-> f[z]]
      BY <2>3
    <3>2. f \in [Uniforms(k) \X Uniform -> Uniforms(k + 1)]
      BY <2>4, <3>1
    <3> QED BY <3>2, <2>5 DEF Surjection
  <2>7. IsFiniteSet(Uniforms(k + 1))
    BY <2>1, <2>6, FS_Surjection
  <2>8. k + 1 \in 0 .. n
    OBVIOUS
  <2> QED BY <2>7, <2>8
<1> HIDE DEF G0
<1>4. \A k \in 0 .. n : k \in G0
  BY <1>2, <1>3, Induct
<1>5. n \in 0 .. n
  OBVIOUS
<1> QED BY <1>4, <1>5 DEF G0

\* R does not depend on the uniform of draft c.
FreeAt(R, c) == \A u \in R : \A v \in Uniform : [u EXCEPT ![c] = v] \in R

Slice(R, c, v) == {u \in R : u[c] = v}
Below(R, c, t) == {u \in R : u[c] < t}

\* Its members have every uniform of c equally often.
LEMMA SlicesAlike ==
    ASSUME NEW n \in Nat, NEW R \in SUBSET Uniforms(n), NEW c \in 0 .. (n - 1), FreeAt(R, c),
           NEW v \in Uniform, NEW w \in Uniform
    PROVE  Cardinality(Slice(R, c, w)) = Cardinality(Slice(R, c, v))
<1>1. IsFiniteSet(R)
  BY UniformsFinite, FS_Subset
<1>2. IsFiniteSet(Slice(R, c, v))
  <2>1. Slice(R, c, v) \in SUBSET R
    BY DEF Slice
  <2> QED BY <1>1, <2>1, FS_Subset
<1>3. PICK f : f = [u \in Slice(R, c, v) |-> [u EXCEPT ![c] = w]]
  OBVIOUS
<1>4. \A u \in R : u = [d \in 0 .. (n - 1) |-> u[d]]
  BY DEF Uniforms
<1>5. ASSUME NEW u \in Slice(R, c, v) PROVE f[u] \in Slice(R, c, w)
  <2>1. u \in R /\ f[u] = [u EXCEPT ![c] = w]
    BY <1>3 DEF Slice
  <2>2. f[u] \in R
    BY <2>1 DEF FreeAt
  <2>3. f[u][c] = w
    BY <2>1, <1>4
  <2> QED BY <2>2, <2>3 DEF Slice
<1>6. f \in [Slice(R, c, v) -> Slice(R, c, w)]
  <2>1. f = [u \in Slice(R, c, v) |-> f[u]]
    BY <1>3
  <2> QED BY <2>1, <1>5
<1>7. ASSUME NEW x \in Slice(R, c, v), NEW y \in Slice(R, c, v), f[x] = f[y] PROVE x = y
  <2>1. x \in R /\ y \in R /\ x[c] = v /\ y[c] = v
    BY DEF Slice
  <2>2. f[x] = [x EXCEPT ![c] = w] /\ f[y] = [y EXCEPT ![c] = w]
    BY <1>3
  <2>3. ASSUME NEW d \in 0 .. (n - 1) PROVE x[d] = y[d]
    <3>1. CASE d = c
      BY <3>1, <2>1
    <3>2. CASE d # c
      <4>1. f[x][d] = x[d] /\ f[y][d] = y[d]
        BY <3>2, <2>1, <2>2, <1>4
      <4> QED BY <4>1, <1>7
    <3> QED BY <3>1, <3>2
  <2>4. x \in [0 .. (n - 1) -> Uniform] /\ y \in [0 .. (n - 1) -> Uniform]
    BY <2>1 DEF Uniforms
  <2> QED BY <2>3, <2>4
<1>8. ASSUME NEW z \in Slice(R, c, w) PROVE \E x \in Slice(R, c, v) : f[x] = z
  <2>1. z \in R /\ z[c] = w
    BY DEF Slice
  <2>2. PICK x : x = [z EXCEPT ![c] = v]
    OBVIOUS
  <2>3. x \in R
    BY <2>1, <2>2 DEF FreeAt
  <2>4. x[c] = v
    BY <2>1, <2>2, <1>4
  <2>5. x \in Slice(R, c, v)
    BY <2>3, <2>4 DEF Slice
  <2>6. f[x] = [x EXCEPT ![c] = w]
    BY <2>5, <1>3
  <2>7. ASSUME NEW d \in 0 .. (n - 1) PROVE f[x][d] = z[d]
    BY <2>1, <2>2, <2>3, <2>6, <1>4
  <2>8. f[x] \in [0 .. (n - 1) -> Uniform] /\ z \in [0 .. (n - 1) -> Uniform]
    <3>1. f[x] \in R
      BY <1>5, <2>5 DEF Slice
    <3> QED BY <3>1, <2>1 DEF Uniforms
  <2>9. f[x] = z
    BY <2>7, <2>8
  <2> QED BY <2>5, <2>9
<1> QED BY <1>2, <1>6, <1>7, <1>8, Matched

\* So the share below t is t of G.
LEMMA ShareBelow ==
    ASSUME NEW n \in Nat, NEW R \in SUBSET Uniforms(n), NEW c \in 0 .. (n - 1), FreeAt(R, c),
           NEW t \in 0 .. G
    PROVE  Cardinality(Below(R, c, t)) * G = t * Cardinality(R)
<1>0. G \in Nat /\ G > 0 /\ Uniform = 0 .. (G - 1)
  BY SamplingAssumption DEF Uniform
<1>1. IsFiniteSet(R)
  BY UniformsFinite, FS_Subset
<1>2. \A k : IsFiniteSet(Below(R, c, k)) /\ IsFiniteSet(Slice(R, c, k))
             /\ Cardinality(Below(R, c, k)) \in Nat /\ Cardinality(Slice(R, c, k)) \in Nat
  <2> SUFFICES ASSUME NEW k
               PROVE  IsFiniteSet(Below(R, c, k)) /\ IsFiniteSet(Slice(R, c, k))
                      /\ Cardinality(Below(R, c, k)) \in Nat /\ Cardinality(Slice(R, c, k)) \in Nat
    OBVIOUS
  <2>1. Below(R, c, k) \in SUBSET R /\ Slice(R, c, k) \in SUBSET R
    BY DEF Below, Slice
  <2>2. IsFiniteSet(Below(R, c, k)) /\ IsFiniteSet(Slice(R, c, k))
    BY <1>1, <2>1, FS_Subset
  <2> QED BY <2>2, FS_CardinalityType
<1>3. PICK s \in Nat : s = Cardinality(Slice(R, c, 0))
  BY <1>2
<1>4. \A k \in Uniform : Cardinality(Slice(R, c, k)) = s
  BY <1>0, <1>3, SlicesAlike
<1>5. \A u \in R : u[c] \in Nat /\ u[c] < G
  BY <1>0 DEF Uniforms
<1> DEFINE G0 == {k \in 0 .. G : Cardinality(Below(R, c, k)) = k * s}
<1>6. 0 \in G0
  <2>1. Below(R, c, 0) = {}
    BY <1>5 DEF Below
  <2> QED BY <2>1, <1>0, FS_EmptySet
<1>7. ASSUME NEW k \in 0 .. (G - 1), k \in G0 PROVE k + 1 \in G0
  <2>1. Below(R, c, k + 1) = Below(R, c, k) \cup Slice(R, c, k)
    BY <1>5 DEF Below, Slice
  <2>2. Below(R, c, k) \cap Slice(R, c, k) = {}
    BY <1>5 DEF Below, Slice
  <2>3. Cardinality(Below(R, c, k + 1))
            = Cardinality(Below(R, c, k)) + Cardinality(Slice(R, c, k)) - Cardinality({})
    BY <1>2, <2>1, <2>2, FS_Union
  <2>4. Cardinality({}) = 0
    BY FS_EmptySet
  <2>5. Cardinality(Below(R, c, k + 1)) = k * s + s
    BY <1>0, <1>2, <1>4, <1>7, <2>3, <2>4
  <2>6. k * s + s = (k + 1) * s
    BY <1>3
  <2>7. k + 1 \in 0 .. G
    BY <1>0
  <2> QED BY <2>5, <2>6, <2>7
<1> HIDE DEF G0
<1>8. \A k \in 0 .. G : k \in G0
  BY <1>0, <1>6, <1>7, Induct
<1>9. Cardinality(Below(R, c, t)) = t * s
  BY <1>8 DEF G0
<1>10. Cardinality(R) = G * s
  <2>1. Below(R, c, G) = R
    BY <1>5 DEF Below
  <2>2. G \in 0 .. G
    BY <1>0
  <2> QED BY <1>8, <2>1, <2>2 DEF G0
<1>11. (t * s) * G = t * (G * s)
  BY <1>0, <1>3
<1> QED BY <1>9, <1>10, <1>11

----------------------------------------------------------------------------
(***************************************************************************)
(* The uniforms that reach a row and reject its drafts.                    *)
(***************************************************************************)
\* What holds of a row if it holds of the rows before it, holds of all.
LEMMA Ascend ==
    ASSUME NEW n \in Nat, NEW S,
           \A c \in Root .. (n - 1) : (\A d \in Root .. (c - 1) : d \in S) => c \in S
    PROVE  \A c \in Root .. (n - 1) : c \in S
<1> DEFINE G0 == {k \in 0 .. (n + 1) : \A c \in Root .. (k - 2) : c \in S}
<1>1. 0 \in G0
  BY DEF Root
<1>2. ASSUME NEW k \in 0 .. ((n + 1) - 1), k \in G0 PROVE k + 1 \in G0
  <2>1. PICK e \in Root .. (n - 1) : e = k - 1
    BY DEF Root
  <2>2. \A d \in Root .. (e - 1) : d \in S
    BY <1>2, <2>1
  <2>3. e \in S
    BY <2>2
  <2>4. \A c \in Root .. ((k + 1) - 2) : c \in S
    <3> SUFFICES ASSUME NEW c \in Root .. ((k + 1) - 2) PROVE c \in S
      OBVIOUS
    <3>1. c = e \/ c \in Root .. (e - 1)
      BY <2>1 DEF Root
    <3> QED BY <3>1, <2>2, <2>3
  <2>5. k + 1 \in 0 .. (n + 1)
    OBVIOUS
  <2> QED BY <2>4, <2>5
<1> HIDE DEF G0
<1>3. n + 1 \in Nat /\ n + 1 \in 0 .. (n + 1)
  OBVIOUS
<1>4. \A k \in 0 .. (n + 1) : k \in G0
  BY <1>1, <1>2, <1>3, Induct
<1>5. n + 1 \in G0 /\ (n + 1) - 2 = n - 1
  BY <1>3, <1>4
<1> QED BY <1>5 DEF G0

\* A test does not depend on another draft's uniform.
LEMMA PassElsewhere ==
    ASSUME NEW n \in Nat, NEW u \in Uniforms(n), NEW c \in 0 .. (n - 1), NEW v, NEW tok, NEW i, NEW k,
           Kids(i)[k] \in 0 .. (n - 1), Kids(i)[k] # c
    PROVE  Passes(tok, [u EXCEPT ![c] = v], i, k) <=> Passes(tok, u, i, k)
<1>1. u = [d \in 0 .. (n - 1) |-> u[d]]
  BY DEF Uniforms
<1>2. [u EXCEPT ![c] = v][Kids(i)[k]] = u[Kids(i)[k]]
  BY <1>1
<1> QED BY <1>2 DEF Passes

\* Nor does a row's being reached depend on the uniforms of drafts below it.
LEMMA ReachElsewhere ==
    ASSUME NEW n \in Nat, GrownTo(n), NEW tok, Drafted(tok, n),
           NEW u \in Uniforms(n), NEW c \in 0 .. (n - 1), NEW v
    PROVE  \A i \in Root .. (n - 1) : i <= parents[c] =>
               (Reaches(tok, [u EXCEPT ![c] = v], i) <=> Reaches(tok, u, i))
<1> DEFINE w == [u EXCEPT ![c] = v]
           S == {i \in Root .. (n - 1) : i <= parents[c] => (Reaches(tok, w, i) <=> Reaches(tok, u, i))}
<1>0. parents \in [0 .. (n - 1) -> Root .. (n - 1)] /\ \A i \in 0 .. (n - 1) : parents[i] < i
  BY DEF GrownTo, Ordered
<1>1. ASSUME NEW i \in Root .. (n - 1), \A d \in Root .. (i - 1) : d \in S PROVE i \in S
  <2> SUFFICES ASSUME i <= parents[c] PROVE Reaches(tok, w, i) <=> Reaches(tok, u, i)
    OBVIOUS
  <2>1. CASE i = Root
    BY <2>1 DEF Reaches
  <2>2. CASE i # Root
    <3>1. i \in 0 .. (n - 1)
      BY <2>2 DEF Root
    <3>2. PICK j \in Root .. (n - 1) : j = parents[i] /\ j < i
      BY <3>1, <1>0
    <3>3. j < parents[c]
      <4>1. parents[c] \in Root .. (n - 1)
        BY <1>0
      <4> QED BY <3>1, <3>2, <4>1 DEF Root
    <3>4. Reaches(tok, w, j) <=> Reaches(tok, u, j)
      <4>1. j \in Root .. (i - 1)
        BY <3>1, <3>2 DEF Root
      <4>2. j <= parents[c]
        BY <3>3, <1>0
      <4> QED BY <4>1, <4>2, <1>1
    <3>5. PICK m \in Nat : HasKids(n, j, m)
      BY KidsAre
    <3>6. \A l \in 1 .. m : Passes(tok, w, j, l) <=> Passes(tok, u, j, l)
      <4> SUFFICES ASSUME NEW l \in 1 .. m PROVE Passes(tok, w, j, l) <=> Passes(tok, u, j, l)
        OBVIOUS
      <4>1. Kids(j)[l] \in 0 .. (n - 1) /\ parents[Kids(j)[l]] = j
        BY <3>5 DEF HasKids
      <4>2. j # parents[c]
        BY <3>3, <1>0
      <4>3. Kids(j)[l] # c
        BY <4>1, <4>2
      <4> HIDE DEF w
      <4>4. w = [u EXCEPT ![c] = v]
        BY DEF w
      <4> QED BY <4>1, <4>3, <4>4, PassElsewhere
    <3>7. PICK k \in 1 .. m : Kids(j)[k] = i
      BY <3>1, <3>2, <3>5 DEF HasKids
    <3> HIDE DEF w
    <3>8. Fails(tok, w, j, k - 1) <=> Fails(tok, u, j, k - 1)
      <4>1. \A l \in 1 .. (k - 1) : l \in 1 .. m
        OBVIOUS
      <4> QED BY <4>1, <3>6 DEF Fails
    <3>9. Tested(tok, w, j).nxt = i <=> Tested(tok, u, j).nxt = i
      <4>1. Tested(tok, w, j).nxt = i <=> Fails(tok, w, j, k - 1) /\ Passes(tok, w, j, k)
        BY <3>5, <3>7, NextIs
      <4>2. Tested(tok, u, j).nxt = i <=> Fails(tok, u, j, k - 1) /\ Passes(tok, u, j, k)
        BY <3>5, <3>7, NextIs
      <4> QED BY <4>1, <4>2, <3>6, <3>8
    <3>10. Reaches(tok, w, i) <=> Reaches(tok, w, j) /\ Tested(tok, w, j).nxt = i
      BY <3>1, <3>2, ReachesIs
    <3>11. Reaches(tok, u, i) <=> Reaches(tok, u, j) /\ Tested(tok, u, j).nxt = i
      BY <3>1, <3>2, ReachesIs
    <3> QED BY <3>4, <3>9, <3>10, <3>11
  <2> QED BY <2>1, <2>2
<1> HIDE DEF S
<1>2. \A i \in Root .. (n - 1) : i \in S
  BY <1>1, Ascend
<1> QED BY <1>2 DEF S

\* The uniforms that reach row i and reject its first k drafts, and those that accept the
\* k-th.
Rejecting(n, tok, i, k) == {u \in Uniforms(n) : Reaches(tok, u, i) /\ Fails(tok, u, i, k)}
Accepting(n, tok, i, k) == {u \in Rejecting(n, tok, i, k - 1) : Passes(tok, u, i, k)}

\* They have the uniforms of the drafts still to test.
LEMMA RejectingFree ==
    ASSUME NEW n \in Nat, GrownTo(n), NEW tok, Drafted(tok, n), NEW i \in Root .. (n - 1),
           NEW m \in Nat, HasKids(n, i, m), NEW k \in 1 .. m
    PROVE  FreeAt(Rejecting(n, tok, i, k - 1), Kids(i)[k])
<1>1. PICK c \in 0 .. (n - 1) : c = Kids(i)[k] /\ parents[c] = i
  BY DEF HasKids
<1>2. SUFFICES ASSUME NEW u \in Rejecting(n, tok, i, k - 1), NEW v \in Uniform
               PROVE  [u EXCEPT ![c] = v] \in Rejecting(n, tok, i, k - 1)
  BY <1>1 DEF FreeAt
<1>3. u \in Uniforms(n) /\ Reaches(tok, u, i) /\ Fails(tok, u, i, k - 1)
  BY DEF Rejecting
<1>4. PICK w : w = [u EXCEPT ![c] = v]
  OBVIOUS
<1>5. w \in Uniforms(n)
  BY <1>3, <1>4 DEF Uniforms
<1>6. Reaches(tok, w, i)
  <2>1. i <= parents[c]
    BY <1>1 DEF Root
  <2> QED BY <2>1, <1>3, <1>4, ReachElsewhere
<1>7. ASSUME NEW j \in 1 .. (k - 1) PROVE ~Passes(tok, w, i, j)
  <2>1. j \in 1 .. m /\ j # k
    OBVIOUS
  <2>2. Kids(i)[j] \in 0 .. (n - 1) /\ Kids(i)[j] # c
    BY <2>1, <1>1 DEF HasKids
  <2>3. ~Passes(tok, u, i, j)
    BY <1>3 DEF Fails
  <2> QED BY <2>2, <2>3, <1>3, <1>4, PassElsewhere
<1> QED BY <1>4, <1>5, <1>6, <1>7 DEF Rejecting, Fails

\* Of the uniforms that reach a draft's test, t of G accept it; the rest reject it.
Shared(n, tok, i, k, t) ==
    LET N == Cardinality(Rejecting(n, tok, i, k - 1))
        A == Cardinality(Accepting(n, tok, i, k))
    IN  /\ N \in Nat /\ A \in Nat
        /\ A * G = t * N
        /\ Cardinality(Rejecting(n, tok, i, k)) = N - A
LEMMA Sharing ==
    ASSUME NEW n \in Nat, GrownTo(n), NEW tok, Drafted(tok, n), NEW i \in Root .. (n - 1),
           NEW m \in Nat, HasKids(n, i, m), NEW k \in 1 .. m,
           NEW t \in 0 .. G, t * Acc(tok, i, k)[2] = Acc(tok, i, k)[1] * G
    PROVE  Shared(n, tok, i, k, t)
<1>1. PICK c \in 0 .. (n - 1) : c = Kids(i)[k]
  BY DEF HasKids
<1>2. PICK R : R = Rejecting(n, tok, i, k - 1)
  OBVIOUS
<1>3. R \in SUBSET Uniforms(n) /\ FreeAt(R, c)
  BY <1>1, <1>2, RejectingFree DEF Rejecting
<1>4. PICK a \in Fraction : a = Acc(tok, i, k)
  <2>1. Rest(tok, i, k - 1) \in Nat
    BY RestIs
  <2>2. tok \in [0 .. (n - 1) -> Token]
    BY DEF Drafted
  <2> QED BY <2>1, <2>2, <1>1, AcceptType DEF Acc
<1>5. PICK b \in Nat : b = a[2] /\ b > 0
  BY <1>4 DEF Fraction
<1>6. G \in Nat
  BY SamplingAssumption
<1>7. ASSUME NEW u \in R PROVE Passes(tok, u, i, k) <=> u[c] < t
  <2>1. PICK v \in Nat : v = u[c]
    BY <1>3, <1>6 DEF Uniforms, Uniform
  <2>2. Passes(tok, u, i, k) <=> v * b < t * b
    BY <1>1, <1>4, <1>5, <2>1 DEF Passes
  <2>3. v * b < t * b <=> v < t
    BY <1>5
  <2> QED BY <2>1, <2>2, <2>3
<1>8. Accepting(n, tok, i, k) = Below(R, c, t)
  BY <1>2, <1>7 DEF Accepting, Below
<1>9. PICK A : A = Accepting(n, tok, i, k)
  OBVIOUS
<1>10. PICK B : B = Rejecting(n, tok, i, k)
  OBVIOUS
<1>11. B = R \ A
  <2>1. \A u \in Uniforms(n) : Fails(tok, u, i, k) <=> Fails(tok, u, i, k - 1) /\ ~Passes(tok, u, i, k)
    <3> SUFFICES ASSUME NEW u \in Uniforms(n)
                 PROVE  Fails(tok, u, i, k) <=> Fails(tok, u, i, k - 1) /\ ~Passes(tok, u, i, k)
      OBVIOUS
    <3>1. \A j : j \in 1 .. k <=> j \in 1 .. (k - 1) \/ j = k
      OBVIOUS
    <3> QED BY <3>1 DEF Fails
  <2> QED BY <2>1, <1>2, <1>9, <1>10 DEF Rejecting, Accepting
<1>12. A \in SUBSET R
  BY <1>2, <1>9 DEF Accepting
<1>13. IsFiniteSet(R) /\ IsFiniteSet(A) /\ IsFiniteSet(B)
  <2>1. IsFiniteSet(R)
    BY <1>3, UniformsFinite, FS_Subset
  <2> QED BY <2>1, <1>11, <1>12, FS_Subset
<1>14. Cardinality(R) \in Nat /\ Cardinality(A) \in Nat /\ Cardinality(B) \in Nat
  BY <1>13, FS_CardinalityType
<1>15. Cardinality(R) = Cardinality(B) + Cardinality(A)
  <2>1. R = B \cup A /\ B \cap A = {}
    BY <1>11, <1>12
  <2>2. Cardinality(R) = Cardinality(B) + Cardinality(A) - Cardinality({})
    BY <2>1, <1>13, FS_Union
  <2> QED BY <2>2, <1>14, FS_EmptySet
<1>16. Cardinality(A) * G = t * Cardinality(R)
  BY <1>3, <1>8, <1>9, ShareBelow
<1>17. Cardinality(B) = Cardinality(R) - Cardinality(A)
  BY <1>14, <1>15
<1> QED BY <1>2, <1>9, <1>10, <1>14, <1>16, <1>17 DEF Shared

----------------------------------------------------------------------------
(***************************************************************************)
(* The share of the uniforms that each test accepts.                       *)
(***************************************************************************)
\* t of the G uniforms pass a test against a; under the exact rule they are p of rest.
Threshold(t, a, p, rest) ==
    /\ t \in 0 .. G /\ t * a[2] = a[1] * G
    /\ params.rule = "exact" => t * rest = p * G

\* The uniforms divide every test of an argmax draft exactly.
LEMMA ThresholdIs ==
    ASSUME NEW n \in Nat, GrownTo(n), ~params.sample, NEW tok, NEW c \in 0 .. (n - 1),
           NEW rest \in 0 .. W, NEW p \in 0 .. rest, p = Pn(tok, c)
    PROVE  \E t : Threshold(t, Accept(tok, c, rest), p, rest)
<1>0. G \in Nat /\ W \in Nat /\ W > 0 /\ G > 0 /\ \A k \in 1 .. W : \E t \in 1 .. G : G = k * t
  BY SamplingAssumption
<1>1. draft_q[c] = Point /\ power[c] \in 1 .. G
  BY DEF GrownTo
<1>2. params.rule \in {"exact", "power", "relaxed"}
  BY SamplingAssumption DEF GrownTo
<1>3. rest \in Nat /\ p \in Nat /\ p <= rest /\ rest <= W
  BY <1>0
<1>4. PICK a : a = Ratio(tok, c, rest)
  OBVIOUS
<1>5. /\ W * rest = 0 => a = IF p > 0 THEN One ELSE Zero
      /\ W * rest # 0 => a = IF p * W >= W * rest THEN One ELSE <<p * W, W * rest>>
  BY <1>1, <1>4 DEF Ratio
<1>6. \/ a = Zero /\ p = 0 /\ rest = 0
      \/ a = One /\ p = rest
      \/ a = <<p * W, W * rest>> /\ p < rest
  <2>1. CASE rest = 0
    <3>1. W * rest = 0 /\ p = 0
      BY <2>1, <1>0, <1>3
    <3> QED BY <3>1, <2>1, <1>5
  <2>2. CASE rest # 0
    <3>1. W * rest # 0
      BY <2>2, <1>0, <1>3
    <3>2. p * W >= W * rest <=> p >= rest
      BY <1>0, <1>3
    <3>3. CASE p >= rest
      <4>1. p = rest
        BY <3>3, <1>3
      <4> QED BY <4>1, <3>1, <3>2, <3>3, <1>5
    <3>4. CASE ~(p >= rest)
      <4>1. p < rest
        BY <3>4, <1>3
      <4> QED BY <4>1, <3>1, <3>2, <3>4, <1>5
    <3> QED BY <3>3, <3>4
  <2> QED BY <2>1, <2>2
<1>7. \E t \in 0 .. G : t * a[2] = a[1] * G /\ t * rest = p * G
  <2>1. CASE a = Zero /\ p = 0 /\ rest = 0
    <3>1. 0 * a[2] = a[1] * G /\ 0 * rest = p * G /\ 0 \in 0 .. G
      BY <2>1, <1>0 DEF Zero
    <3> QED BY <3>1
  <2>2. CASE a = One /\ p = rest
    <3>1. G * a[2] = a[1] * G /\ G * rest = p * G /\ G \in 0 .. G
      BY <2>2, <1>0, <1>3 DEF One
    <3> QED BY <3>1
  <2>3. CASE a = <<p * W, W * rest>> /\ p < rest
    <3>1. rest \in 1 .. W
      BY <2>3, <1>3
    <3>2. PICK g \in 1 .. G : G = rest * g
      BY <3>1, <1>0
    <3>3. (p * g) * (W * rest) = (p * W) * (rest * g) /\ (p * g) * rest = p * (rest * g)
      BY <1>0, <1>3, <3>2
    <3>4. p * g <= rest * g /\ p * g \in Nat
      BY <1>0, <1>3, <3>2
    <3>5. p * g \in 0 .. G
      BY <3>2, <3>4, <1>0
    <3>6. (p * g) * a[2] = a[1] * G /\ (p * g) * rest = p * G
      BY <2>3, <3>2, <3>3
    <3> QED BY <3>5, <3>6
  <2> QED BY <2>1, <2>2, <2>3, <1>6
<1>8. CASE params.rule = "exact"
  <2>1. Accept(tok, c, rest) = a
    BY <1>8, <1>4 DEF Accept
  <2> QED BY <2>1, <1>7 DEF Threshold
<1>9. CASE params.rule = "power"
  <2>1. Accept(tok, c, rest) = IF a = One \/ a[1] = 0 THEN a ELSE <<power[c], G>>
    BY <1>9, <1>4 DEF Accept
  <2>2. CASE a = One \/ a[1] = 0
    BY <2>1, <2>2, <1>7, <1>9 DEF Threshold
  <2>3. CASE ~(a = One \/ a[1] = 0)
    <3>1. Accept(tok, c, rest) = <<power[c], G>>
      BY <2>1, <2>3
    <3>2. power[c] \in 0 .. G
      BY <1>0, <1>1
    <3>3. Threshold(power[c], Accept(tok, c, rest), p, rest)
      BY <3>1, <3>2, <1>9 DEF Threshold
    <3> QED BY <3>3
  <2> QED BY <2>2, <2>3
<1>10. CASE params.rule = "relaxed"
  <2>1. Accept(tok, c, rest) = One \/ Accept(tok, c, rest) = Zero
    BY <1>10 DEF Accept
  <2>2. Threshold(G, One, p, rest) /\ Threshold(0, Zero, p, rest)
    BY <1>0, <1>10 DEF Threshold, One, Zero
  <2> QED BY <2>1, <2>2
<1> QED BY <1>2, <1>8, <1>9, <1>10

\* Shares of the same number.
LEMMA Alike ==
    ASSUME NEW g \in Nat, g > 0, NEW t \in Nat, NEW a \in Nat, NEW m \in Nat, NEW b \in Nat,
           NEW c \in Nat, a * g = t * m, t * b = c * g
    PROVE  a * b = c * m
<1>1. (a * b) * g = (a * g) * b
  OBVIOUS
<1>2. (a * g) * b = (t * b) * m
  <2>1. (t * m) * b = (t * b) * m
    OBVIOUS
  <2> QED BY <2>1
<1>3. (c * g) * m = (c * m) * g
  OBVIOUS
<1>4. (a * b) * g = (c * m) * g
  BY <1>1, <1>2, <1>3
<1>5. PICK x \in Nat, y \in Nat : x = a * b /\ y = c * m
  OBVIOUS
<1>6. x * g = y * g => x = y
  OBVIOUS
<1> QED BY <1>4, <1>5, <1>6

\* Of the uniforms that reach a draft's test, the share that accept it is the accept
\* probability, and under the exact rule what the draft has of the rest of its row.
Splits(n, tok, i, k) ==
    LET N == Cardinality(Rejecting(n, tok, i, k - 1))
        A == Cardinality(Accepting(n, tok, i, k))
    IN  /\ N \in Nat /\ A \in Nat /\ Cardinality(Rejecting(n, tok, i, k)) = N - A
        /\ N - A \in Nat
        /\ A * Acc(tok, i, k)[2] = Acc(tok, i, k)[1] * N
        /\ params.rule = "exact" => A * Rest(tok, i, k - 1) = Pn(tok, Kids(i)[k]) * N
LEMMA SplitsAre ==
    ASSUME NEW n \in Nat, GrownTo(n), ~params.sample, NEW tok, Drafted(tok, n),
           NEW i \in Root .. (n - 1), NEW m \in Nat, HasKids(n, i, m), NEW k \in 1 .. m
    PROVE  Splits(n, tok, i, k)
<1>0. G \in Nat /\ G > 0 /\ W \in Nat
  BY SamplingAssumption
<1>1. PICK c \in 0 .. (n - 1) : c = Kids(i)[k]
  BY DEF HasKids
<1>2. PICK rest \in 0 .. W : rest = Rest(tok, i, k - 1)
  BY RestIs
<1>3. PICK p \in 0 .. rest : p = Pn(tok, c)
  <2>1. Falls(tok, i, k)
    BY RestFalls
  <2>2. Pn(tok, c) \in Nat /\ Pn(tok, c) <= rest
    BY <2>1, <1>1, <1>2 DEF Falls
  <2> QED BY <2>2, <1>0
<1>4. PICK a \in Fraction : a = Acc(tok, i, k)
  <2>1. Rest(tok, i, k - 1) \in Nat
    BY RestIs
  <2>2. tok \in [0 .. (n - 1) -> Token]
    BY DEF Drafted
  <2> QED BY <2>1, <2>2, <1>1, AcceptType DEF Acc
<1>5. PICK t : Threshold(t, a, p, rest)
  BY <1>1, <1>2, <1>3, <1>4, ThresholdIs DEF Acc
<1>6. t \in 0 .. G /\ t * a[2] = a[1] * G
  BY <1>5 DEF Threshold
<1>7. Shared(n, tok, i, k, t)
  BY <1>4, <1>6, Sharing
<1>8. PICK a1 \in Nat, a2 \in Nat : a1 = a[1] /\ a2 = a[2]
  BY <1>4 DEF Fraction
<1>9. PICK N \in Nat, A \in Nat : /\ N = Cardinality(Rejecting(n, tok, i, k - 1))
                                  /\ A = Cardinality(Accepting(n, tok, i, k))
                                  /\ A * G = t * N
                                  /\ Cardinality(Rejecting(n, tok, i, k)) = N - A
  BY <1>7 DEF Shared
<1>10. A * a2 = a1 * N
  <2>1. t \in Nat /\ t * a2 = a1 * G /\ A * G = t * N
    BY <1>0, <1>6, <1>8, <1>9
  <2> QED BY <2>1, <1>0, Alike
<1>11. params.rule = "exact" => A * rest = p * N
  <2> SUFFICES ASSUME params.rule = "exact" PROVE A * rest = p * N
    OBVIOUS
  <2>1. t * rest = p * G
    BY <1>5 DEF Threshold
  <2>2. rest \in Nat /\ p \in Nat /\ t \in Nat /\ A * G = t * N
    BY <1>0, <1>6, <1>9
  <2> QED BY <2>1, <2>2, <1>0, Alike
<1>12. N - A \in Nat
  <2>1. PICK B : B = Rejecting(n, tok, i, k)
    OBVIOUS
  <2>2. B \in SUBSET Uniforms(n)
    BY <2>1 DEF Rejecting
  <2>3. IsFiniteSet(B)
    BY <2>2, UniformsFinite, FS_Subset
  <2>4. Cardinality(B) \in Nat
    BY <2>3, FS_CardinalityType
  <2> QED BY <2>1, <2>4, <1>9
<1> QED BY <1>1, <1>2, <1>3, <1>4, <1>8, <1>9, <1>10, <1>11, <1>12 DEF Splits

----------------------------------------------------------------------------
(***************************************************************************)
(* The recorded probability.                                               *)
(***************************************************************************)
Pairs == Int \X Int

\* The products of the rejections, and what they leave.
AllOf(rej) ==
    LET all[k \in 0 .. Len(rej)] == IF k = 0 THEN One ELSE Times(all[k - 1], Not(rej[k][1]))
    IN  all
LeftOf(rej) ==
    LET left[k \in 0 .. Len(rej)] == IF k = 0 THEN One ELSE Minus(left[k - 1], rej[k][2])
    IN  left

Products(f, rej, m) ==
    /\ f \in [0 .. m -> Pairs] /\ f[0] = One
    /\ \A k \in 1 .. m : f[k] = Times(f[k - 1], Not(rej[k][1]))
Remains(f, rej, m) ==
    /\ f \in [0 .. m -> Pairs] /\ f[0] = One
    /\ \A k \in 1 .. m : f[k] = Minus(f[k - 1], rej[k][2])

\* What the loop multiplies is a pair at every sibling.
LEMMA ProductsAre ==
    ASSUME NEW m \in Nat, NEW rej, Len(rej) = m, \A k \in 1 .. m : rej[k][1] \in Pairs
    PROVE  Products(AllOf(rej), rej, m)
<1> DEFINE step == [k \in 1 .. m |-> [s \in Pairs |-> Times(s, Not(rej[k][1]))]]
           Good(h) == h = [k \in 0 .. m |-> IF k = 0 THEN One ELSE Times(h[k - 1], Not(rej[k][1]))]
<1>1. One \in Pairs
  BY DEF One, Pairs
<1>2. step \in [1 .. m -> [Pairs -> Pairs]]
  <2>1. ASSUME NEW k \in 1 .. m, NEW s \in Pairs PROVE Times(s, Not(rej[k][1])) \in Pairs
    <3>1. PICK a \in Pairs : a = rej[k][1]
      OBVIOUS
    <3>2. a[1] \in Int /\ a[2] \in Int /\ s[1] \in Int /\ s[2] \in Int
      BY DEF Pairs
    <3>3. Times(s, Not(a)) = <<s[1] * (a[2] - a[1]), s[2] * a[2]>>
      BY DEF Times, Not
    <3> QED BY <3>1, <3>2, <3>3 DEF Pairs
  <2> QED BY <2>1
<1>3. PICK f \in [0 .. m -> Pairs] : Iterates(f, m, One, step)
  <2> HIDE DEF step
  <2> QED BY <1>1, <1>2, Recursion
<1>4. ASSUME NEW k \in 0 .. m
      PROVE  f[k] = IF k = 0 THEN One ELSE Times(f[k - 1], Not(rej[k][1]))
  <2>1. f[k] = IF k = 0 THEN One ELSE step[k][f[k - 1]]
    BY <1>3 DEF Iterates
  <2>2. k # 0 => k \in 1 .. m /\ f[k - 1] \in Pairs
    BY <1>3
  <2>3. k # 0 => step[k][f[k - 1]] = Times(f[k - 1], Not(rej[k][1]))
    BY <2>2
  <2> HIDE DEF step
  <2> QED BY <2>1, <2>3
<1>5. Good(f)
  <2> HIDE DEF step
  <2>1. f = [k \in 0 .. m |-> f[k]]
    BY <1>3
  <2> QED BY <2>1, <1>4
<1>6. \E h : Good(h)
  <2> HIDE DEF Good
  <2> QED BY <1>5
<1>7. PICK g : g = (CHOOSE h : Good(h))
  OBVIOUS
<1>8. Good(g)
  <2> HIDE DEF Good
  <2> QED BY <1>6, <1>7
<1>9. AllOf(rej) = g
  BY <1>7 DEF AllOf
<1>10. g[0] = One /\ \A k \in 1 .. m : g[k] = Times(g[k - 1], Not(rej[k][1]))
  <2>1. \A k \in 0 .. m : g[k] = IF k = 0 THEN One ELSE Times(g[k - 1], Not(rej[k][1]))
    BY <1>8
  <2>2. ASSUME NEW k \in 1 .. m PROVE g[k] = Times(g[k - 1], Not(rej[k][1]))
    <3>1. k \in 0 .. m /\ k # 0
      OBVIOUS
    <3> QED BY <3>1, <2>1
  <2> QED BY <2>1, <2>2
<1>11. g = [k \in 0 .. m |-> g[k]]
  BY <1>8
<1> HIDE DEF Good, step
<1> DEFINE G0 == {k \in 0 .. m : g[k] = f[k]}
<1>12. 0 \in G0
  BY <1>4, <1>10
<1>13. ASSUME NEW k \in 0 .. (m - 1), k \in G0 PROVE k + 1 \in G0
  <2>1. k + 1 \in 1 .. m /\ (k + 1) - 1 = k /\ k + 1 \in 0 .. m /\ k + 1 # 0
    OBVIOUS
  <2>2. g[k + 1] = Times(g[k], Not(rej[k + 1][1])) /\ f[k + 1] = Times(f[k], Not(rej[k + 1][1]))
    BY <2>1, <1>4, <1>10
  <2> QED BY <2>1, <2>2, <1>13
<1> HIDE DEF G0
<1>14. \A k \in 0 .. m : k \in G0
  BY <1>12, <1>13, Induct
<1>15. g \in [0 .. m -> Pairs]
  <2>1. \A k \in 0 .. m : g[k] \in Pairs
    BY <1>3, <1>14 DEF G0
  <2> QED BY <2>1, <1>11
<1> QED BY <1>9, <1>10, <1>15 DEF Products

\* What the loop subtracts from is a pair at every sibling.
LEMMA RemainsAre ==
    ASSUME NEW m \in Nat, NEW rej, Len(rej) = m, \A k \in 1 .. m : rej[k][2] \in Pairs
    PROVE  Remains(LeftOf(rej), rej, m)
<1> DEFINE step == [k \in 1 .. m |-> [s \in Pairs |-> Minus(s, rej[k][2])]]
           Good(h) == h = [k \in 0 .. m |-> IF k = 0 THEN One ELSE Minus(h[k - 1], rej[k][2])]
<1>1. One \in Pairs
  BY DEF One, Pairs
<1>2. step \in [1 .. m -> [Pairs -> Pairs]]
  <2>1. ASSUME NEW k \in 1 .. m, NEW s \in Pairs PROVE Minus(s, rej[k][2]) \in Pairs
    <3>1. PICK a \in Pairs : a = rej[k][2]
      OBVIOUS
    <3>2. a[1] \in Int /\ a[2] \in Int /\ s[1] \in Int /\ s[2] \in Int
      BY DEF Pairs
    <3>3. Minus(s, a) = <<s[1] * a[2] - a[1] * s[2], s[2] * a[2]>>
      BY DEF Minus
    <3> QED BY <3>1, <3>2, <3>3 DEF Pairs
  <2> QED BY <2>1
<1>3. PICK f \in [0 .. m -> Pairs] : Iterates(f, m, One, step)
  <2> HIDE DEF step
  <2> QED BY <1>1, <1>2, Recursion
<1>4. ASSUME NEW k \in 0 .. m
      PROVE  f[k] = IF k = 0 THEN One ELSE Minus(f[k - 1], rej[k][2])
  <2>1. f[k] = IF k = 0 THEN One ELSE step[k][f[k - 1]]
    BY <1>3 DEF Iterates
  <2>2. k # 0 => k \in 1 .. m /\ f[k - 1] \in Pairs
    BY <1>3
  <2>3. k # 0 => step[k][f[k - 1]] = Minus(f[k - 1], rej[k][2])
    BY <2>2
  <2> HIDE DEF step
  <2> QED BY <2>1, <2>3
<1>5. Good(f)
  <2> HIDE DEF step
  <2>1. f = [k \in 0 .. m |-> f[k]]
    BY <1>3
  <2> QED BY <2>1, <1>4
<1>6. \E h : Good(h)
  <2> HIDE DEF Good
  <2> QED BY <1>5
<1>7. PICK g : g = (CHOOSE h : Good(h))
  OBVIOUS
<1>8. Good(g)
  <2> HIDE DEF Good
  <2> QED BY <1>6, <1>7
<1>9. LeftOf(rej) = g
  BY <1>7 DEF LeftOf
<1>10. g[0] = One /\ \A k \in 1 .. m : g[k] = Minus(g[k - 1], rej[k][2])
  <2>1. \A k \in 0 .. m : g[k] = IF k = 0 THEN One ELSE Minus(g[k - 1], rej[k][2])
    BY <1>8
  <2>2. ASSUME NEW k \in 1 .. m PROVE g[k] = Minus(g[k - 1], rej[k][2])
    <3>1. k \in 0 .. m /\ k # 0
      OBVIOUS
    <3> QED BY <3>1, <2>1
  <2> QED BY <2>1, <2>2
<1>11. g = [k \in 0 .. m |-> g[k]]
  BY <1>8
<1> HIDE DEF Good, step
<1> DEFINE G0 == {k \in 0 .. m : g[k] = f[k]}
<1>12. 0 \in G0
  BY <1>4, <1>10
<1>13. ASSUME NEW k \in 0 .. (m - 1), k \in G0 PROVE k + 1 \in G0
  <2>1. k + 1 \in 1 .. m /\ (k + 1) - 1 = k /\ k + 1 \in 0 .. m /\ k + 1 # 0
    OBVIOUS
  <2>2. g[k + 1] = Minus(g[k], rej[k + 1][2]) /\ f[k + 1] = Minus(f[k], rej[k + 1][2])
    BY <2>1, <1>4, <1>10
  <2> QED BY <2>1, <2>2, <1>13
<1> HIDE DEF G0
<1>14. \A k \in 0 .. m : k \in G0
  BY <1>12, <1>13, Induct
<1>15. g \in [0 .. m -> Pairs]
  <2>1. \A k \in 0 .. m : g[k] \in Pairs
    BY <1>3, <1>14 DEF G0
  <2> QED BY <2>1, <1>11
<1> QED BY <1>9, <1>10, <1>15 DEF Remains

\* behavior_logprob, its sums done.
LEMMA BehaviorIs ==
    ASSUME NEW source, NEW sample, NEW rej, NEW accept, NEW exact
    PROVE  BehaviorProb(source, sample, rej, accept, exact) =
               LET m    == Len(rej)
                   none == AllOf(rej)[m]
                   left == LeftOf(rej)[m]
               IN  IF exact \/ (source = "bonus" /\ rej = << >>) THEN sample
                   ELSE CASE source = "draft"    -> Times(none, accept)
                          [] source = "resample" -> Times(Times(none, sample), <<left[2], left[1]>>)
                          [] OTHER               -> Times(none, sample)
  BY DEF BehaviorProb, AllOf, LeftOf

\* The tests and target probabilities of the first k drafts of row i.
Tests(rej, tok, i, k) ==
    /\ Len(rej) = k
    /\ \A j \in 1 .. k : rej[j] = <<Acc(tok, i, j), <<Pn(tok, Kids(i)[j]), Total(P(i))>>>>

\* The share of the uniforms that reject k drafts is the product recorded for them, what they
\* leave of the row is the remainder recorded for them, and under the exact rule the two are
\* the same.
Balanced(n, tok, i, all, left, k) ==
    LET N0 == Cardinality(Rejecting(n, tok, i, 0))
        N  == Cardinality(Rejecting(n, tok, i, k))
    IN  /\ N0 \in Nat /\ N \in Nat
        /\ N * all[2] = all[1] * N0
        /\ left[1] * Total(P(i)) = Rest(tok, i, k) * left[2]
        /\ params.rule = "exact" => N * Total(P(i)) = Rest(tok, i, k) * N0

\* The arithmetic of one rejection.
LEMMA RejectsOne ==
    ASSUME NEW N \in Nat, NEW N0 \in Nat, NEW A \in Nat, NEW a1 \in Int, NEW a2 \in Int, NEW x1 \in Int, NEW x2 \in Int,
           A * a2 = a1 * N, N * x2 = x1 * N0
    PROVE  (N - A) * (x2 * a2) = (x1 * (a2 - a1)) * N0
<1>1. (N - A) * (x2 * a2) = (N * a2) * x2 - (A * a2) * x2
  OBVIOUS
<1>2. (N * a2) * x2 - (a1 * N) * x2 = (N * x2) * (a2 - a1)
  OBVIOUS
<1>3. (x1 * N0) * (a2 - a1) = (x1 * (a2 - a1)) * N0
  OBVIOUS
<1> QED BY <1>1, <1>2, <1>3

\* A fraction less another, over a common sum.
LEMMA LeavesOne ==
    ASSUME NEW T \in Nat, NEW R \in Nat, NEW p \in Nat, NEW l1 \in Int, NEW l2 \in Int, l1 * T = R * l2
    PROVE  (l1 * T - p * l2) * T = (R - p) * (l2 * T)
<1>1. (R * l2 - p * l2) * T = (R - p) * (l2 * T)
  OBVIOUS
<1> QED BY <1>1

\* The share a sibling takes of the uniforms that reach it, against all of them.
LEMMA TakesOne ==
    ASSUME NEW T \in Nat, T > 0, NEW R \in Nat, NEW p \in Nat, p <= R,
           NEW N \in Nat, NEW N0 \in Nat, NEW A \in Nat, A <= N, N * T = R * N0, A * R = p * N
    PROVE  A * T = p * N0
<1>1. CASE R = 0
  <2>1. N * T = 0
    BY <1>1
  <2>2. N = 0
    BY <2>1
  <2>3. A = 0 /\ p = 0
    BY <2>2, <1>1
  <2> QED BY <2>3
<1>2. CASE R > 0
  <2>1. (A * T) * R = (A * R) * T /\ (p * N) * T = p * (N * T) /\ p * (R * N0) = (p * N0) * R
    OBVIOUS
  <2>2. (A * T) * R = (p * N0) * R
    BY <2>1
  <2>3. PICK x \in Nat, y \in Nat : x = A * T /\ y = p * N0
    OBVIOUS
  <2>4. x * R = y * R => x = y
    BY <1>2
  <2> QED BY <2>2, <2>3, <2>4
<1> QED BY <1>1, <1>2

\* The share it leaves.
LEMMA KeepsOne ==
    ASSUME NEW T \in Nat, T > 0, NEW R \in Nat, NEW p \in Nat, p <= R,
           NEW N \in Nat, NEW N0 \in Nat, NEW A \in Nat, A <= N, N * T = R * N0, A * R = p * N
    PROVE  (N - A) * T = (R - p) * N0
<1>1. A * T = p * N0
  BY TakesOne
<1>2. (N - A) * T = N * T - A * T /\ (R - p) * N0 = R * N0 - p * N0
  OBVIOUS
<1> QED BY <1>1, <1>2

\* Before the first sibling nothing is taken and all is left.
LEMMA BalancedNone ==
    ASSUME NEW n \in Nat, GrownTo(n), NEW i \in Root .. (n - 1), NEW tok, NEW all, NEW left,
           all = One, left = One
    PROVE  Balanced(n, tok, i, all, left, 0)
<1>1. PICK B : B = Rejecting(n, tok, i, 0)
  OBVIOUS
<1>2. B \in SUBSET Uniforms(n)
  BY <1>1 DEF Rejecting
<1>3. IsFiniteSet(B)
  BY <1>2, UniformsFinite, FS_Subset
<1>4. PICK N \in Nat : N = Cardinality(B)
  BY <1>3, FS_CardinalityType
<1>5. PICK T \in Nat : T = Total(P(i))
  BY RowIs
<1>6. Rest(tok, i, 0) = T
  BY <1>5, RestWhole
<1>7. N * 1 = 1 * N /\ 1 * T = T * 1 /\ N * T = T * N
  OBVIOUS
<1> QED BY <1>1, <1>4, <1>5, <1>6, <1>7 DEF Balanced, One

\* One draft more.
LEMMA BalancedNext ==
    ASSUME NEW n \in Nat, GrownTo(n), ~params.sample, NEW tok, Drafted(tok, n),
           NEW i \in Root .. (n - 1), NEW m \in Nat, HasKids(n, i, m), NEW k \in 1 .. m,
           NEW x \in Pairs, NEW l \in Pairs, Balanced(n, tok, i, x, l, k - 1),
           NEW y, y = Times(x, Not(Acc(tok, i, k))),
           NEW e, e = Minus(l, <<Pn(tok, Kids(i)[k]), Total(P(i))>>)
    PROVE  Balanced(n, tok, i, y, e, k)
<1>1. PICK x1 \in Int, x2 \in Int : x = <<x1, x2>>
  BY DEF Pairs
<1>2. PICK l1 \in Int, l2 \in Int : l = <<l1, l2>>
  BY DEF Pairs
<1>3. PICK a1 \in Nat, a2 \in Nat : Acc(tok, i, k) = <<a1, a2>>
  <2>1. Rest(tok, i, k - 1) \in Nat
    BY RestIs, SamplingAssumption
  <2>2. tok \in [0 .. (n - 1) -> Token] /\ Kids(i)[k] \in 0 .. (n - 1)
    BY DEF Drafted, HasKids
  <2>3. Acc(tok, i, k) \in Fraction
    BY <2>1, <2>2, AcceptType DEF Acc
  <2> QED BY <2>3 DEF Fraction
<1>4. PICK R \in Nat, p \in Nat : /\ R = Rest(tok, i, k - 1) /\ p = Pn(tok, Kids(i)[k])
                                  /\ p <= R /\ Rest(tok, i, k) = R - p
  <2>1. Rest(tok, i, k - 1) \in Nat
    BY RestIs, SamplingAssumption
  <2>2. Falls(tok, i, k)
    BY RestFalls
  <2> QED BY <2>1, <2>2 DEF Falls
<1>5. PICK T \in Nat : T = Total(P(i)) /\ T > 0
  BY RowIs
<1>6. PICK N \in Nat, A \in Nat :
          /\ N = Cardinality(Rejecting(n, tok, i, k - 1)) /\ N - A \in Nat
          /\ Cardinality(Rejecting(n, tok, i, k)) = N - A
          /\ A * a2 = a1 * N
          /\ params.rule = "exact" => A * R = p * N
  <2>1. Splits(n, tok, i, k)
    BY SplitsAre
  <2> QED BY <2>1, <1>3, <1>4 DEF Splits
<1>7. PICK N0 \in Nat : /\ N0 = Cardinality(Rejecting(n, tok, i, 0))
                        /\ N * x2 = x1 * N0 /\ l1 * T = R * l2
                        /\ params.rule = "exact" => N * T = R * N0
  BY <1>1, <1>2, <1>4, <1>5, <1>6 DEF Balanced
<1>8. y = <<x1 * (a2 - a1), x2 * a2>>
  BY <1>1, <1>3 DEF Times, Not
<1>9. e = <<l1 * T - p * l2, l2 * T>>
  BY <1>2, <1>4, <1>5 DEF Minus
<1>10. (N - A) * (x2 * a2) = (x1 * (a2 - a1)) * N0
  <2>1. A * a2 = a1 * N /\ N * x2 = x1 * N0 /\ a1 \in Int /\ a2 \in Int
    BY <1>6, <1>7
  <2> QED BY <2>1, RejectsOne
<1>11. (l1 * T - p * l2) * T = (R - p) * (l2 * T)
  <2>1. l1 * T = R * l2
    BY <1>7
  <2> QED BY <2>1, LeavesOne
<1>12. params.rule = "exact" => (N - A) * T = (R - p) * N0
  <2> SUFFICES ASSUME params.rule = "exact" PROVE (N - A) * T = (R - p) * N0
    OBVIOUS
  <2>1. A <= N
    BY <1>6
  <2>2. T > 0 /\ p <= R /\ N * T = R * N0 /\ A * R = p * N
    BY <1>4, <1>5, <1>6, <1>7
  <2> QED BY <2>1, <2>2, KeepsOne
<1>13. y[1] = x1 * (a2 - a1) /\ y[2] = x2 * a2 /\ e[1] = l1 * T - p * l2 /\ e[2] = l2 * T
  BY <1>8, <1>9
<1> QED BY <1>4, <1>5, <1>6, <1>7, <1>10, <1>11, <1>12, <1>13 DEF Balanced

\* All of them.
LEMMA BalancedAll ==
    ASSUME NEW n \in Nat, GrownTo(n), ~params.sample, NEW tok, Drafted(tok, n),
           NEW i \in Root .. (n - 1), NEW m \in Nat, HasKids(n, i, m), NEW k \in 0 .. m,
           NEW rej, Tests(rej, tok, i, k)
    PROVE  /\ AllOf(rej)[k] \in Pairs /\ LeftOf(rej)[k] \in Pairs
           /\ Balanced(n, tok, i, AllOf(rej)[k], LeftOf(rej)[k], k)
<1>1. PICK T \in Nat : T = Total(P(i))
  BY RowIs
<1>2. Len(rej) = k /\ \A j \in 1 .. k : rej[j] = <<Acc(tok, i, j), <<Pn(tok, Kids(i)[j]), T>>>>
  BY <1>1 DEF Tests
<1>3. ASSUME NEW j \in 1 .. k PROVE rej[j][1] \in Pairs /\ rej[j][2] \in Pairs
  <2>1. j \in 1 .. m
    OBVIOUS
  <2>2. tok \in [0 .. (n - 1) -> Token] /\ Kids(i)[j] \in 0 .. (n - 1)
    BY <2>1 DEF Drafted, HasKids
  <2>3. Rest(tok, i, j - 1) \in Nat
    BY RestIs, SamplingAssumption
  <2>4. Acc(tok, i, j) \in Fraction /\ Pn(tok, Kids(i)[j]) \in Nat
    BY <2>2, <2>3, AcceptType DEF Acc
  <2>5. Acc(tok, i, j) \in Pairs /\ <<Pn(tok, Kids(i)[j]), T>> \in Pairs
    BY <2>4 DEF Fraction, Pairs
  <2> QED BY <2>5, <1>2
<1>4. PICK all : all = AllOf(rej) /\ Products(all, rej, k)
  BY <1>2, <1>3, ProductsAre
<1>5. PICK left : left = LeftOf(rej) /\ Remains(left, rej, k)
  BY <1>2, <1>3, RemainsAre
<1>6. all \in [0 .. k -> Pairs] /\ left \in [0 .. k -> Pairs] /\ all[0] = One /\ left[0] = One
  BY <1>4, <1>5 DEF Products, Remains
<1>7. \A j \in 1 .. k : /\ all[j] = Times(all[j - 1], Not(Acc(tok, i, j)))
                        /\ left[j] = Minus(left[j - 1], <<Pn(tok, Kids(i)[j]), T>>)
  <2> SUFFICES ASSUME NEW j \in 1 .. k
               PROVE  /\ all[j] = Times(all[j - 1], Not(Acc(tok, i, j)))
                      /\ left[j] = Minus(left[j - 1], <<Pn(tok, Kids(i)[j]), T>>)
    OBVIOUS
  <2>1. all[j] = Times(all[j - 1], Not(rej[j][1])) /\ left[j] = Minus(left[j - 1], rej[j][2])
    BY <1>4, <1>5 DEF Products, Remains
  <2>2. rej[j][1] = Acc(tok, i, j) /\ rej[j][2] = <<Pn(tok, Kids(i)[j]), T>>
    BY <1>2
  <2> QED BY <2>1, <2>2
<1> DEFINE G0 == {j \in 0 .. k : Balanced(n, tok, i, all[j], left[j], j)}
<1>8. 0 \in G0
  BY <1>6, BalancedNone
<1>9. ASSUME NEW j \in 0 .. (k - 1), j \in G0 PROVE j + 1 \in G0
  <2>1. PICK h \in 1 .. m : h = j + 1
    OBVIOUS
  <2>2. h \in 1 .. k /\ h - 1 = j /\ h \in 0 .. k
    BY <2>1
  <2>3. PICK x \in Pairs, l \in Pairs : x = all[j] /\ l = left[j]
    BY <1>6
  <2>4. Balanced(n, tok, i, x, l, h - 1)
    BY <2>2, <2>3, <1>9
  <2>5. PICK y : y = Times(x, Not(Acc(tok, i, h)))
    OBVIOUS
  <2>6. PICK e : e = Minus(l, <<Pn(tok, Kids(i)[h]), Total(P(i))>>)
    OBVIOUS
  <2>7. Balanced(n, tok, i, y, e, h)
    BY <2>4, <2>5, <2>6, BalancedNext
  <2>8. all[h] = y /\ left[h] = e
    BY <2>2, <2>3, <2>5, <2>6, <1>1, <1>7
  <2>9. h \in G0
    BY <2>2, <2>7, <2>8
  <2> QED BY <2>1, <2>9
<1> HIDE DEF G0
<1>10. \A j \in 0 .. k : j \in G0
  BY <1>8, <1>9, Induct
<1>11. k \in 0 .. k /\ k \in G0
  BY <1>10
<1> QED BY <1>4, <1>5, <1>6, <1>11 DEF G0

----------------------------------------------------------------------------
(***************************************************************************)
(* Draws.                                                                  *)
(***************************************************************************)
\* A uniform draws the token whose share of the sum it falls in.
LEMMA DrawIs ==
    ASSUME NEW w \in Weights, NEW t \in Nat, t > 0, G = Total(w) * t, NEW v \in Uniform
    PROVE  /\ Draw(w, v) \in Token
           /\ \A x \in Token : Draw(w, v) = x <=> Upto(w, x - 1) * t <= v /\ v < Upto(w, x) * t
<1>0. G \in Nat /\ G > 0 /\ Vocab \in Nat /\ Vocab > 0 /\ v \in Nat /\ v < G /\ Token = 1 .. Vocab
  BY SamplingAssumption DEF Uniform, Token
<1>1. PICK total \in Nat : total = Total(w) /\ Upto(w, Vocab) = total
  BY RowSums
<1>2. total > 0
  BY <1>0, <1>1
<1>3. \A x \in 0 .. Vocab : Upto(w, x) \in Nat
  BY RowSums
<1>4. ASSUME NEW x \in 0 .. Vocab PROVE Upto(w, x) * G > v * total <=> v < Upto(w, x) * t
  <2>1. PICK s \in Nat : s = Upto(w, x)
    BY <1>3
  <2>2. s * (total * t) = (s * t) * total /\ s * t \in Nat
    OBVIOUS
  <2>3. PICK r \in Nat : r = s * t
    BY <2>2
  <2>4. r * total > v * total <=> v < r
    BY <1>0, <1>2
  <2> QED BY <2>1, <2>2, <2>3, <2>4, <1>1
<1>5. PICK hit : hit = {x \in Token : Upto(w, x) * G > v * total}
  OBVIOUS
<1>6. hit = {x \in Token : v < Upto(w, x) * t}
  BY <1>0, <1>4, <1>5
<1>7. Vocab \in hit
  <2>1. total * t = G
    BY <1>1
  <2>2. Vocab \in Token /\ v < Upto(w, Vocab) * t
    BY <2>1, <1>0, <1>1
  <2> QED BY <2>2, <1>6
<1>8. Draw(w, v) = Min(hit)
  BY <1>1, <1>5, <1>7 DEF Draw
<1>9. PICK z : z = Min(hit)
  OBVIOUS
<1>10. z \in hit /\ \A y \in hit : z <= y
  <2>1. hit \subseteq Nat /\ hit # {}
    BY <1>0, <1>6, <1>7
  <2>2. \E y \in hit : \A x \in hit : y <= x
    BY <2>1, NatLeast
  <2> QED BY <2>2, <1>9 DEF Min
<1>11. z \in Token
  BY <1>6, <1>10
<1>12. ASSUME NEW x \in Token PROVE z = x <=> Upto(w, x - 1) * t <= v /\ v < Upto(w, x) * t
  <2>0. x \in Nat /\ x >= 1 /\ x <= Vocab /\ x - 1 \in 0 .. Vocab /\ x \in 0 .. Vocab
    BY <1>0
  <2>1. PICK a \in Nat, b \in Nat : a = Upto(w, x - 1) /\ b = Upto(w, x)
    BY <2>0, <1>3
  <2>2. ASSUME z = x PROVE a * t <= v /\ v < b * t
    <3>1. v < b * t
      BY <2>1, <2>2, <1>6, <1>10
    <3>2. CASE x = 1
      <4>1. a = 0
        BY <3>2, <2>1, RowSums
      <4>2. a * t = 0
        BY <4>1
      <4> QED BY <3>1, <4>2, <1>0
    <3>3. CASE x # 1
      <4>1. x - 1 \in Token /\ ~(x <= x - 1)
        BY <3>3, <2>0, <1>0
      <4>2. x - 1 \notin hit
        BY <4>1, <2>2, <1>10
      <4>3. ~(v < a * t)
        BY <4>1, <4>2, <2>1, <1>6
      <4>4. a * t \in Nat
        OBVIOUS
      <4> QED BY <3>1, <4>3, <4>4, <1>0
    <3> QED BY <3>2, <3>3
  <2>3. ASSUME a * t <= v, v < b * t PROVE z = x
    <3>1. x \in hit
      BY <2>1, <2>3, <1>6
    <3>2. z <= x /\ z \in Nat /\ z >= 1
      BY <3>1, <1>0, <1>10, <1>11
    <3>3. ASSUME z # x PROVE FALSE
      <4>1. z \in 0 .. Vocab /\ x - 1 \in z .. Vocab
        <5>1. z < x /\ x <= Vocab /\ x \in Nat /\ z \in Nat /\ z >= 1
          BY <3>2, <3>3, <2>0
        <5> QED BY <5>1, <1>0
      <4>2. w \in [1 .. Vocab -> Nat]
        BY <1>0 DEF Weights
      <4>3. PICK c \in Nat : c = Upto(w, z)
        BY <4>1, <1>3
      <4>4. c <= a
        BY <4>1, <4>2, <4>3, <2>1, <1>0, SumsRise
      <4>5. c * t <= a * t
        BY <4>4
      <4>6. v < c * t
        BY <4>3, <1>6, <1>10
      <4>7. c * t \in Nat /\ a * t \in Nat
        OBVIOUS
      <4> QED BY <4>5, <4>6, <4>7, <2>3, <1>0
    <3> QED BY <3>3
  <2> QED BY <2>1, <2>2, <2>3
<1> QED BY <1>8, <1>9, <1>11, <1>12

\* The uniforms divide the sum of a row.
Divided(w) == \E t \in 1 .. G : G = Total(w) * t

\* The uniforms divide a row's sum.
LEMMA RowDivided ==
    ASSUME NEW w, Total(w) \in 1 .. W
    PROVE  Divided(w)
  BY SamplingAssumption DEF Divided

\* The uniforms that draw x from w.
Drawing(w, x) == {v \in Uniform : Draw(w, v) = x}

\* They are as many as its weight.
LEMMA DrawShare ==
    ASSUME NEW w \in Weights, Divided(w), NEW x \in Token
    PROVE  /\ IsFiniteSet(Drawing(w, x)) /\ Cardinality(Drawing(w, x)) \in Nat
           /\ Cardinality(Drawing(w, x)) * Total(w) = w[x] * G
           /\ \A v \in Drawing(w, x) : w[x] > 0
<1>0. G \in Nat /\ G > 0 /\ Vocab \in Nat /\ Uniform = 0 .. (G - 1) /\ Token = 1 .. Vocab
  BY SamplingAssumption DEF Uniform, Token
<1>1. PICK t \in 1 .. G : G = Total(w) * t
  BY DEF Divided
<1>2. t \in Nat /\ t > 0
  BY <1>0
<1>3. PICK a \in Nat, b \in Nat, c \in Nat :
          a = Upto(w, x - 1) /\ b = Upto(w, x) /\ c = w[x] /\ b = a + c
  <2>1. x - 1 \in 0 .. Vocab /\ x \in 0 .. Vocab /\ x \in 1 .. Vocab
    BY <1>0
  <2> QED BY <2>1, RowSums DEF Weights
<1>4. PICK total \in Nat : total = Total(w) /\ b <= total
  <2>1. x \in 0 .. Vocab /\ Vocab \in x .. Vocab /\ w \in [1 .. Vocab -> Nat]
    BY <1>0 DEF Weights
  <2>2. Upto(w, x) <= Upto(w, Vocab)
    BY <2>1, <1>0, SumsRise
  <2> QED BY <2>2, <1>3, RowSums
<1>5. PICK lo \in Nat, hi \in Nat : lo = a * t /\ hi = b * t /\ hi = lo + c * t /\ hi <= G
  <2>1. a * t \in Nat /\ b * t \in Nat
    BY <1>2
  <2>2. (a + c) * t = a * t + c * t
    BY <1>2
  <2>3. b * t <= total * t
    BY <1>2, <1>4
  <2> QED BY <2>1, <2>2, <2>3, <1>1, <1>3, <1>4
<1>6. \A v \in Uniform : Draw(w, v) = x <=> lo <= v /\ v < hi
  <2> SUFFICES ASSUME NEW v \in Uniform PROVE Draw(w, v) = x <=> lo <= v /\ v < hi
    OBVIOUS
  <2>1. Draw(w, v) = x <=> Upto(w, x - 1) * t <= v /\ v < Upto(w, x) * t
    BY <1>1, <1>2, DrawIs
  <2>2. Upto(w, x - 1) * t = lo /\ Upto(w, x) * t = hi
    BY <1>3, <1>5
  <2> QED BY <2>1, <2>2
<1>7. PICK D : D = Drawing(w, x)
  OBVIOUS
<1>8. D = lo .. (hi - 1)
  <2>1. \A v : v \in D <=> v \in 0 .. (G - 1) /\ lo <= v /\ v < hi
    BY <1>0, <1>6, <1>7 DEF Drawing
  <2>2. \A v : v \in 0 .. (G - 1) /\ lo <= v /\ v < hi <=> v \in lo .. (hi - 1)
    BY <1>0, <1>5
  <2> QED BY <2>1, <2>2
<1>9. IsFiniteSet(D) /\ Cardinality(D) = c * t
  <2>1. PICK e \in Nat : e = c * t
    BY <1>2
  <2>2. IsFiniteSet(lo .. (hi - 1)) /\ Cardinality(lo .. (hi - 1)) = IF lo > hi - 1 THEN 0 ELSE (hi - 1) - lo + 1
    BY FS_Interval
  <2>3. (IF lo > hi - 1 THEN 0 ELSE (hi - 1) - lo + 1) = e
    BY <2>1, <1>5
  <2> QED BY <2>1, <2>2, <2>3, <1>8
<1>10. (c * t) * total = c * (total * t) /\ c * t \in Nat
  BY <1>2
<1>11. \A v \in D : c > 0
  <2> SUFFICES ASSUME NEW v \in D PROVE c > 0
    OBVIOUS
  <2>1. lo < hi
    BY <1>5, <1>8
  <2>2. c # 0
    <3> SUFFICES ASSUME c = 0 PROVE FALSE
      OBVIOUS
    <3>1. c * t = 0
      BY <1>2
    <3> QED BY <3>1, <2>1, <1>5
  <2> QED BY <2>2
<1> QED BY <1>1, <1>3, <1>4, <1>7, <1>9, <1>10, <1>11

\* Some token is drawn.
LEMMA DrawSome ==
    ASSUME NEW w \in Weights, Divided(w), NEW v \in Uniform
    PROVE  Draw(w, v) \in Token /\ w[Draw(w, v)] > 0
<1>1. PICK t \in 1 .. G : G = Total(w) * t
  BY DEF Divided
<1>2. t \in Nat /\ t > 0
  BY SamplingAssumption
<1>3. PICK x \in Token : x = Draw(w, v)
  BY <1>1, <1>2, DrawIs
<1>4. v \in Drawing(w, x)
  BY <1>3 DEF Drawing
<1> QED BY <1>3, <1>4, DrawShare

\* A greedy draw is one from what is left, if something is.
LEMMA RowDraws ==
    ASSUME NEW n \in Nat, GrownTo(n), NEW i \in Root .. (n - 1), NEW m \in Nat, HasKids(n, i, m),
           NEW tok, Drafted(tok, n), ~params.sample \/ m = 0, Rest(tok, i, m) # 0, NEW v \in Uniform
    PROVE  DrawRow(tok, i, v) = Draw(LeftAfter(tok, i, m), v)
<1>1. PICK w \in Weights : w = LeftAfter(tok, i, m) /\ Divided(w)
  <2>1. LeftAfter(tok, i, m) \in Weights /\ Rest(tok, i, m) \in 0 .. W
    BY RestIs
  <2>2. Total(LeftAfter(tok, i, m)) \in 1 .. W
    BY <2>1, SamplingAssumption DEF Rest
  <2> QED BY <2>1, <2>2, RowDivided
<1>2. Left(tok, i) = w
  BY <1>1, LeftPoint
<1>3. CASE ~params.greedy
  BY <1>2, <1>1, <1>3 DEF DrawRow
<1>4. CASE params.greedy
  <2>1. PICK a : a = Argmax(lp[i])
    OBVIOUS
  <2>2. a \in Token
    <3>1. lp[i] \in Weights
      BY DEF GrownTo, Row
    <3> QED BY <3>1, <2>1, ArgmaxBest DEF Best
  <2>3. P(i) = [x \in Token |-> IF x = a THEN W ELSE 0]
    BY <1>4, <2>1, <2>2, TotalOne DEF P
  <2>4. PICK x \in Token : x = Draw(w, v) /\ w[x] > 0
    BY <1>1, DrawSome
  <2>5. P(i)[x] # 0
    <3>1. w[x] = IF \E j \in 1 .. m : tok[Kids(i)[j]] = x THEN 0 ELSE P(i)[x]
      BY <1>1 DEF LeftAfter
    <3> QED BY <3>1, <2>4
  <2>6. x = a
    BY <2>3, <2>5
  <2> QED BY <2>1, <2>4, <2>6, <1>1, <1>4 DEF DrawRow
<1> QED BY <1>3, <1>4

----------------------------------------------------------------------------
(***************************************************************************)
(* What is emitted at a row.                                               *)
(***************************************************************************)
Exact == params.rule = "exact"
Prob(i, x) == <<P(i)[x], Total(P(i))>>

\* What is recorded where the k-th draft is accepted, the tests before it being rej.
RecordedDraft(tok, i, k, rej) ==
    IF Exact THEN Prob(i, tok[Kids(i)[k]]) ELSE Times(AllOf(rej)[k - 1], Acc(tok, i, k))

\* What is recorded where x is drawn, the tests of all m drafts being rej.
RecordedDraw(i, x, m, rej) ==
    IF Exact \/ m = 0 THEN Prob(i, x)
    ELSE Times(Times(AllOf(rej)[m], Prob(i, x)), <<LeftOf(rej)[m][2], LeftOf(rej)[m][1]>>)

IsDraft(f, tok, i, k) ==
    /\ f.token = tok[Kids(i)[k]] /\ f.source = "draft"
    /\ \E rej : Tests(rej, tok, i, k - 1) /\ f.mu = RecordedDraft(tok, i, k, rej)
IsDraw(f, tok, i, m, v) ==
    /\ f.token = DrawRow(tok, i, v) /\ f.source # "draft"
    /\ \E rej : Tests(rej, tok, i, m) /\ f.mu = RecordedDraw(i, DrawRow(tok, i, v), m, rej)

\* The tests that are recorded.
LEMMA RecordedTests ==
    ASSUME NEW n \in Nat, GrownTo(n), NEW i \in Root .. (n - 1), NEW m \in Nat, HasKids(n, i, m),
           NEW tok, Drafted(tok, n), NEW k \in 0 .. m,
           NEW acc, \A j \in 1 .. k : acc[j] = Acc(tok, i, j),
           NEW rej, rej = [j \in 1 .. k |-> <<acc[j], Prob(i, tok[Kids(i)[j]])>>]
    PROVE  Tests(rej, tok, i, k)
<1>1. ASSUME NEW j \in 1 .. k PROVE rej[j] = <<Acc(tok, i, j), <<Pn(tok, Kids(i)[j]), Total(P(i))>>>>
  <2>1. j \in 1 .. m
    OBVIOUS
  <2>2. parents[Kids(i)[j]] = i
    BY <2>1 DEF HasKids
  <2>3. Pn(tok, Kids(i)[j]) = P(i)[tok[Kids(i)[j]]]
    BY <2>2 DEF Pn
  <2> QED BY <2>3 DEF Prob
<1>2. rej \in Seq({rej[j] : j \in 1 .. k}) /\ Len(rej) = k
  OBVIOUS
<1> QED BY <1>1, <1>2 DEF Tests

\* Where the k-th draft is accepted.
LEMMA InfoDraft ==
    ASSUME NEW n \in Nat, GrownTo(n), NEW i \in Root .. (n - 1), NEW m \in Nat, HasKids(n, i, m),
           NEW tok, Drafted(tok, n), NEW u, NEW v, NEW k \in 1 .. m,
           Fails(tok, u, i, k - 1), Passes(tok, u, i, k)
    PROVE  IsDraft(Info(tok, i, u, v), tok, i, k)
<1>1. PICK s : s = Tested(tok, u, i)
  OBVIOUS
<1>2. After(s, tok, u, i, m)
  BY <1>1, TestedAfter
<1>3. s.nxt = Kids(i)[k] /\ Len(s.acc) = k /\ \A j \in 1 .. k : s.acc[j] = Acc(tok, i, j)
  BY <1>2 DEF After
<1>4. Kids(i)[k] # Root
  <2>1. Kids(i)[k] \in 0 .. (n - 1)
    BY DEF HasKids
  <2> QED BY <2>1 DEF Root
<1>5. PICK acc : acc = s.acc
  OBVIOUS
<1>6. PICK rej : rej = [j \in 1 .. (k - 1) |-> <<acc[j], Prob(i, tok[Kids(i)[j]])>>]
  OBVIOUS
<1>7. Tests(rej, tok, i, k - 1)
  <2>1. PICK h \in 0 .. m : h = k - 1
    OBVIOUS
  <2>2. \A j \in 1 .. h : acc[j] = Acc(tok, i, j)
    BY <2>1, <1>3, <1>5
  <2>3. rej = [j \in 1 .. h |-> <<acc[j], Prob(i, tok[Kids(i)[j]])>>]
    BY <2>1, <1>6
  <2> QED BY <2>1, <2>2, <2>3, RecordedTests
<1>8. PICK a : a = acc[k] /\ a = Acc(tok, i, k)
  BY <1>3, <1>5
<1>9. PICK x : x = tok[Kids(i)[k]]
  OBVIOUS
<1>10. PICK b : b = BehaviorProb("draft", Prob(i, x), rej, a, Exact)
  OBVIOUS
<1>11. Info(tok, i, u, v) = [token |-> x, source |-> "draft", mu |-> b]
  BY <1>1, <1>3, <1>4, <1>5, <1>6, <1>8, <1>9, <1>10 DEF Info, Kids, Prob, Exact
<1>12. b = RecordedDraft(tok, i, k, rej)
  <2>1. Len(rej) = k - 1
    BY <1>7 DEF Tests
  <2>2. b = IF Exact THEN Prob(i, x) ELSE Times(AllOf(rej)[Len(rej)], a)
    BY <1>10, BehaviorIs
  <2> QED BY <2>1, <2>2, <1>8, <1>9 DEF RecordedDraft
<1> QED BY <1>7, <1>9, <1>11, <1>12 DEF IsDraft

\* Where all are rejected.
LEMMA InfoDraw ==
    ASSUME NEW n \in Nat, GrownTo(n), NEW i \in Root .. (n - 1), NEW m \in Nat, HasKids(n, i, m),
           NEW tok, Drafted(tok, n), NEW u, NEW v, Fails(tok, u, i, m)
    PROVE  IsDraw(Info(tok, i, u, v), tok, i, m, v)
<1>1. PICK s : s = Tested(tok, u, i)
  OBVIOUS
<1>2. After(s, tok, u, i, m)
  BY <1>1, TestedAfter
<1>3. s.nxt = Root /\ Len(s.acc) = m /\ \A j \in 1 .. m : s.acc[j] = Acc(tok, i, j)
  BY <1>2 DEF After
<1>4. Len(Kids(i)) = m /\ (Kids(i) = << >> <=> m = 0)
  BY DEF HasKids
<1>5. PICK acc : acc = s.acc
  OBVIOUS
<1>6. PICK rej : rej = [j \in 1 .. m |-> <<acc[j], Prob(i, tok[Kids(i)[j]])>>]
  OBVIOUS
<1>7. Tests(rej, tok, i, m)
  <2>1. PICK h \in 0 .. m : h = m
    OBVIOUS
  <2>2. \A j \in 1 .. h : acc[j] = Acc(tok, i, j)
    BY <2>1, <1>3, <1>5
  <2>3. rej = [j \in 1 .. h |-> <<acc[j], Prob(i, tok[Kids(i)[j]])>>]
    BY <2>1, <1>6
  <2>4. Tests(rej, tok, i, h)
    BY <2>2, <2>3, RecordedTests
  <2> QED BY <2>1, <2>4
<1>7a. rej = << >> <=> m = 0
  <2>1. Len(rej) = m
    BY <1>7 DEF Tests
  <2>2. rej = << >> => Len(rej) = 0
    OBVIOUS
  <2>3. m = 0 => rej = << >>
    <3> SUFFICES ASSUME m = 0 PROVE rej = << >>
      OBVIOUS
    <3>1. 1 .. m = {}
      OBVIOUS
    <3>2. rej = [j \in {} |-> <<acc[j], Prob(i, tok[Kids(i)[j]])>>]
      BY <3>1, <1>6
    <3>3. [j \in {} |-> <<acc[j], Prob(i, tok[Kids(i)[j]])>>] = << >>
      OBVIOUS
    <3> QED BY <3>2, <3>3
  <2> QED BY <2>1, <2>2, <2>3
<1>8. PICK x : x = DrawRow(tok, i, v)
  OBVIOUS
<1>9. PICK final : final = IF m = 0 THEN "bonus" ELSE "resample"
  OBVIOUS
<1>10. PICK b : b = BehaviorProb(final, Prob(i, x), rej, Zero, Exact)
  OBVIOUS
<1>11. Info(tok, i, u, v) = [token |-> x, source |-> final, mu |-> b]
  <2>1. PICK ch : ch = Kids(i)
    OBVIOUS
  <2>2. PICK p : p = P(i)
    OBVIOUS
  <2>3. Info(tok, i, u, v) =
            [token |-> x, source |-> IF ch = << >> THEN "bonus" ELSE "resample",
             mu |-> BehaviorProb(IF ch = << >> THEN "bonus" ELSE "resample", <<p[x], Total(p)>>,
                                 [j \in 1 .. Len(ch) |-> <<s.acc[j], <<p[tok[ch[j]]], Total(p)>>>>],
                                 Zero, params.rule = "exact")]
    BY <2>1, <2>2, <1>1, <1>3, <1>8 DEF Info, Kids
  <2>4. final = IF ch = << >> THEN "bonus" ELSE "resample"
    BY <2>1, <1>4, <1>9
  <2>5. rej = [j \in 1 .. Len(ch) |-> <<s.acc[j], <<p[tok[ch[j]]], Total(p)>>>>]
    BY <2>1, <2>2, <1>4, <1>5, <1>6 DEF Prob
  <2>6. b = BehaviorProb(final, <<p[x], Total(p)>>, rej, Zero, params.rule = "exact")
    BY <2>2, <1>10 DEF Prob, Exact
  <2> QED BY <2>3, <2>4, <2>5, <2>6
<1>12. b = RecordedDraw(i, x, m, rej)
  <2>1. Len(rej) = m
    BY <1>7 DEF Tests
  <2>2. CASE m = 0
    <3>1. b = Prob(i, x)
      BY <2>2, <1>7a, <1>9, <1>10, BehaviorIs
    <3> QED BY <3>1, <2>2 DEF RecordedDraw
  <2>3. CASE m # 0
    <3>1. final = "resample" /\ final # "bonus" /\ final # "draft"
      BY <2>3, <1>9
    <3>2. b = IF Exact THEN Prob(i, x)
              ELSE Times(Times(AllOf(rej)[m], Prob(i, x)), <<LeftOf(rej)[m][2], LeftOf(rej)[m][1]>>)
      BY <3>1, <2>1, <1>10, BehaviorIs
    <3> QED BY <3>2, <2>3 DEF RecordedDraw
  <2> QED BY <2>2, <2>3
<1>13. final # "draft"
  BY <1>9
<1> QED BY <1>7, <1>8, <1>11, <1>12, <1>13 DEF IsDraw

\* The arithmetic of a share.
LEMMA DraftProduct ==
    ASSUME NEW N \in Nat, NEW N0 \in Nat, NEW A \in Nat, NEW g \in Nat, NEW a1 \in Int, NEW a2 \in Int,
           NEW x1 \in Int, NEW x2 \in Int, A * a2 = a1 * N, N * x2 = x1 * N0
    PROVE  (A * g) * (x2 * a2) = (x1 * a1) * (N0 * g)
<1>1. (A * a2) * x2 = (a1 * N) * x2
  OBVIOUS
<1>2. (a1 * N) * x2 = a1 * (N * x2)
  OBVIOUS
<1>3. a1 * (x1 * N0) = (x1 * a1) * N0
  OBVIOUS
<1>4. (A * a2) * x2 = (x1 * a1) * N0
  BY <1>1, <1>2, <1>3
<1>5. (A * g) * (x2 * a2) = ((A * a2) * x2) * g
  OBVIOUS
<1>6. ((x1 * a1) * N0) * g = (x1 * a1) * (N0 * g)
  OBVIOUS
<1> QED BY <1>4, <1>5, <1>6

\* A token drawn when every sibling is refused: its outcomes against what the code records.
LEMMA DrawProduct ==
    ASSUME NEW N \in Nat, NEW N0 \in Nat, NEW d \in Nat, NEW R \in Nat, NEW p \in Nat, NEW g \in Nat,
           NEW T \in Nat, NEW x1 \in Int, NEW x2 \in Int, NEW l1 \in Int, NEW l2 \in Int,
           N * x2 = x1 * N0, l1 * T = R * l2, d * R = p * g
    PROVE  (N * d) * ((x2 * T) * l1) = ((x1 * p) * l2) * (N0 * g)
<1>1. (N * d) * ((x2 * T) * l1) = ((N * x2) * d) * (l1 * T)
  OBVIOUS
<1>2. ((x1 * N0) * d) * (R * l2) = ((d * R) * x1) * (N0 * l2)
  OBVIOUS
<1>3. ((p * g) * x1) * (N0 * l2) = ((x1 * p) * l2) * (N0 * g)
  OBVIOUS
<1> QED BY <1>1, <1>2, <1>3

\* The same at a row whose drafts take nothing away.
LEMMA PlainProduct ==
    ASSUME NEW N \in Nat, NEW N0 \in Nat, NEW d \in Nat, NEW R \in Nat, NEW p \in Nat, NEW g \in Nat,
           NEW T \in Nat, N * T = R * N0, d * R = p * g
    PROVE  (N * d) * T = p * (N0 * g)
<1>1. (N * d) * T = (N * T) * d /\ (R * N0) * d = (d * R) * N0 /\ (p * g) * N0 = p * (N0 * g)
  OBVIOUS
<1> QED BY <1>1

\* The uniforms that accept the k-th draft are the share recorded for it.
LEMMA DraftShare ==
    ASSUME NEW n \in Nat, GrownTo(n), ~params.sample, NEW tok, Drafted(tok, n),
           NEW i \in Root .. (n - 1), NEW m \in Nat, HasKids(n, i, m), NEW k \in 1 .. m,
           NEW f, IsDraft(f, tok, i, k)
    PROVE  (Cardinality(Accepting(n, tok, i, k)) * G) * f.mu[2]
               = f.mu[1] * (Cardinality(Rejecting(n, tok, i, 0)) * G)
<1>1. PICK rej : Tests(rej, tok, i, k - 1) /\ f.mu = RecordedDraft(tok, i, k, rej)
  BY DEF IsDraft
<1>2. G \in Nat
  BY SamplingAssumption
<1>3. PICK x \in Pairs, l \in Pairs :
          x = AllOf(rej)[k - 1] /\ l = LeftOf(rej)[k - 1] /\ Balanced(n, tok, i, x, l, k - 1)
  <2>1. PICK h \in 0 .. m : h = k - 1
    OBVIOUS
  <2>2. Tests(rej, tok, i, h)
    BY <2>1, <1>1
  <2>3. /\ AllOf(rej)[h] \in Pairs /\ LeftOf(rej)[h] \in Pairs
        /\ Balanced(n, tok, i, AllOf(rej)[h], LeftOf(rej)[h], h)
    BY <2>2, BalancedAll
  <2> QED BY <2>1, <2>3
<1>4. PICK x1 \in Int, x2 \in Int : x = <<x1, x2>>
  BY DEF Pairs
<1>5. PICK a1 \in Nat, a2 \in Nat : Acc(tok, i, k) = <<a1, a2>>
  <2>1. Rest(tok, i, k - 1) \in Nat
    BY RestIs, SamplingAssumption
  <2>2. tok \in [0 .. (n - 1) -> Token] /\ Kids(i)[k] \in 0 .. (n - 1)
    BY DEF Drafted, HasKids
  <2>3. Acc(tok, i, k) \in Fraction
    BY <2>1, <2>2, AcceptType DEF Acc
  <2> QED BY <2>3 DEF Fraction
<1>6. PICK R \in Nat, p \in Nat : /\ R = Rest(tok, i, k - 1) /\ p = Pn(tok, Kids(i)[k]) /\ p <= R
  <2>1. Rest(tok, i, k - 1) \in Nat
    BY RestIs, SamplingAssumption
  <2>2. Falls(tok, i, k)
    BY RestFalls
  <2> QED BY <2>1, <2>2 DEF Falls
<1>7. PICK T \in Nat : T = Total(P(i)) /\ T > 0
  BY RowIs
<1>8. PICK N \in Nat, A \in Nat :
          /\ N = Cardinality(Rejecting(n, tok, i, k - 1)) /\ N - A \in Nat
          /\ A = Cardinality(Accepting(n, tok, i, k))
          /\ A * a2 = a1 * N
          /\ params.rule = "exact" => A * R = p * N
  <2>1. Splits(n, tok, i, k)
    BY SplitsAre
  <2> QED BY <2>1, <1>5, <1>6 DEF Splits
<1>9. PICK N0 \in Nat : /\ N0 = Cardinality(Rejecting(n, tok, i, 0)) /\ N * x2 = x1 * N0
                        /\ params.rule = "exact" => N * T = R * N0
  BY <1>3, <1>4, <1>6, <1>7, <1>8 DEF Balanced
<1>10. CASE Exact
  <2>1. Prob(i, tok[Kids(i)[k]]) = <<p, T>>
    <3>1. parents[Kids(i)[k]] = i
      BY DEF HasKids
    <3> QED BY <3>1, <1>6, <1>7 DEF Pn, Prob
  <2>2. f.mu[1] = p /\ f.mu[2] = T
    BY <2>1, <1>1, <1>10 DEF RecordedDraft
  <2>3. A <= N /\ N * T = R * N0 /\ A * R = p * N
    BY <1>8, <1>9, <1>10 DEF Exact
  <2>4. A * T = p * N0
    BY <2>3, <1>6, <1>7, TakesOne
  <2>5. (A * G) * T = (A * T) * G /\ (p * N0) * G = p * (N0 * G)
    BY <1>2
  <2> QED BY <2>2, <2>4, <2>5, <1>8, <1>9
<1>11. CASE ~Exact
  <2>1. f.mu = <<x1 * a1, x2 * a2>>
    BY <1>1, <1>3, <1>4, <1>5, <1>11 DEF RecordedDraft, Times
  <2>2. A * a2 = a1 * N /\ N * x2 = x1 * N0 /\ a1 \in Int /\ a2 \in Int
    BY <1>8, <1>9
  <2>3. (A * G) * (x2 * a2) = (x1 * a1) * (N0 * G)
    BY <2>2, <1>2, DraftProduct
  <2>4. f.mu[1] = x1 * a1 /\ f.mu[2] = x2 * a2
    BY <2>1
  <2> QED BY <2>3, <2>4, <1>8, <1>9
<1> QED BY <1>10, <1>11

\* The uniforms that draw a token are the share recorded for it.
LEMMA DrawnShare ==
    ASSUME NEW n \in Nat, GrownTo(n), ~params.sample, NEW tok, Drafted(tok, n),
           NEW i \in Root .. (n - 1), NEW m \in Nat, HasKids(n, i, m), Rest(tok, i, m) # 0,
           NEW v \in Uniform, NEW f, IsDraw(f, tok, i, m, v)
    PROVE  /\ f.token \in Token /\ LeftAfter(tok, i, m)[f.token] > 0
           /\ (Cardinality(Rejecting(n, tok, i, m))
                   * Cardinality(Drawing(LeftAfter(tok, i, m), f.token))) * f.mu[2]
                  = f.mu[1] * (Cardinality(Rejecting(n, tok, i, 0)) * G)
<1>1. PICK rej : Tests(rej, tok, i, m) /\ f.mu = RecordedDraw(i, f.token, m, rej)
  BY DEF IsDraw
<1>2. G \in Nat
  BY SamplingAssumption
<1>3. PICK x \in Pairs, l \in Pairs :
          x = AllOf(rej)[m] /\ l = LeftOf(rej)[m] /\ Balanced(n, tok, i, x, l, m)
  <2>1. PICK h \in 0 .. m : h = m
    OBVIOUS
  <2>2. Tests(rej, tok, i, h)
    BY <2>1, <1>1
  <2>3. /\ AllOf(rej)[h] \in Pairs /\ LeftOf(rej)[h] \in Pairs
        /\ Balanced(n, tok, i, AllOf(rej)[h], LeftOf(rej)[h], h)
    BY <2>2, BalancedAll
  <2> QED BY <2>1, <2>3
<1>4. PICK x1 \in Int, x2 \in Int : x = <<x1, x2>>
  BY DEF Pairs
<1>5. PICK l1 \in Int, l2 \in Int : l = <<l1, l2>>
  BY DEF Pairs
<1>6. PICK w \in Weights : w = LeftAfter(tok, i, m) /\ Divided(w) /\ Total(w) = Rest(tok, i, m)
  <2>1. LeftAfter(tok, i, m) \in Weights /\ Rest(tok, i, m) \in 0 .. W
    BY RestIs
  <2>2. Total(LeftAfter(tok, i, m)) \in 1 .. W
    BY <2>1, SamplingAssumption DEF Rest
  <2> QED BY <2>1, <2>2, RowDivided DEF Rest
<1>7. PICK R \in Nat : R = Total(w)
  BY RowSums
<1>8. PICK T \in Nat : T = Total(P(i))
  BY RowIs
<1>9. PICK N \in Nat, N0 \in Nat :
          /\ N = Cardinality(Rejecting(n, tok, i, m)) /\ N0 = Cardinality(Rejecting(n, tok, i, 0))
          /\ N * x2 = x1 * N0 /\ l1 * T = R * l2
          /\ params.rule = "exact" => N * T = R * N0
  BY <1>3, <1>4, <1>5, <1>6, <1>7, <1>8 DEF Balanced
<1>10. PICK y \in Token : y = f.token /\ w[y] > 0
  <2>1. f.token = Draw(w, v)
    BY <1>6, RowDraws DEF IsDraw
  <2> QED BY <2>1, <1>6, DrawSome
<1>11. PICK d \in Nat : d = Cardinality(Drawing(w, y)) /\ d * R = w[y] * G
  BY <1>6, <1>7, DrawShare
<1>12. PICK p \in Nat : p = P(i)[y] /\ p = w[y]
  <2>1. w[y] = IF \E j \in 1 .. m : tok[Kids(i)[j]] = y THEN 0 ELSE P(i)[y]
    BY <1>6 DEF LeftAfter
  <2>2. w[y] \in Nat
    BY DEF Weights
  <2> QED BY <2>1, <2>2, <1>10
<1>13. Prob(i, y) = <<p, T>>
  BY <1>8, <1>12 DEF Prob
<1>14. CASE Exact \/ m = 0
  <2>1. f.mu[1] = p /\ f.mu[2] = T
    BY <1>1, <1>10, <1>13, <1>14 DEF RecordedDraw
  <2>2. N * T = R * N0
    <3>1. CASE Exact
      BY <3>1, <1>9 DEF Exact
    <3>2. CASE m = 0
      <4>1. N = N0
        BY <3>2, <1>9
      <4>2. R = T
        BY <3>2, <1>6, <1>7, <1>8, RestWhole
      <4>3. N * T = T * N
        OBVIOUS
      <4> QED BY <4>1, <4>2, <4>3
    <3> QED BY <3>1, <3>2, <1>14
  <2>3. d * R = p * G
    BY <1>11, <1>12
  <2>4. (N * d) * T = p * (N0 * G)
    BY <2>2, <2>3, <1>2, PlainProduct
  <2> QED BY <2>1, <2>4, <1>6, <1>9, <1>10, <1>11
<1>15. CASE ~(Exact \/ m = 0)
  <2>1. f.mu = <<(x1 * p) * l2, (x2 * T) * l1>>
    BY <1>1, <1>3, <1>4, <1>5, <1>10, <1>13, <1>15 DEF RecordedDraw, Times
  <2>2. d * R = p * G /\ N * x2 = x1 * N0 /\ l1 * T = R * l2
    BY <1>9, <1>11, <1>12
  <2>3. (N * d) * ((x2 * T) * l1) = ((x1 * p) * l2) * (N0 * G)
    BY <2>2, <1>2, DrawProduct
  <2>4. f.mu[1] = (x1 * p) * l2 /\ f.mu[2] = (x2 * T) * l1
    BY <2>1
  <2> QED BY <2>3, <2>4, <1>6, <1>9, <1>10, <1>11
<1> QED BY <1>14, <1>15

\* What each pair of a walk's uniforms and a draw's emits at row i.
Outcomes(n, i) == Rejecting(n, tokens, i, 0) \X Uniform
Emitted(i, o) == Info(tokens, i, o[1], o[2])
Emitting(n, i, x) == {o \in Outcomes(n, i) : Emitted(i, o).token = x}

\* A draw is made with something left, if one is made.
Open(n, i, m) == Rest(tokens, i, m) # 0 \/ Rejecting(n, tokens, i, m) = {}

\* An outcome accepts one draft, or rejects all.
LEMMA OutcomeIs ==
    ASSUME NEW n \in Nat, GrownTo(n), NEW i \in Root .. (n - 1), NEW m \in Nat, HasKids(n, i, m),
           NEW o \in Outcomes(n, i)
    PROVE  /\ o[1] \in Rejecting(n, tokens, i, 0) /\ o[2] \in Uniform
           /\ \/ o[1] \in Rejecting(n, tokens, i, m) /\ IsDraw(Emitted(i, o), tokens, i, m, o[2])
              \/ \E k \in 1 .. m : /\ o[1] \in Accepting(n, tokens, i, k)
                                   /\ IsDraft(Emitted(i, o), tokens, i, k)
<1>0. Drafted(tokens, n)
  BY DEF GrownTo
<1>1. PICK u : u = o[1] /\ u \in Rejecting(n, tokens, i, 0)
  BY DEF Outcomes
<1>2. PICK v \in Uniform : v = o[2]
  BY DEF Outcomes
<1>3. PICK f : f = Emitted(i, o) /\ f = Info(tokens, i, u, v)
  BY <1>1, <1>2 DEF Emitted
<1>4. u \in Uniforms(n) /\ Reaches(tokens, u, i)
  BY <1>1 DEF Rejecting
<1>5. CASE Fails(tokens, u, i, m)
  <2>1. u \in Rejecting(n, tokens, i, m)
    BY <1>4, <1>5 DEF Rejecting
  <2>2. IsDraw(f, tokens, i, m, v)
    BY <1>0, <1>3, <1>5, InfoDraw
  <2> QED BY <2>1, <2>2, <1>1, <1>2, <1>3
<1>6. CASE ~Fails(tokens, u, i, m)
  <2>1. PICK k \in 1 .. m : Fails(tokens, u, i, k - 1) /\ Passes(tokens, u, i, k)
    BY <1>6, FirstPass
  <2>2. u \in Accepting(n, tokens, i, k)
    BY <2>1, <1>4 DEF Accepting, Rejecting
  <2>3. IsDraft(f, tokens, i, k)
    BY <2>1, <1>0, <1>3, InfoDraft
  <2> QED BY <2>2, <2>3, <1>1, <1>2, <1>3
<1> QED BY <1>5, <1>6

\* No outcome accepts two drafts, or accepts one and rejects all.
LEMMA OneOutcome ==
    ASSUME NEW n, NEW i, NEW m \in Nat, NEW k \in 1 .. m, NEW u, u \in Accepting(n, tokens, i, k)
    PROVE  /\ u \notin Rejecting(n, tokens, i, m) /\ u \in Rejecting(n, tokens, i, 0)
           /\ \A l \in 1 .. m : u \in Accepting(n, tokens, i, l) => l = k
<1>1. Passes(tokens, u, i, k) /\ Fails(tokens, u, i, k - 1) /\ u \in Uniforms(n) /\ Reaches(tokens, u, i)
  BY DEF Accepting, Rejecting
<1>2. u \notin Rejecting(n, tokens, i, m)
  BY <1>1 DEF Rejecting, Fails
<1>3. u \in Rejecting(n, tokens, i, 0)
  BY <1>1 DEF Rejecting, Fails
<1>4. ASSUME NEW l \in 1 .. m, u \in Accepting(n, tokens, i, l) PROVE l = k
  <2>1. Passes(tokens, u, i, l) /\ Fails(tokens, u, i, l - 1)
    BY <1>4 DEF Accepting, Rejecting
  <2>2. ~(l \in 1 .. (k - 1)) /\ ~(k \in 1 .. (l - 1))
    BY <2>1, <1>1 DEF Fails
  <2> QED BY <2>2
<1> QED BY <1>2, <1>3, <1>4

\* What is drawn is not drafted.
LEMMA DrawnElsewhere ==
    ASSUME NEW n \in Nat, GrownTo(n), ~params.sample, NEW i \in Root .. (n - 1), NEW m \in Nat,
           HasKids(n, i, m), Rest(tokens, i, m) # 0, NEW v \in Uniform,
           NEW f, IsDraw(f, tokens, i, m, v), NEW k \in 1 .. m
    PROVE  f.token # tokens[Kids(i)[k]]
<1>1. Drafted(tokens, n)
  BY DEF GrownTo
<1>2. f.token \in Token /\ LeftAfter(tokens, i, m)[f.token] > 0
  BY <1>1, DrawnShare
<1>3. LeftAfter(tokens, i, m)[f.token]
          = IF \E j \in 1 .. m : tokens[Kids(i)[j]] = f.token THEN 0 ELSE P(i)[f.token]
  BY <1>2 DEF LeftAfter
<1> QED BY <1>2, <1>3

\* The outcomes that emit the k-th draft accept it.
LEMMA DraftOutcomes ==
    ASSUME NEW n \in Nat, GrownTo(n), ~params.sample, NEW i \in Root .. (n - 1), NEW m \in Nat,
           HasKids(n, i, m), Open(n, i, m), NEW k \in 1 .. m
    PROVE  Emitting(n, i, tokens[Kids(i)[k]]) = Accepting(n, tokens, i, k) \X Uniform
<1>1. PICK x : x = tokens[Kids(i)[k]]
  OBVIOUS
<1>2. ASSUME NEW o \in Outcomes(n, i)
      PROVE  Emitted(i, o).token = x <=> o[1] \in Accepting(n, tokens, i, k)
  <2>1. PICK f : f = Emitted(i, o)
    OBVIOUS
  <2>2. o[2] \in Uniform
    BY OutcomeIs
  <2>3. CASE o[1] \in Rejecting(n, tokens, i, m) /\ IsDraw(f, tokens, i, m, o[2])
    <3>1. Rest(tokens, i, m) # 0
      BY <2>3 DEF Open
    <3>2. f.token # x
      BY <3>1, <2>2, <2>3, <1>1, DrawnElsewhere
    <3>3. o[1] \notin Accepting(n, tokens, i, k)
      BY <2>3, OneOutcome
    <3> QED BY <3>2, <3>3, <2>1
  <2>4. CASE \E l \in 1 .. m : o[1] \in Accepting(n, tokens, i, l) /\ IsDraft(f, tokens, i, l)
    <3>1. PICK l \in 1 .. m : o[1] \in Accepting(n, tokens, i, l) /\ IsDraft(f, tokens, i, l)
      BY <2>4
    <3>2. f.token = tokens[Kids(i)[l]]
      BY <3>1 DEF IsDraft
    <3>3. l = k => f.token = x /\ o[1] \in Accepting(n, tokens, i, k)
      BY <3>1, <3>2, <1>1
    <3>4. l # k => f.token # x /\ o[1] \notin Accepting(n, tokens, i, k)
      <4> SUFFICES ASSUME l # k PROVE f.token # x /\ o[1] \notin Accepting(n, tokens, i, k)
        OBVIOUS
      <4>1. /\ Kids(i)[l] # Kids(i)[k] /\ Kids(i)[l] \in 0 .. (n - 1) /\ Kids(i)[k] \in 0 .. (n - 1)
            /\ parents[Kids(i)[l]] = parents[Kids(i)[k]]
        BY DEF HasKids
      <4>2. Drafted(tokens, n)
        BY DEF GrownTo
      <4>3. tokens[Kids(i)[l]] # tokens[Kids(i)[k]]
        BY <4>1, <4>2 DEF Drafted
      <4>4. o[1] \notin Accepting(n, tokens, i, k)
        BY <3>1, OneOutcome
      <4> QED BY <4>3, <4>4, <3>2, <1>1
    <3> QED BY <3>3, <3>4, <2>1
  <2> QED BY <2>1, <2>3, <2>4, OutcomeIs
<1>3. Accepting(n, tokens, i, k) \X Uniform \in SUBSET Outcomes(n, i)
  <2>1. ASSUME NEW u \in Accepting(n, tokens, i, k) PROVE u \in Rejecting(n, tokens, i, 0)
    BY OneOutcome
  <2> QED BY <2>1 DEF Outcomes
<1>4. PICK S : S = Accepting(n, tokens, i, k) \X Uniform
  OBVIOUS
<1>5. \A o \in Outcomes(n, i) : o \in S <=> o[1] \in Accepting(n, tokens, i, k)
  BY <1>4 DEF Outcomes
<1>6. Emitting(n, i, x) = S
  BY <1>2, <1>3, <1>4, <1>5 DEF Emitting
<1> QED BY <1>1, <1>4, <1>6

\* The outcomes that emit a drawn token reject all drafts and draw it.
LEMMA DrawOutcomes ==
    ASSUME NEW n \in Nat, GrownTo(n), ~params.sample, NEW i \in Root .. (n - 1), NEW m \in Nat,
           HasKids(n, i, m), Rest(tokens, i, m) # 0,
           NEW x \in Token, LeftAfter(tokens, i, m)[x] > 0
    PROVE  Emitting(n, i, x) = Rejecting(n, tokens, i, m) \X Drawing(LeftAfter(tokens, i, m), x)
<1>0. Drafted(tokens, n)
  BY DEF GrownTo
<1>1. PICK D : D = Drawing(LeftAfter(tokens, i, m), x)
  OBVIOUS
<1>2. ASSUME NEW o \in Outcomes(n, i)
      PROVE  Emitted(i, o).token = x <=> o[1] \in Rejecting(n, tokens, i, m) /\ o[2] \in D
  <2>1. PICK f : f = Emitted(i, o)
    OBVIOUS
  <2>2. PICK v \in Uniform : v = o[2]
    BY OutcomeIs
  <2>3. CASE o[1] \in Rejecting(n, tokens, i, m) /\ IsDraw(f, tokens, i, m, v)
    <3>1. f.token = DrawRow(tokens, i, v)
      BY <2>3 DEF IsDraw
    <3>2. f.token = Draw(LeftAfter(tokens, i, m), v)
      BY <3>1, <1>0, RowDraws
    <3>3. v \in D <=> Draw(LeftAfter(tokens, i, m), v) = x
      BY <1>1 DEF Drawing
    <3> QED BY <3>2, <3>3, <2>1, <2>2, <2>3
  <2>4. CASE \E l \in 1 .. m : o[1] \in Accepting(n, tokens, i, l) /\ IsDraft(f, tokens, i, l)
    <3>1. PICK l \in 1 .. m : o[1] \in Accepting(n, tokens, i, l) /\ IsDraft(f, tokens, i, l)
      BY <2>4
    <3>2. f.token = tokens[Kids(i)[l]]
      BY <3>1 DEF IsDraft
    <3>3. LeftAfter(tokens, i, m)[x]
              = IF \E j \in 1 .. m : tokens[Kids(i)[j]] = x THEN 0 ELSE P(i)[x]
      BY DEF LeftAfter
    <3>4. f.token # x
      BY <3>2, <3>3
    <3>5. o[1] \notin Rejecting(n, tokens, i, m)
      BY <3>1, OneOutcome
    <3> QED BY <3>4, <3>5, <2>1
  <2> QED BY <2>1, <2>2, <2>3, <2>4, OutcomeIs
<1>3. PICK S : S = Rejecting(n, tokens, i, m) \X D
  OBVIOUS
<1>4. S \in SUBSET Outcomes(n, i)
  <2>1. Rejecting(n, tokens, i, m) \in SUBSET Rejecting(n, tokens, i, 0)
    BY DEF Rejecting, Fails
  <2>2. D \in SUBSET Uniform
    BY <1>1 DEF Drawing
  <2> QED BY <2>1, <2>2, <1>3 DEF Outcomes
<1>5. \A o \in Outcomes(n, i) : o \in S <=> o[1] \in Rejecting(n, tokens, i, m) /\ o[2] \in D
  BY <1>3 DEF Outcomes
<1>6. Emitting(n, i, x) = S
  BY <1>2, <1>4, <1>5 DEF Emitting
<1> QED BY <1>1, <1>3, <1>6

\* Outcomes counted by what they emit.
Counted(S, g, E, x) ==
    /\ Cardinality(E) = Cardinality(S)
    /\ Cardinality({e \in E : e[2].token = x}) = Cardinality({o \in S : g[o].token = x})
LEMMA Tagged ==
    ASSUME NEW S, IsFiniteSet(S), NEW g, NEW E, E = {<<o, g[o]>> : o \in S}, NEW x
    PROVE  Counted(S, g, E, x)
<1>1. Cardinality(E) = Cardinality(S)
  <2>1. PICK f : f = [o \in S |-> <<o, g[o]>>]
    OBVIOUS
  <2>2. f \in [S -> E]
    BY <2>1
  <2>3. \A o, q \in S : f[o] = f[q] => o = q
    BY <2>1
  <2>4. \A e \in E : \E o \in S : f[o] = e
    BY <2>1
  <2> QED BY <2>2, <2>3, <2>4, Matched
<1>2. Cardinality({e \in E : e[2].token = x}) = Cardinality({o \in S : g[o].token = x})
  <2>1. PICK A : A = {o \in S : g[o].token = x}
    OBVIOUS
  <2>2. PICK B : B = {e \in E : e[2].token = x}
    OBVIOUS
  <2>3. PICK f : f = [o \in A |-> <<o, g[o]>>]
    OBVIOUS
  <2>4. f \in [A -> B]
    BY <2>1, <2>2, <2>3
  <2>5. \A o, q \in A : f[o] = f[q] => o = q
    BY <2>3
  <2>6. \A e \in B : \E o \in A : f[o] = e
    BY <2>1, <2>2, <2>3
  <2>7. IsFiniteSet(A)
    BY <2>1, FS_Subset
  <2>8. Cardinality(B) = Cardinality(A)
    BY <2>4, <2>5, <2>6, <2>7, Matched
  <2> QED BY <2>1, <2>2, <2>8
<1> QED BY <1>1, <1>2 DEF Counted

\* The outcomes that emit what f is of: f's share of all.
LEMMA ShareOfEmitted ==
    ASSUME NEW n \in Nat, GrownTo(n), ~params.sample, NEW i \in Root .. (n - 1), NEW m \in Nat,
           HasKids(n, i, m), Open(n, i, m), NEW o \in Outcomes(n, i), NEW f, f = Emitted(i, o)
    PROVE  /\ IsFiniteSet(Outcomes(n, i))
           /\ Cardinality(Emitting(n, i, f.token)) * f.mu[2]
                  = f.mu[1] * Cardinality(Outcomes(n, i))
<1>0. Drafted(tokens, n)
  BY DEF GrownTo
<1>1. IsFiniteSet(Uniform) /\ Cardinality(Uniform) = G
  <2>1. G \in Nat /\ G > 0 /\ G - 1 \in Int
    BY SamplingAssumption
  <2>2. IsFiniteSet(0 .. (G - 1)) /\ Cardinality(0 .. (G - 1)) = IF 0 > G - 1 THEN 0 ELSE (G - 1) - 0 + 1
    <3>1. 0 \in Int
      OBVIOUS
    <3> QED BY <2>1, <3>1, FS_Interval
  <2> QED BY <2>1, <2>2 DEF Uniform
<1>2. ASSUME NEW k PROVE IsFiniteSet(Rejecting(n, tokens, i, k)) /\ IsFiniteSet(Accepting(n, tokens, i, k))
  <2>1. PICK A : A = Rejecting(n, tokens, i, k)
    OBVIOUS
  <2>2. PICK B : B = Accepting(n, tokens, i, k)
    OBVIOUS
  <2>3. A \in SUBSET Uniforms(n) /\ B \in SUBSET Uniforms(n)
    BY <2>1, <2>2 DEF Rejecting, Accepting
  <2>4. IsFiniteSet(A) /\ IsFiniteSet(B)
    BY <2>3, UniformsFinite, FS_Subset
  <2> QED BY <2>1, <2>2, <2>4
<1>3. /\ IsFiniteSet(Outcomes(n, i))
      /\ Cardinality(Outcomes(n, i)) = Cardinality(Rejecting(n, tokens, i, 0)) * G
  BY <1>1, <1>2, FS_Product DEF Outcomes
<1>4. o[2] \in Uniform
  BY OutcomeIs
<1>5. CASE o[1] \in Rejecting(n, tokens, i, m) /\ IsDraw(f, tokens, i, m, o[2])
  <2>1. Rest(tokens, i, m) # 0
    BY <1>5 DEF Open
  <2>2. /\ f.token \in Token /\ LeftAfter(tokens, i, m)[f.token] > 0
        /\ (Cardinality(Rejecting(n, tokens, i, m))
                * Cardinality(Drawing(LeftAfter(tokens, i, m), f.token))) * f.mu[2]
               = f.mu[1] * (Cardinality(Rejecting(n, tokens, i, 0)) * G)
    BY <2>1, <1>0, <1>4, <1>5, DrawnShare
  <2>3. PICK D : D = Drawing(LeftAfter(tokens, i, m), f.token) /\ IsFiniteSet(D)
    <3>1. LeftAfter(tokens, i, m) \in Weights /\ Rest(tokens, i, m) \in 0 .. W
      BY RestIs
    <3>2. Total(LeftAfter(tokens, i, m)) \in 1 .. W
      BY <3>1, <2>1, SamplingAssumption DEF Rest
    <3>3. Divided(LeftAfter(tokens, i, m))
      BY <3>2, RowDivided
    <3> QED BY <3>1, <3>3, <2>2, DrawShare
  <2>4. Emitting(n, i, f.token) = Rejecting(n, tokens, i, m) \X D
    BY <2>1, <2>2, <2>3, DrawOutcomes
  <2>5. Cardinality(Emitting(n, i, f.token)) = Cardinality(Rejecting(n, tokens, i, m)) * Cardinality(D)
    BY <2>3, <2>4, <1>2, FS_Product
  <2> QED BY <2>2, <2>3, <2>5, <1>3
<1>6. CASE \E k \in 1 .. m : o[1] \in Accepting(n, tokens, i, k) /\ IsDraft(f, tokens, i, k)
  <2>1. PICK k \in 1 .. m : IsDraft(f, tokens, i, k)
    BY <1>6
  <2>2. (Cardinality(Accepting(n, tokens, i, k)) * G) * f.mu[2]
            = f.mu[1] * (Cardinality(Rejecting(n, tokens, i, 0)) * G)
    BY <2>1, <1>0, DraftShare
  <2>3. f.token = tokens[Kids(i)[k]]
    BY <2>1 DEF IsDraft
  <2>4. Emitting(n, i, f.token) = Accepting(n, tokens, i, k) \X Uniform
    BY <2>3, DraftOutcomes
  <2>5. Cardinality(Emitting(n, i, f.token)) = Cardinality(Accepting(n, tokens, i, k)) * G
    BY <2>4, <1>1, <1>2, FS_Product
  <2> QED BY <2>2, <2>5, <1>3
<1>7. \/ o[1] \in Rejecting(n, tokens, i, m) /\ IsDraw(f, tokens, i, m, o[2])
      \/ \E k \in 1 .. m : o[1] \in Accepting(n, tokens, i, k) /\ IsDraft(f, tokens, i, k)
  BY OutcomeIs
<1> QED BY <1>3, <1>5, <1>6, <1>7

\* A row emptied by its drafts is drawn from.
LEMMA DrawnWhenEmpty ==
    ASSUME NEW n \in Nat, GrownTo(n), ~params.sample, NEW i \in Root .. (n - 1), NEW m \in Nat,
           HasKids(n, i, m), ~Open(n, i, m)
    PROVE  \E o \in Outcomes(n, i) : Emitted(i, o).source # "draft" /\ Exhausted(i)
<1>1. PICK u : u \in Rejecting(n, tokens, i, m)
  BY DEF Open
<1>2. 0 \in Uniform
  BY SamplingAssumption DEF Uniform
<1>3. PICK o : o = <<u, 0>>
  OBVIOUS
<1>4. o \in Outcomes(n, i) /\ o[1] = u
  BY <1>1, <1>2, <1>3 DEF Outcomes, Rejecting, Fails
<1>5. IsDraw(Emitted(i, o), tokens, i, m, o[2])
  <2>1. ASSUME NEW k \in 1 .. m PROVE o[1] \notin Accepting(n, tokens, i, k)
    BY <1>1, <1>4, OneOutcome
  <2> QED BY <2>1, <1>4, OutcomeIs
<1>6. Exhausted(i)
  <2>1. Drafted(tokens, n)
    BY DEF GrownTo
  <2>2. Left(tokens, i) = LeftAfter(tokens, i, m)
    BY <2>1, LeftPoint
  <2>3. Rest(tokens, i, m) = 0
    BY DEF Open
  <2> QED BY <2>2, <2>3 DEF Exhausted, Rest
<1> QED BY <1>4, <1>5, <1>6 DEF IsDraw

\* What is emitted and recorded at a row (BehaviorIsTheSampler without the definitions).
Recorded(i, emits, infos) ==
    \/ \E f \in infos : f.source # "draft" /\ Exhausted(i)
    \/ \A f \in infos : Cardinality({e \in emits : e[2].token = f.token}) * f.mu[2]
                            = f.mu[1] * Cardinality(emits)
LEMMA RecordedIs ==
    ASSUME NEW n \in Nat, GrownTo(n), ~params.sample, NEW i \in Root .. (n - 1),
           NEW emits, emits = {<<o, Emitted(i, o)>> : o \in Outcomes(n, i)},
           NEW infos, infos = {e[2] : e \in emits}
    PROVE  Recorded(i, emits, infos)
<1>1. PICK m \in Nat : HasKids(n, i, m)
  BY KidsAre
<1>2. CASE ~Open(n, i, m)
  <2>1. PICK o \in Outcomes(n, i) : Emitted(i, o).source # "draft" /\ Exhausted(i)
    BY <1>1, <1>2, DrawnWhenEmpty
  <2>2. PICK f : f = Emitted(i, o)
    OBVIOUS
  <2>3. <<o, f>> \in emits
    BY <2>2
  <2>4. f \in infos
    <3>1. PICK e \in emits : e = <<o, f>>
      BY <2>3
    <3>2. f = e[2]
      BY <3>1
    <3> QED BY <3>2
  <2> QED BY <2>1, <2>2, <2>4 DEF Recorded
<1>3. CASE Open(n, i, m)
  <2>1. ASSUME NEW f \in infos
        PROVE  Cardinality({e \in emits : e[2].token = f.token}) * f.mu[2]
                   = f.mu[1] * Cardinality(emits)
    <3>1. PICK z \in emits : f = z[2]
      OBVIOUS
    <3>2. PICK o \in Outcomes(n, i) : z = <<o, Emitted(i, o)>>
      OBVIOUS
    <3>3. f = Emitted(i, o)
      BY <3>1, <3>2
    <3>4. PICK S : S = Outcomes(n, i)
      OBVIOUS
    <3>5. /\ IsFiniteSet(S)
          /\ Cardinality(Emitting(n, i, f.token)) * f.mu[2] = f.mu[1] * Cardinality(S)
      BY <3>3, <3>4, <1>1, <1>3, ShareOfEmitted
    <3>6. PICK g : g = [q \in S |-> Emitted(i, q)]
      OBVIOUS
    <3>7. emits = {<<q, g[q]>> : q \in S}
      BY <3>4, <3>6
    <3>8. Emitting(n, i, f.token) = {q \in S : g[q].token = f.token}
      BY <3>4, <3>6 DEF Emitting
    <3>9. PICK x : x = f.token
      OBVIOUS
    <3>10. Counted(S, g, emits, x)
      BY <3>5, <3>7, Tagged
    <3>11. /\ Cardinality(emits) = Cardinality(S)
           /\ Cardinality({e \in emits : e[2].token = x}) = Cardinality({q \in S : g[q].token = x})
      BY <3>10 DEF Counted
    <3> QED BY <3>5, <3>8, <3>9, <3>11
  <2> QED BY <2>1 DEF Recorded
<1> QED BY <1>2, <1>3

\* Of any tree, what the code records is the share of the outcomes.
LEMMA BehaviorInGrown == Grown => BehaviorIsTheSampler
<1> SUFFICES ASSUME Grown, ~params.sample, NEW i \in Nodes \cup {Root}
             PROVE  LET reach == {u \in [Nodes -> Uniform] : Reaches(tokens, u, i)}
                        emits == {<<o, Info(tokens, i, o[1], o[2])>> : o \in reach \X Uniform}
                        infos == {e[2] : e \in emits}
                        count(x) == Cardinality({e \in emits : e[2].token = x})
                    IN  (\E f \in infos : f.source # "draft" /\ Exhausted(i))
                        \/ \A f \in infos : count(f.token) * f.mu[2] = f.mu[1] * Cardinality(emits)
  BY DEF BehaviorIsTheSampler
<1>1. PICK n \in Nat : GrownTo(n)
  BY DEF Grown
<1>2. Nodes = 0 .. (n - 1) /\ i \in Root .. (n - 1)
  BY <1>1, NodesAre
<1>3. PICK reach : reach = {u \in [Nodes -> Uniform] : Reaches(tokens, u, i)}
  OBVIOUS
<1>4. PICK emits : emits = {<<o, Info(tokens, i, o[1], o[2])>> : o \in reach \X Uniform}
  OBVIOUS
<1>5. PICK infos : infos = {e[2] : e \in emits}
  OBVIOUS
<1>6. reach \X Uniform = Outcomes(n, i)
  <2>1. reach = Rejecting(n, tokens, i, 0)
    <3>1. \A u : Fails(tokens, u, i, 0)
      BY DEF Fails
    <3> QED BY <3>1, <1>2, <1>3 DEF Rejecting, Uniforms
  <2> QED BY <2>1 DEF Outcomes
<1>7. emits = {<<o, Emitted(i, o)>> : o \in Outcomes(n, i)}
  BY <1>4, <1>6 DEF Emitted
<1>8. Recorded(i, emits, infos)
  BY <1>1, <1>2, <1>5, <1>7, RecordedIs
<1> QED BY <1>3, <1>4, <1>5, <1>8 DEF Recorded

\* With argmax proposals every emitted token is recorded with the probability the sampler
\* emits it with (behavior_logprob).
THEOREM BehaviorHolds == Spec => []BehaviorIsTheSampler
<1>1. Grown => BehaviorIsTheSampler
  BY BehaviorInGrown
<1> QED BY <1>1, TreesGrow, PTL

----------------------------------------------------------------------------
(***************************************************************************)
(* Drafts drawn from the head.                                             *)
(***************************************************************************)
\* The uniforms divide every threshold of a sampled draft, and every sum it leaves.
FineUniforms == \A k \in 1 .. (W * W) : \E t \in 1 .. G : G = k * t

\* The tree with another draft drawn at c.
Redrawn(c, d) == [tokens EXCEPT ![c] = d]
Lesser(a, b) == IF a <= b THEN a ELSE b

\* Another draft in a sampled draft's place is a draft.
LEMMA RedrawnDrafted ==
    ASSUME NEW n \in Nat, GrownTo(n), params.sample, NEW c \in 0 .. (n - 1), NEW d \in Token
    PROVE  /\ Drafted(Redrawn(c, d), n) /\ Redrawn(c, d)[c] = d
           /\ Redrawn(c, d) \in [0 .. (n - 1) -> Token]
<1>1. tokens \in [0 .. (n - 1) -> Token] /\ \A b \in 0 .. (n - 1) : parents[b] = b - 1
  BY DEF GrownTo, Drafted
<1>2. PICK tok : tok = Redrawn(c, d)
  OBVIOUS
<1>3. tok \in [0 .. (n - 1) -> Token] /\ tok[c] = d
  BY <1>1, <1>2 DEF Redrawn
<1>4. \A a, b \in 0 .. (n - 1) : parents[a] = parents[b] /\ tok[a] = tok[b] => a = b
  BY <1>1
<1> QED BY <1>2, <1>3, <1>4 DEF Drafted

\* A sampled draft is the only one below its row.
LEMMA SampledRow ==
    ASSUME NEW n \in Nat, GrownTo(n), params.sample, NEW c \in 0 .. (n - 1)
    PROVE  /\ parents[c] \in Root .. (n - 1) /\ HasKids(n, parents[c], 1) /\ Kids(parents[c])[1] = c
           /\ draft_q[c] \in Softmax /\ draft_q[c] # Point /\ draft_q[c] \in Weights
           /\ Total(draft_q[c]) = W /\ \A x \in Token : draft_q[c][x] <= W
<1>1. parents[c] \in Root .. (n - 1)
  BY DEF GrownTo, Ordered
<1>2. PICK i \in Root .. (n - 1) : i = parents[c]
  BY <1>1
<1>3. PICK m \in Nat : HasKids(n, i, m)
  BY KidsAre
<1>4. PICK k \in 1 .. m : Kids(i)[k] = c
  BY <1>2, <1>3 DEF HasKids
<1>5. m = 1 /\ k = 1
  BY <1>3, <1>4, OneKid
<1>6. draft_q[c] \in Softmax /\ draft_q[c] # Point
  <2>1. PICK q : q = draft_q[Kids(i)[1]]
    OBVIOUS
  <2>2. m # 0
    BY <1>5
  <2>3. q \in Softmax /\ q # Point
    BY <2>1, <2>2, <1>3, LeftSampled
  <2> QED BY <2>1, <2>3, <1>4, <1>5
<1>7. draft_q[c] \in Weights /\ Total(draft_q[c]) = W /\ \A x \in Token : draft_q[c][x] <= W
  BY <1>6, SamplingAssumption DEF Softmax, Weights
<1> QED BY <1>2, <1>3, <1>4, <1>5, <1>6, <1>7

\* t of the G uniforms accept the draft d.
SampledAt(t, n, c, d) ==
    LET a  == Acc(Redrawn(c, d), parents[c], 1)
        qT == draft_q[c][d] * Total(P(parents[c]))
    IN  /\ t \in 0 .. G /\ a \in Fraction /\ t * a[2] = a[1] * G
        /\ t * qT = Lesser(qT, P(parents[c])[d] * W) * G

\* A sampled draft's test divides the uniforms evenly.
LEMMA SampledThreshold ==
    ASSUME FineUniforms, NEW n \in Nat, GrownTo(n), params.sample, params.rule = "exact",
           NEW c \in 0 .. (n - 1), NEW d \in Token
    PROVE  \E t : SampledAt(t, n, c, d)
<1>0. G \in Nat /\ W \in Nat /\ W > 0 /\ G > 0
  BY SamplingAssumption
<1>1. PICK i \in Root .. (n - 1) : i = parents[c] /\ HasKids(n, i, 1) /\ Kids(i)[1] = c
  BY SampledRow
<1>2. PICK tok : tok = Redrawn(c, d) /\ Drafted(tok, n) /\ tok[c] = d /\ tok \in [0 .. (n - 1) -> Token]
  BY RedrawnDrafted
<1>3. PICK T \in Nat : T = Total(P(i)) /\ T > 0 /\ T <= W
  BY RowIs, <1>0
<1>4. PICK p \in Nat : p = P(i)[d]
  BY RowIs DEF Weights
<1>5. PICK q \in Nat : q = draft_q[c][d] /\ q <= W /\ draft_q[c] # Point
  BY SampledRow DEF Weights
<1>6. PICK a : a = Acc(tok, i, 1)
  OBVIOUS
<1>7. a = Accept(tok, c, T)
  <2>1. Rest(tok, i, 0) = T
    BY <1>3, RestWhole
  <2>2. 1 - 1 = 0
    OBVIOUS
  <2> QED BY <2>1, <2>2, <1>1, <1>6 DEF Acc
<1>8. a \in Fraction
  BY <1>2, <1>7, AcceptType
<1>9. Pn(tok, c) = p
  BY <1>1, <1>2, <1>4 DEF Pn
<1>10. a = IF q * T = 0 THEN (IF p > 0 THEN One ELSE Zero)
           ELSE IF p * W >= q * T THEN One ELSE <<p * W, q * T>>
  <2>1. a = Ratio(tok, c, T)
    BY <1>7 DEF Accept
  <2> QED BY <2>1, <1>2, <1>5, <1>9 DEF Ratio
<1>11. PICK x \in Nat, y \in Nat : x = p * W /\ y = q * T
  BY <1>0
<1>12. y <= W * W
  <2>1. q * T <= q * W
    BY <1>0, <1>3
  <2>2. q * W <= W * W
    BY <1>0, <1>5
  <2>3. q * T \in Nat /\ q * W \in Nat /\ W * W \in Nat
    BY <1>0
  <2> QED BY <2>1, <2>2, <2>3, <1>11
<1>13. \E t \in 0 .. G : t * a[2] = a[1] * G /\ t * y = Lesser(y, x) * G
  <2>1. CASE y = 0
    <3>1. Lesser(y, x) * G = 0
      BY <2>1, <1>0 DEF Lesser
    <3>2. CASE a = One
      <4>1. G * a[2] = a[1] * G /\ G * y = 0 /\ G \in 0 .. G
        BY <3>2, <2>1, <1>0 DEF One
      <4> QED BY <4>1, <3>1
    <3>3. CASE a = Zero
      <4>1. 0 * a[2] = a[1] * G /\ 0 * y = 0 /\ 0 \in 0 .. G
        BY <3>3, <2>1, <1>0 DEF Zero
      <4> QED BY <4>1, <3>1
    <3> QED BY <3>2, <3>3, <2>1, <1>10, <1>11
  <2>2. CASE y # 0 /\ x >= y
    <3>1. a = One /\ Lesser(y, x) = y
      BY <2>2, <1>10, <1>11 DEF Lesser
    <3>2. G * a[2] = a[1] * G /\ G * y = y * G /\ G \in 0 .. G
      BY <3>1, <1>0 DEF One
    <3> QED BY <3>1, <3>2
  <2>3. CASE y # 0 /\ ~(x >= y)
    <3>1. a = <<x, y>> /\ Lesser(y, x) = x
      BY <2>3, <1>10, <1>11 DEF Lesser
    <3>2. y \in 1 .. (W * W)
      <4>1. W * W \in Nat
        BY <1>0
      <4> QED BY <4>1, <2>3, <1>12
    <3>3. PICK g \in 1 .. G : G = y * g
      BY <3>2 DEF FineUniforms
    <3>4. g \in Nat
      BY <1>0
    <3>5. (x * g) * y = x * (y * g) /\ x * g <= y * g /\ x * g \in Nat
      BY <3>4, <2>3
    <3>6. x * g \in 0 .. G
      BY <3>3, <3>5, <1>0
    <3>7. (x * g) * a[2] = a[1] * G /\ (x * g) * y = Lesser(y, x) * G
      BY <3>1, <3>3, <3>5
    <3> QED BY <3>6, <3>7
  <2> QED BY <2>1, <2>2, <2>3
<1> QED BY <1>1, <1>2, <1>3, <1>4, <1>5, <1>6, <1>8, <1>11, <1>13 DEF SampledAt

\* What the target has beyond the proposal, at the row of draft c.
Beyond(c) == [x \in Token |-> Max0(P(parents[c])[x] * W - draft_q[c][x] * Total(P(parents[c])))]

\* What a sampled draft leaves of its row.
LEMMA BeyondIs ==
    ASSUME NEW n \in Nat, GrownTo(n), params.sample, NEW c \in 0 .. (n - 1)
    PROVE  /\ Beyond(c) \in Weights /\ Total(Beyond(c)) <= W * W
           /\ \A tok : Left(tok, parents[c]) = Beyond(c)
<1>0. W \in Nat /\ W > 0
  BY SamplingAssumption
<1>1. PICK i \in Root .. (n - 1) : i = parents[c] /\ HasKids(n, i, 1) /\ Kids(i)[1] = c
  BY SampledRow
<1>2. PICK p \in Weights : p = P(i) /\ Total(p) \in 1 .. W
  BY RowIs
<1>3. PICK q \in Weights : q = draft_q[c]
  BY SampledRow
<1>4. PICK T \in Nat : T = Total(p) /\ T <= W
  BY <1>0, <1>2
<1>5. PICK b : b = Beyond(c)
  OBVIOUS
<1>6. b = [x \in Token |-> Max0(p[x] * W - q[x] * T)]
  BY <1>1, <1>2, <1>3, <1>4, <1>5 DEF Beyond
<1>7. PICK s : s = [x \in Token |-> p[x] * W]
  OBVIOUS
<1>8. s \in Weights /\ Total(s) = T * W
  BY <1>0, <1>2, <1>4, <1>7, TotalTimes
<1>9. ASSUME NEW x \in Token PROVE b[x] \in Nat /\ b[x] <= s[x]
  <2>1. PICK y \in Nat, z \in Nat : y = p[x] * W /\ z = q[x] * T
    <3>1. p[x] \in Nat /\ q[x] \in Nat
      BY <1>2, <1>3 DEF Weights
    <3> QED BY <3>1, <1>0
  <2>2. Max0(y - z) \in Nat /\ Max0(y - z) <= y
    BY DEF Max0
  <2> QED BY <2>1, <2>2, <1>6, <1>7
<1>10. b \in Weights
  BY <1>6, <1>9 DEF Weights
<1>11. Total(b) <= T * W
  BY <1>8, <1>9, <1>10, TotalBelow
<1>12. Total(b) <= W * W
  <2>1. T * W <= W * W /\ T * W \in Nat /\ W * W \in Nat
    BY <1>0, <1>4
  <2>2. Total(b) \in Nat
    BY <1>10, RowSums
  <2> QED BY <2>1, <2>2, <1>11
<1>13. ASSUME NEW tok PROVE Left(tok, i) = b
  <2>1. Left(tok, i) = [x \in Token |-> Max0(P(i)[x] * W - q[x] * Total(P(i)))]
    <3>1. PICK r : r = draft_q[Kids(i)[1]]
      OBVIOUS
    <3>2. 1 # 0 /\ 1 \in Nat
      OBVIOUS
    <3>3. Left(tok, i) = [x \in Token |-> Max0(P(i)[x] * W - r[x] * Total(P(i)))]
      BY <3>1, <3>2, <1>1, LeftSampled
    <3> QED BY <3>1, <3>3, <1>1, <1>3
  <2> QED BY <2>1, <1>2, <1>4, <1>6
<1> QED BY <1>1, <1>5, <1>10, <1>12, <1>13

\* The uniforms that draw x where the draft is rejected.
RowDrawing(i, x) == {v \in Uniform : DrawRow(tokens, i, v) = x}

\* The uniforms that draw a token from what a sampled draft leaves are its share.
LEMMA SampledDraws ==
    ASSUME FineUniforms, NEW n \in Nat, GrownTo(n), params.sample, NEW c \in 0 .. (n - 1),
           NEW x \in Token
    PROVE  /\ IsFiniteSet(RowDrawing(parents[c], x)) /\ Cardinality(RowDrawing(parents[c], x)) \in Nat
           /\ Cardinality(RowDrawing(parents[c], x)) * Total(Beyond(c)) = Beyond(c)[x] * G
<1>0. W \in Nat /\ W > 0 /\ G \in Nat /\ G > 0
  BY SamplingAssumption
<1>1. PICK i \in Root .. (n - 1) : i = parents[c]
  BY SampledRow
<1>2. PICK b \in Weights : b = Beyond(c) /\ Total(b) <= W * W /\ Left(tokens, i) = b
  BY <1>1, BeyondIs
<1>3. PICK D : D = RowDrawing(i, x)
  OBVIOUS
<1>4. IsFiniteSet(D) /\ Cardinality(D) \in Nat
  <2>1. D \in SUBSET (0 .. (G - 1))
    BY <1>3 DEF RowDrawing, Uniform
  <2>2. G - 1 \in Int /\ 0 \in Int
    BY <1>0
  <2>3. IsFiniteSet(D)
    BY <2>1, <2>2, FS_Interval, FS_Subset
  <2> QED BY <2>3, FS_CardinalityType
<1>5. CASE Total(b) = 0
  <2>1. b[x] = 0
    BY <1>5, TokenBelow
  <2> QED BY <2>1, <1>0, <1>1, <1>2, <1>3, <1>4, <1>5
<1>6. CASE Total(b) # 0
  <2>1. Divided(b)
    <3>1. Total(b) \in Nat /\ W * W \in Nat
      BY <1>0, RowSums
    <3>2. Total(b) \in 1 .. (W * W)
      BY <3>1, <1>2, <1>6
    <3> QED BY <3>2 DEF FineUniforms, Divided
  <2>2. ASSUME NEW v \in Uniform PROVE DrawRow(tokens, i, v) = Draw(b, v)
    <3>1. CASE ~params.greedy
      BY <3>1, <1>2 DEF DrawRow
    <3>2. CASE params.greedy
      <4>1. PICK a : a = Argmax(lp[i])
        OBVIOUS
      <4>2. a \in Token
        <5>1. lp[i] \in Weights
          BY DEF GrownTo, Row
        <5> QED BY <5>1, <4>1, ArgmaxBest DEF Best
      <4>3. P(i) = [y \in Token |-> IF y = a THEN W ELSE 0]
        BY <3>2, <4>1, <4>2, TotalOne DEF P
      <4>4. PICK y \in Token : y = Draw(b, v) /\ b[y] > 0
        BY <2>1, DrawSome
      <4>5. y = a
        <5> SUFFICES ASSUME y # a PROVE FALSE
          OBVIOUS
        <5>1. PICK z \in Nat : z = draft_q[c][y] * Total(P(i))
          <6>1. draft_q[c][y] \in Nat
            BY SampledRow DEF Weights
          <6>2. Total(P(i)) \in Nat
            BY RowIs
          <6> QED BY <6>1, <6>2
        <5>2. P(i)[y] * W = 0
          BY <4>3, <1>0
        <5>3. b[y] = Max0(0 - z)
          BY <5>1, <5>2, <1>1, <1>2 DEF Beyond
        <5>4. b[y] = 0
          BY <5>3 DEF Max0
        <5> QED BY <5>4, <4>4
      <4> QED BY <3>2, <4>1, <4>4, <4>5 DEF DrawRow
    <3> QED BY <3>1, <3>2
  <2>3. D = Drawing(b, x)
    BY <2>2, <1>3 DEF RowDrawing, Drawing
  <2>4. Cardinality(Drawing(b, x)) * Total(b) = b[x] * G
    BY <2>1, DrawShare
  <2> QED BY <2>3, <2>4, <1>1, <1>2, <1>3, <1>4
<1> QED BY <1>5, <1>6

\* The uniforms that reach the row of draft c, and those of them that accept d there.
Reaching(n, c) == Rejecting(n, tokens, parents[c], 0)
Taking(n, c, d) == {u \in Reaching(n, c) : Passes(Redrawn(c, d), u, parents[c], 1)}

\* Of the outcomes that reach a draft, those that take it are the lesser of its two weights.
LEMMA SampledShare ==
    ASSUME FineUniforms, NEW n \in Nat, GrownTo(n), params.sample, params.rule = "exact",
           NEW c \in 0 .. (n - 1), NEW d \in Token, NEW qT, qT = draft_q[c][d] * Total(P(parents[c]))
    PROVE  /\ IsFiniteSet(Reaching(n, c)) /\ IsFiniteSet(Taking(n, c, d))
           /\ Cardinality(Taking(n, c, d)) \in Nat /\ Cardinality(Reaching(n, c)) \in Nat
           /\ Cardinality(Taking(n, c, d)) * qT
                  = Lesser(qT, P(parents[c])[d] * W) * Cardinality(Reaching(n, c))
<1>0. G \in Nat /\ G > 0 /\ W \in Nat
  BY SamplingAssumption
<1>1. PICK i \in Root .. (n - 1) : i = parents[c] /\ HasKids(n, i, 1) /\ Kids(i)[1] = c
  BY SampledRow
<1>2. PICK R : R = Reaching(n, c) /\ R \in SUBSET Uniforms(n)
  BY DEF Reaching, Rejecting
<1>3. FreeAt(R, c)
  <2>1. PICK k \in 1 .. 1 : k = 1
    OBVIOUS
  <2>2. 1 \in Nat /\ Drafted(tokens, n)
    BY DEF GrownTo
  <2>3. FreeAt(Rejecting(n, tokens, i, k - 1), Kids(i)[k])
    BY <2>2, <1>1, RejectingFree
  <2>4. k - 1 = 0
    BY <2>1
  <2> QED BY <2>1, <2>3, <2>4, <1>1, <1>2 DEF Reaching
<1>4. PICK t : SampledAt(t, n, c, d)
  BY SampledThreshold
<1>5. PICK a \in Fraction : a = Acc(Redrawn(c, d), i, 1) /\ t * a[2] = a[1] * G
  BY <1>1, <1>4 DEF SampledAt
<1>6. t \in 0 .. G /\ t \in Nat
  BY <1>0, <1>4 DEF SampledAt
<1>7. PICK b \in Nat : b = a[2] /\ b > 0
  BY <1>5 DEF Fraction
<1>8. ASSUME NEW u \in R PROVE Passes(Redrawn(c, d), u, i, 1) <=> u[c] < t
  <2>1. PICK v \in Nat : v = u[c]
    BY <1>0, <1>2 DEF Uniforms, Uniform
  <2>2. Passes(Redrawn(c, d), u, i, 1) <=> v * b < t * b
    BY <1>1, <1>5, <1>7, <2>1 DEF Passes
  <2>3. v * b < t * b <=> v < t
    BY <1>6, <1>7
  <2> QED BY <2>1, <2>2, <2>3
<1>9. PICK S : S = Taking(n, c, d)
  OBVIOUS
<1>10. S = Below(R, c, t)
  BY <1>1, <1>2, <1>8, <1>9 DEF Taking, Below
<1>11. IsFiniteSet(R) /\ IsFiniteSet(S)
  <2>1. IsFiniteSet(R)
    BY <1>2, UniformsFinite, FS_Subset
  <2>2. S \in SUBSET R
    BY <1>10 DEF Below
  <2> QED BY <2>1, <2>2, FS_Subset
<1>12. PICK A \in Nat, N \in Nat : A = Cardinality(S) /\ N = Cardinality(R)
  BY <1>11, FS_CardinalityType
<1>13. A * G = t * N
  BY <1>2, <1>3, <1>6, <1>10, <1>12, ShareBelow
<1>14. PICK p \in Nat : p = P(i)[d] * W
  <2>1. P(i)[d] \in Nat
    BY RowIs DEF Weights
  <2> QED BY <2>1, <1>0
<1>15. qT \in Nat
  <2>1. draft_q[c][d] \in Nat
    BY SampledRow DEF Weights
  <2>2. Total(P(i)) \in Nat
    BY RowIs
  <2> QED BY <2>1, <2>2, <1>1
<1>16. PICK z \in Nat : z = Lesser(qT, p)
  BY <1>14, <1>15 DEF Lesser
<1>17. t * qT = z * G
  BY <1>1, <1>4, <1>14, <1>16 DEF SampledAt
<1>18. A * qT = z * N
  <2>1. PICK h \in Nat : h = qT
    BY <1>15
  <2>2. G \in Nat /\ G > 0 /\ t \in Nat /\ A * G = t * N /\ t * h = z * G
    BY <1>0, <1>6, <1>13, <1>17, <2>1
  <2>3. A * h = z * N
    BY <2>2, Alike
  <2> QED BY <2>1, <2>3
<1> QED BY <1>1, <1>2, <1>9, <1>11, <1>12, <1>14, <1>16, <1>18

\* What a redrawn row emits.
LEMMA SampledInfo ==
    ASSUME NEW n \in Nat, GrownTo(n), params.sample, NEW c \in 0 .. (n - 1), NEW d \in Token,
           NEW u, NEW v, NEW f, f = Info(Redrawn(c, d), parents[c], u, v)
    PROVE  f.token = IF Passes(Redrawn(c, d), u, parents[c], 1) THEN d
                     ELSE DrawRow(tokens, parents[c], v)
<1>1. PICK i \in Root .. (n - 1) : i = parents[c] /\ HasKids(n, i, 1) /\ Kids(i)[1] = c
  BY SampledRow
<1>2. PICK tok : tok = Redrawn(c, d) /\ Drafted(tok, n) /\ tok[c] = d
  BY RedrawnDrafted
<1>3. PICK m \in Nat : m = 1 /\ HasKids(n, i, m)
  BY <1>1
<1>4. PICK k \in 1 .. m : k = 1
  BY <1>3
<1>5. CASE Passes(tok, u, i, 1)
  <2>1. Fails(tok, u, i, k - 1)
    <3>1. 1 .. (k - 1) = {}
      BY <1>4
    <3> QED BY <3>1 DEF Fails
  <2>2. Passes(tok, u, i, k)
    BY <1>4, <1>5
  <2>3. IsDraft(Info(tok, i, u, v), tok, i, k)
    BY <2>1, <2>2, <1>2, <1>3, InfoDraft
  <2>4. f.token = tok[Kids(i)[k]]
    BY <2>3, <1>1, <1>2 DEF IsDraft
  <2> QED BY <2>4, <1>1, <1>2, <1>4, <1>5
<1>6. CASE ~Passes(tok, u, i, 1)
  <2>1. Fails(tok, u, i, m)
    <3>1. \A j \in 1 .. m : j = 1
      BY <1>3
    <3> QED BY <3>1, <1>6 DEF Fails
  <2>2. IsDraw(Info(tok, i, u, v), tok, i, m, v)
    BY <2>1, <1>2, <1>3, InfoDraw
  <2>3. f.token = DrawRow(tok, i, v)
    BY <2>2, <1>1, <1>2 DEF IsDraw
  <2>4. Left(tok, i) = Left(tokens, i)
    BY <1>1, BeyondIs
  <2>5. DrawRow(tok, i, v) = DrawRow(tokens, i, v)
    BY <2>4 DEF DrawRow
  <2> QED BY <2>3, <2>5, <1>1, <1>2, <1>6
<1> QED BY <1>5, <1>6

SampledEmits(n, c, d, x) ==
    {o \in Reaching(n, c) \X Uniform : Info(Redrawn(c, d), parents[c], o[1], o[2]).token = x}

\* It emits the draft where it is taken, and what is drawn where it is not.
LEMMA SampledOutcomes ==
    ASSUME NEW n \in Nat, GrownTo(n), params.sample, NEW c \in 0 .. (n - 1), NEW d \in Token,
           NEW x \in Token, NEW R, R = Reaching(n, c), NEW S, S = Taking(n, c, d),
           NEW D, D = RowDrawing(parents[c], x)
    PROVE  SampledEmits(n, c, d, x) = (IF d = x THEN S \X Uniform ELSE {}) \cup ((R \ S) \X D)
<1>1. ASSUME NEW o \in R \X Uniform
      PROVE  Info(Redrawn(c, d), parents[c], o[1], o[2]).token = x <=>
                 o \in (IF d = x THEN S \X Uniform ELSE {}) \cup ((R \ S) \X D)
  <2>1. PICK u \in R, v \in Uniform : o = <<u, v>>
    OBVIOUS
  <2>2. PICK f : f = Info(Redrawn(c, d), parents[c], u, v)
    OBVIOUS
  <2>3. f.token = IF Passes(Redrawn(c, d), u, parents[c], 1) THEN d
                  ELSE DrawRow(tokens, parents[c], v)
    BY <2>2, SampledInfo
  <2>4. u \in S <=> Passes(Redrawn(c, d), u, parents[c], 1)
    BY DEF Taking
  <2>5. v \in D <=> DrawRow(tokens, parents[c], v) = x
    BY DEF RowDrawing
  <2>6. o[1] = u /\ o[2] = v
    BY <2>1
  <2>7. f.token = x <=> (u \in S /\ d = x) \/ (u \notin S /\ v \in D)
    BY <2>3, <2>4, <2>5
  <2>8. o \in (IF d = x THEN S \X Uniform ELSE {}) \cup ((R \ S) \X D)
            <=> (u \in S /\ d = x) \/ (u \notin S /\ v \in D)
    BY <2>1
  <2> QED BY <2>2, <2>6, <2>7, <2>8
<1>2. (IF d = x THEN S \X Uniform ELSE {}) \cup ((R \ S) \X D) \in SUBSET (R \X Uniform)
  <2>1. S \in SUBSET R /\ D \in SUBSET Uniform
    BY DEF Taking, RowDrawing
  <2> QED BY <2>1
<1>3. PICK E : E = (IF d = x THEN S \X Uniform ELSE {}) \cup ((R \ S) \X D)
  OBVIOUS
<1>4. SampledEmits(n, c, d, x) = E
  BY <1>1, <1>2, <1>3 DEF SampledEmits
<1> QED BY <1>3, <1>4

\* The outcomes that emit a token: the draft accepted, or refused and the token drawn.
LEMMA SampledCount ==
    ASSUME FineUniforms, NEW n \in Nat, GrownTo(n), params.sample, params.rule = "exact",
           NEW c \in 0 .. (n - 1), NEW d \in Token, NEW x \in Token,
           NEW A, A = Cardinality(Taking(n, c, d)), NEW N, N = Cardinality(Reaching(n, c)),
           NEW D, D = Cardinality(RowDrawing(parents[c], x))
    PROVE  /\ A \in Nat /\ N \in Nat /\ D \in Nat /\ N - A \in Nat
           /\ Cardinality(SampledEmits(n, c, d, x)) = (IF d = x THEN A * G ELSE 0) + (N - A) * D
<1>0. G \in Nat /\ G > 0
  BY SamplingAssumption
<1>1. PICK R : R = Reaching(n, c) /\ IsFiniteSet(R) /\ N = Cardinality(R) /\ N \in Nat
  BY SampledShare
<1>2. PICK S : S = Taking(n, c, d) /\ IsFiniteSet(S) /\ A = Cardinality(S) /\ A \in Nat
  BY SampledShare
<1>3. PICK Z : Z = RowDrawing(parents[c], x) /\ IsFiniteSet(Z) /\ D = Cardinality(Z) /\ D \in Nat
  BY SampledDraws
<1>4. PICK F : F = R \ S /\ IsFiniteSet(F)
  BY <1>1, FS_Subset
<1>5. Cardinality(F) \in Nat
  BY <1>4, FS_CardinalityType
<1>6. N = A + Cardinality(F)
  <2>1. R = S \cup F /\ S \cap F = {}
    BY <1>1, <1>2, <1>4 DEF Taking
  <2>2. Cardinality(R) = Cardinality(S) + Cardinality(F) - Cardinality({})
    BY <2>1, <1>2, <1>4, FS_Union
  <2> QED BY <2>2, <1>1, <1>2, <1>5, FS_EmptySet
<1>7. IsFiniteSet(Uniform) /\ Cardinality(Uniform) = G
  <2>1. G - 1 \in Int /\ 0 \in Int
    BY <1>0
  <2>2. IsFiniteSet(0 .. (G - 1)) /\ Cardinality(0 .. (G - 1)) = IF 0 > G - 1 THEN 0 ELSE (G - 1) - 0 + 1
    BY <2>1, FS_Interval
  <2> QED BY <2>2, <1>0 DEF Uniform
<1>8. PICK K : K = IF d = x THEN S \X Uniform ELSE {}
  OBVIOUS
<1>9. IsFiniteSet(K) /\ Cardinality(K) = IF d = x THEN A * G ELSE 0
  <2>1. CASE d = x
    <3>1. K = S \X Uniform
      BY <2>1, <1>8
    <3>2. IsFiniteSet(S \X Uniform) /\ Cardinality(S \X Uniform) = A * G
      BY <1>2, <1>7, FS_Product
    <3> QED BY <3>1, <3>2, <2>1
  <2>2. CASE d # x
    <3>1. K = {}
      BY <2>2, <1>8
    <3> QED BY <3>1, <2>2, FS_EmptySet
  <2> QED BY <2>1, <2>2
<1>10. PICK H : H = F \X Z
  OBVIOUS
<1>11. IsFiniteSet(H) /\ Cardinality(H) = Cardinality(F) * D
  BY <1>3, <1>4, <1>10, FS_Product
<1>12. K \cap H = {}
  BY <1>4, <1>8, <1>10
<1>13. Cardinality(K \cup H) = Cardinality(K) + Cardinality(H) - Cardinality({})
  BY <1>9, <1>11, <1>12, FS_Union
<1>14. SampledEmits(n, c, d, x) = K \cup H
  BY <1>1, <1>2, <1>3, <1>4, <1>8, <1>10, SampledOutcomes
<1>15. Cardinality(F) = N - A
  BY <1>1, <1>2, <1>5, <1>6
<1>16. PICK y \in Nat : y = (N - A) * D
  BY <1>3, <1>5, <1>15
<1>17. PICK z \in Nat : z = IF d = x THEN A * G ELSE 0
  BY <1>0, <1>2
<1>18. Cardinality(K \cup H) = z + y
  BY <1>9, <1>11, <1>13, <1>15, <1>16, <1>17, FS_EmptySet
<1> QED BY <1>1, <1>2, <1>3, <1>5, <1>14, <1>15, <1>16, <1>17, <1>18

\* A row with all its weight on one token, whatever it is.
LEMMA TotalAlone ==
    ASSUME NEW a \in Token, NEW s \in Nat, NEW h, h = [d \in Token |-> IF d = a THEN s ELSE 0]
    PROVE  h \in Weights /\ Total(h) = s
<1>1. h \in Weights /\ h[a] = s
  BY DEF Weights
<1>2. PICK v : v = [x \in Token |-> 0]
  OBVIOUS
<1>3. v \in Weights /\ Total(v) = 0
  BY <1>2, TotalNone
<1>4. Total(v) = Total(h) - h[a] /\ h[a] <= Total(h)
  BY <1>1, <1>2, <1>3, TotalWithout
<1>5. Total(h) \in Nat
  BY <1>1, RowSums
<1> QED BY <1>1, <1>3, <1>4, <1>5

\* What a test takes and what is beyond it make up the two rows.
LEMMA LesserAnd ==
    ASSUME NEW a \in Nat, NEW b \in Nat
    PROVE  /\ Lesser(a, b) \in Nat /\ a - Lesser(a, b) \in Nat
           /\ Max0(b - a) \in Nat /\ Max0(b - a) + Lesser(a, b) = b
  BY DEF Lesser, Max0

Excess(p, q, T) == [x \in Token |-> Max0(p[x] * W - q[x] * T)]
Takes(A, N, q, p, T) ==
    /\ A \in [Token -> Nat]
    /\ \A d \in Token : /\ N - A[d] \in Nat
                        /\ A[d] * (q[d] * T) = Lesser(q[d] * T, p[d] * W) * N
Emission(q, A, N, D, x) ==
    [d \in Token |-> q[d] * ((IF d = x THEN A[d] * G ELSE 0) + (N - A[d]) * D)]

\* Over the draws of the draft, d taken by A[d] of N uniforms: what the tests take of q and
\* what is then drawn beyond it is the share of p.
LEMMA Lossless ==
    ASSUME NEW q \in Weights, Total(q) = W, NEW p \in Weights, NEW T \in Nat, T = Total(p),
           NEW b, b = Excess(p, q, T), NEW N \in Nat, NEW A, Takes(A, N, q, p, T),
           NEW x \in Token, NEW D \in Nat, D * Total(b) = b[x] * G, NEW e, e = Emission(q, A, N, D, x)
    PROVE  Total(e) * T = p[x] * W * N * G
<1>0. W \in Nat /\ G \in Nat
  BY SamplingAssumption
<1>0a. /\ A \in [Token -> Nat]
       /\ \A d \in Token : /\ N - A[d] \in Nat
                           /\ A[d] * (q[d] * T) = Lesser(q[d] * T, p[d] * W) * N
  BY DEF Takes
<1>1. PICK y : y = [d \in Token |-> q[d] * T]
  OBVIOUS
<1>2. y \in Weights /\ Total(y) = W * T
  BY <1>1, TotalTimes
<1>3. PICK z : z = [d \in Token |-> p[d] * W]
  OBVIOUS
<1>4. z \in Weights /\ Total(z) = T * W
  BY <1>0, <1>3, TotalTimes
<1>5. \A d \in Token : y[d] \in Nat /\ z[d] \in Nat /\ q[d] \in Nat /\ p[d] \in Nat
                       /\ y[d] = q[d] * T /\ z[d] = p[d] * W
  BY <1>1, <1>2, <1>3, <1>4 DEF Weights
<1>6. PICK m : m = [d \in Token |-> Lesser(y[d], z[d])]
  OBVIOUS
<1>7. PICK r : r = [d \in Token |-> y[d] - m[d]]
  OBVIOUS
<1>8. b = [d \in Token |-> Max0(z[d] - y[d])]
  BY <1>1, <1>3 DEF Excess
<1>9. ASSUME NEW d \in Token
      PROVE  m[d] \in Nat /\ r[d] \in Nat /\ b[d] \in Nat /\ b[d] + m[d] = z[d] /\ r[d] + m[d] = y[d]
  <2>1. /\ Lesser(y[d], z[d]) \in Nat /\ y[d] - Lesser(y[d], z[d]) \in Nat
        /\ Max0(z[d] - y[d]) \in Nat /\ Max0(z[d] - y[d]) + Lesser(y[d], z[d]) = z[d]
    BY <1>5, LesserAnd
  <2>2. m[d] = Lesser(y[d], z[d]) /\ r[d] = y[d] - m[d] /\ b[d] = Max0(z[d] - y[d])
    BY <1>6, <1>7, <1>8
  <2> QED BY <2>1, <2>2, <1>5
<1>10. m \in Weights /\ r \in Weights /\ b \in Weights
  BY <1>6, <1>7, <1>8, <1>9 DEF Weights
<1>11. PICK L \in Nat, M \in Nat, F0 \in Nat : L = Total(b) /\ M = Total(m) /\ F0 = Total(r)
  BY <1>10, RowSums
<1>12. L = F0
  <2>1. z = [d \in Token |-> b[d] + m[d]]
    BY <1>3, <1>5, <1>9
  <2>2. y = [d \in Token |-> r[d] + m[d]]
    BY <1>1, <1>5, <1>9
  <2>3. Total(z) = L + M
    BY <2>1, <1>10, <1>11, TotalPlus
  <2>4. Total(y) = F0 + M
    BY <2>2, <1>10, <1>11, TotalPlus
  <2>5. W * T = T * W
    BY <1>0
  <2> QED BY <2>3, <2>4, <2>5, <1>2, <1>4
<1>13. PICK f : f = [d \in Token |-> q[d] * (N - A[d])]
  OBVIOUS
<1>14. f \in Weights
  BY <1>0a, <1>5, <1>13 DEF Weights
<1>15. PICK F \in Nat : F = Total(f)
  BY <1>14, RowSums
<1>16. F * T = L * N
  <2>1. PICK s : s = [d \in Token |-> f[d] * T]
    OBVIOUS
  <2>2. Total(s) = F * T
    BY <2>1, <1>14, <1>15, TotalTimes
  <2>3. ASSUME NEW d \in Token PROVE s[d] = r[d] * N
    <3>1. PICK k \in Nat, j \in Nat, a \in Nat : k = q[d] /\ a = A[d] /\ j = N - a /\ j = N - A[d]
      BY <1>0a, <1>5
    <3>2. s[d] = (k * j) * T
      BY <3>1, <2>1, <1>13
    <3>3. a * (k * T) = m[d] * N
      BY <3>1, <1>0a, <1>5, <1>6
    <3>4. (k * (N - a)) * T = N * (k * T) - a * (k * T)
      OBVIOUS
    <3>5. y[d] = k * T
      BY <3>1, <1>5
    <3>6. r[d] * N = N * y[d] - m[d] * N
      <4>1. PICK u \in Nat, v \in Nat : u = r[d] /\ v = m[d] /\ u + v = y[d]
        BY <1>9
      <4>2. u * N = N * (u + v) - v * N
        OBVIOUS
      <4> QED BY <4>1, <4>2
    <3> QED BY <3>1, <3>2, <3>3, <3>4, <3>5, <3>6
  <2>4. s = [d \in Token |-> r[d] * N]
    BY <2>1, <2>3
  <2>5. Total(s) = F0 * N
    BY <2>4, <1>10, <1>11, TotalTimes
  <2> QED BY <2>2, <2>5, <1>12
<1>17. PICK g : g = [d \in Token |-> f[d] * D]
  OBVIOUS
<1>18. g \in Weights /\ Total(g) = F * D
  BY <1>14, <1>15, <1>17, TotalTimes
<1>19. PICK k \in Nat, a \in Nat, c \in Nat : k = q[x] /\ a = A[x] /\ c = k * (a * G)
  BY <1>0, <1>0a, <1>5
<1>20. PICK h : h = [d \in Token |-> IF d = x THEN c ELSE 0]
  OBVIOUS
<1>21. h \in Weights /\ Total(h) = c
  BY <1>20, TotalAlone
<1>22. e = [d \in Token |-> h[d] + g[d]]
  <2>1. ASSUME NEW d \in Token PROVE e[d] = h[d] + g[d]
    <3>1. PICK i \in Nat, j \in Nat : i = q[d] /\ j = N - A[d]
      BY <1>0a, <1>5
    <3>2. g[d] = (i * j) * D
      BY <3>1, <1>13, <1>17
    <3>3. i * (j * D) = (i * j) * D /\ i * (j * D) \in Nat
      OBVIOUS
    <3>4. CASE d = x
      <4>1. e[d] = i * (a * G + j * D)
        BY <3>1, <3>4, <1>19 DEF Emission
      <4>2. i * (a * G + j * D) = i * (a * G) + i * (j * D)
        BY <1>0
      <4>3. h[d] = i * (a * G)
        BY <3>1, <3>4, <1>19, <1>20
      <4> QED BY <4>1, <4>2, <4>3, <3>2, <3>3
    <3>5. CASE d # x
      <4>1. e[d] = i * (0 + j * D)
        BY <3>1, <3>5 DEF Emission
      <4>2. h[d] = 0
        BY <3>5, <1>20
      <4>3. 0 + j * D = j * D
        OBVIOUS
      <4> QED BY <4>1, <4>2, <4>3, <3>2, <3>3
    <3> QED BY <3>4, <3>5
  <2> QED BY <2>1 DEF Emission
<1>23. Total(e) = c + F * D
  BY <1>18, <1>21, <1>22, TotalPlus
<1>24. PICK u \in Nat, v \in Nat, o \in Nat : u = b[x] /\ v = m[x] /\ o = p[x] /\ u + v = o * W /\ a * (k * T) = v * N
  <2>1. p[x] \in Nat /\ b[x] \in Nat /\ m[x] \in Nat /\ b[x] + m[x] = p[x] * W
    BY <1>5, <1>9
  <2>2. a * (k * T) = m[x] * N
    BY <1>0a, <1>5, <1>6, <1>19
  <2> QED BY <2>1, <2>2
<1>25. D * L = u * G
  BY <1>11, <1>24
<1>26. (c + F * D) * T = ((o * W) * N) * G
  <2>1. (k * (a * G) + F * D) * T = (a * (k * T)) * G + (F * T) * D
    BY <1>0
  <2>2. (v * N) * G + (L * N) * D = (v * N) * G + (D * L) * N
    BY <1>0
  <2>3. (v * N) * G + (u * G) * N = ((u + v) * N) * G
    BY <1>0
  <2>4. (c + F * D) * T = (v * N) * G + (L * N) * D
    BY <2>1, <1>16, <1>19, <1>24
  <2>5. (c + F * D) * T = ((u + v) * N) * G
    BY <2>2, <2>3, <2>4, <1>25
  <2> QED BY <2>5, <1>24
<1> QED BY <1>23, <1>24, <1>26

\* What is emitted at the row of a sampled draft (SampledIsLossless without the
\* definitions).
LosslessAt(n, c, x) ==
    Total([d \in Token |-> draft_q[c][d] * Cardinality(SampledEmits(n, c, d, x))]) * Total(P(parents[c]))
        = P(parents[c])[x] * W * Cardinality(Reaching(n, c)) * G
LEMMA LosslessRow ==
    ASSUME FineUniforms, NEW n \in Nat, GrownTo(n), params.sample, params.rule = "exact",
           NEW c \in 0 .. (n - 1), NEW x \in Token
    PROVE  LosslessAt(n, c, x)
<1>1. PICK i \in Root .. (n - 1) : i = parents[c]
  BY SampledRow
<1>2. PICK q \in Weights : q = draft_q[c] /\ Total(q) = W
  BY SampledRow
<1>3. PICK p \in Weights : p = P(i)
  BY RowIs
<1>4. PICK T \in Nat : T = Total(p)
  BY RowSums
<1>5. PICK b : b = Beyond(c) /\ b = Excess(p, q, T)
  BY <1>1, <1>2, <1>3, <1>4 DEF Beyond, Excess
<1>6. PICK N : N = Cardinality(Reaching(n, c))
  OBVIOUS
<1>7. PICK D : D = Cardinality(RowDrawing(i, x))
  OBVIOUS
<1>8. PICK A : A = [d \in Token |-> Cardinality(Taking(n, c, d))]
  OBVIOUS
<1>9. ASSUME NEW d \in Token
      PROVE  /\ A[d] \in Nat /\ N \in Nat /\ D \in Nat /\ N - A[d] \in Nat
             /\ Cardinality(SampledEmits(n, c, d, x)) = (IF d = x THEN A[d] * G ELSE 0) + (N - A[d]) * D
             /\ A[d] * (q[d] * T) = Lesser(q[d] * T, p[d] * W) * N
  <2>1. PICK a : a = A[d] /\ a = Cardinality(Taking(n, c, d))
    BY <1>8
  <2>2. /\ a \in Nat /\ N \in Nat /\ D \in Nat /\ N - a \in Nat
        /\ Cardinality(SampledEmits(n, c, d, x)) = (IF d = x THEN a * G ELSE 0) + (N - a) * D
    BY <2>1, <1>1, <1>6, <1>7, SampledCount
  <2>3. PICK qT : qT = draft_q[c][d] * Total(P(parents[c])) /\ qT = q[d] * T
    BY <1>1, <1>2, <1>3, <1>4
  <2>4. a * qT = Lesser(qT, P(parents[c])[d] * W) * N
    BY <2>1, <2>3, <1>6, SampledShare
  <2> QED BY <2>1, <2>2, <2>3, <2>4, <1>1, <1>3
<1>10. N \in Nat /\ D \in Nat /\ A \in [Token -> Nat]
  <2>1. \A d \in Token : A[d] \in Nat
    BY <1>9
  <2> QED BY <2>1, <1>8, <1>9
<1>11. D * Total(b) = b[x] * G
  BY <1>1, <1>5, <1>7, SampledDraws
<1>12. PICK e : e = Emission(q, A, N, D, x)
  OBVIOUS
<1>13. Total(e) * T = p[x] * W * N * G
  <2>1. Takes(A, N, q, p, T)
    BY <1>9, <1>10 DEF Takes
  <2> QED BY <2>1, <1>2, <1>4, <1>5, <1>10, <1>11, <1>12, Lossless
<1>14. e = [d \in Token |-> draft_q[c][d] * Cardinality(SampledEmits(n, c, d, x))]
  BY <1>2, <1>9, <1>12 DEF Emission
<1> QED BY <1>1, <1>3, <1>4, <1>6, <1>13, <1>14 DEF LosslessAt

\* Of any tree, nothing is lost at a row with a sampled draft.
LEMMA LosslessInGrown ==
    ASSUME FineUniforms
    PROVE  Grown => SampledIsLossless
<1> SUFFICES ASSUME Grown, params.sample /\ params.rule = "exact", NEW c \in Nodes, NEW x \in Token
             PROVE  LET i == parents[c]
                        p == P(i)
                        reach == {u \in [Nodes -> Uniform] : Reaches(tokens, u, i)}
                        emits(d, y) == Cardinality({o \in reach \X Uniform :
                                           Info([tokens EXCEPT ![c] = d], i, o[1], o[2]).token = y})
                    IN  Total([d \in Token |-> draft_q[c][d] * emits(d, x)]) * Total(p)
                            = p[x] * W * Cardinality(reach) * G
  BY DEF SampledIsLossless
<1>1. PICK n \in Nat : GrownTo(n)
  BY DEF Grown
<1>2. Nodes = 0 .. (n - 1) /\ c \in 0 .. (n - 1)
  BY <1>1, NodesAre
<1>3. PICK i : i = parents[c]
  OBVIOUS
<1>4. PICK reach : reach = {u \in [Nodes -> Uniform] : Reaches(tokens, u, i)}
  OBVIOUS
<1>5. reach = Reaching(n, c)
  <2>1. \A u : Fails(tokens, u, i, 0)
    BY DEF Fails
  <2> QED BY <2>1, <1>2, <1>3, <1>4 DEF Reaching, Rejecting, Uniforms
<1>6. LosslessAt(n, c, x)
  BY <1>1, <1>2, LosslessRow
<1>7. ASSUME NEW d \in Token
      PROVE  {o \in reach \X Uniform : Info([tokens EXCEPT ![c] = d], i, o[1], o[2]).token = x}
                 = SampledEmits(n, c, d, x)
  BY <1>3, <1>5 DEF SampledEmits, Redrawn
<1>8. [d \in Token |-> draft_q[c][d]
           * Cardinality({o \in reach \X Uniform : Info([tokens EXCEPT ![c] = d], i, o[1], o[2]).token = x})]
          = [d \in Token |-> draft_q[c][d] * Cardinality(SampledEmits(n, c, d, x))]
  BY <1>7
<1>9. Total([d \in Token |-> draft_q[c][d] * Cardinality({o \in reach \X Uniform :
                  Info([tokens EXCEPT ![c] = d], i, o[1], o[2]).token = x})]) * Total(P(i))
          = P(i)[x] * W * Cardinality(reach) * G
  <2>1. Total([d \in Token |-> draft_q[c][d] * Cardinality(SampledEmits(n, c, d, x))]) * Total(P(i))
            = P(i)[x] * W * Cardinality(reach) * G
    BY <1>3, <1>5, <1>6 DEF LosslessAt
  <2> QED BY <2>1, <1>8
<1> QED BY <1>3, <1>4, <1>9

\* With uniforms fine enough to divide every threshold, the exact rule emits the target's
\* distribution over the head's draws of a chain's draft (walk, with draft_q).
THEOREM SampledHolds ==
    ASSUME FineUniforms
    PROVE  Spec => []SampledIsLossless
<1>1. Grown => SampledIsLossless
  BY LosslessInGrown
<1> QED BY <1>1, TreesGrow, PTL
==============================================================================
