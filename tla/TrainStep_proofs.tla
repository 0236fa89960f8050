-------------------------- MODULE TrainStep_proofs --------------------------
(***************************************************************************)
(* Theorems about TrainStep, for rollouts of any number of sequences of    *)
(* any length, any number of optimizer steps and any micro-batch size.     *)
(***************************************************************************)
EXTENDS TrainStep, Trees_proofs, FiniteSetTheorems, FunctionTheorems, TLAPS

----------------------------------------------------------------------------
(***************************************************************************)
(* Arithmetic.                                                             *)
(***************************************************************************)
\* Floor division by a positive divisor, with symbolic operands.
LEMMA DivFloors ==
    ASSUME NEW a \in Int, NEW d \in Nat \ {0}
    PROVE  /\ a \div d \in Int
           /\ d * (a \div d) <= a
           /\ a < d * (a \div d) + d
  OBVIOUS

LEMMA ProductGrows ==
    ASSUME NEW x \in Int, NEW y \in Int, NEW d \in Nat \ {0}, x <= y
    PROVE  d * x <= d * y
  OBVIOUS

\* The rollout step is called with.
Called == /\ rollout \in Rollouts
          /\ rollout.prompt \in Seq(Nat \ {0}) /\ rollout.out \in Seq(Nat \ {0})
          /\ N \in Nat \ {0} /\ Len(rollout.out) = N
          /\ rollout.opt_steps \in Nat \ {0} /\ rollout.micro \in Nat \ {0}
          /\ rollout.correction \in Correction

LEMMA CalledInit == rollout \in Rollouts => Called
  BY TrainStepAssumption DEF Called, N

\* Minibatches of ceil(N / opt_steps): opt_steps of them cover the rollout.
LEMMA PerCovers ==
    ASSUME Called
    PROVE  /\ Per \in Nat \ {0}
           /\ N <= rollout.opt_steps * Per
           /\ \A i \in 1 .. N : /\ rollout.prompt[i] \in Nat \ {0}
                                /\ rollout.out[i] \in Nat \ {0}
<1> DEFINE o == rollout.opt_steps
           q == (-N) \div o
<1>1. N \in Nat \ {0} /\ o \in Nat \ {0} /\ -N \in Int
  BY DEF Called
<1>2. q \in Int /\ o * q <= -N
  BY <1>1, DivFloors
<1>3. o * (-q) = -(o * q)
  BY <1>1, <1>2
<1>4. N <= o * (-q)
  BY <1>1, <1>2, <1>3
<1>5. ASSUME -q <= 0 PROVE FALSE
  <2>1. o * (-q) <= o * 0
    BY <1>1, <1>2, <1>5, ProductGrows
  <2> QED
    BY <1>1, <1>4, <2>1
<1>6. /\ rollout.prompt \in Seq(Nat \ {0}) /\ Len(rollout.prompt) = N
      /\ rollout.out \in Seq(Nat \ {0}) /\ Len(rollout.out) = N
  BY DEF Called, N
<1>7. \A i \in 1 .. N : rollout.prompt[i] \in Nat \ {0} /\ rollout.out[i] \in Nat \ {0}
  BY <1>6
<1>8. -q \in Nat \ {0}
  BY <1>2, <1>5
<1> QED
  BY <1>4, <1>7, <1>8 DEF Per

----------------------------------------------------------------------------
(***************************************************************************)
(* Optimizer steps.                                                        *)
(***************************************************************************)
Counts == /\ Called
          /\ mb \in Nat /\ at \in Nat \cup {Between} /\ taken \in Nat
          /\ mb = taken * Per
          /\ taken > 0 => (taken - 1) * Per < N
          /\ at # Between => mb < N

LEMMA CountsInit == Init => Counts
<1> SUFFICES ASSUME Init PROVE Counts
  OBVIOUS
<1>1. Called
  BY CalledInit DEF Init
<1> QED
  BY <1>1, PerCovers DEF Init, Counts, Between

LEMMA CountsKept == Counts /\ [Next]_vars => Counts'
<1> SUFFICES ASSUME Counts, [Next]_vars PROVE Counts'
  OBVIOUS
<1>1. /\ rollout' = rollout /\ N' = N /\ Per' = Per /\ Called' = Called
  BY DEF Next, BeginMinibatch, MicroBatch, OptStep, vars, N, Per, Called
<1>2. Per \in Nat \ {0} /\ rollout.micro \in Nat \ {0}
  BY PerCovers DEF Counts, Called
<1>3. CASE BeginMinibatch
  BY <1>1, <1>3 DEF BeginMinibatch, Counts, Between
<1>4. CASE MicroBatch
  <2>1. at \in Nat /\ at' = at + rollout.micro /\ at' \in Nat
    BY <1>2, <1>4 DEF MicroBatch, Counts
  <2> QED
    BY <1>1, <1>4, <2>1 DEF MicroBatch, Counts
<1>5. CASE OptStep
  <2>1. /\ mb' = mb + Per /\ taken' = taken + 1 /\ at' = Between
        /\ mb < N /\ mb \in Nat /\ taken \in Nat /\ mb = taken * Per
    BY <1>5 DEF OptStep, Counts
  <2>2. (taken + 1) * Per = taken * Per + Per
    BY <1>2, <2>1
  <2>3. taken' * Per = mb' /\ (taken' - 1) * Per < N /\ mb' \in Nat /\ taken' \in Nat
    BY <1>2, <2>1, <2>2
  <2> QED
    BY <1>1, <2>1, <2>3 DEF Counts
<1>6. CASE UNCHANGED vars
  BY <1>1, <1>6 DEF vars, Counts
<1> QED
  BY <1>3, <1>4, <1>5, <1>6 DEF Next

LEMMA CountsHold == Spec => []Counts
  BY CountsInit, CountsKept, PTL DEF Spec

\* Trainer.step takes the optimizer steps it was asked for, unless minibatches of
\* ceil(N / opt_steps) sequences are used up before: then fewer, and never more.
THEOREM StepsTaken == Spec => []StepsAsAsked
<1>1. Counts => StepsAsAsked
  <2> SUFFICES ASSUME Counts, Done PROVE StepsAsAsked
    BY DEF StepsAsAsked
  <2> DEFINE o == rollout.opt_steps
  <2>1. /\ Per \in Nat \ {0} /\ N \in Nat \ {0} /\ o \in Nat \ {0} /\ taken \in Nat
        /\ N <= o * Per /\ N <= taken * Per
    BY PerCovers DEF Counts, Called, Done
  <2>2. taken > 0
    BY <2>1
  <2>3. (taken - 1) * Per < N
    BY <2>2 DEF Counts
  <2>4. \A a, b \in Int : a <= b => a * Per <= b * Per
    <3>1. \A a, b \in Int, d \in Nat \ {0} : a <= b => d * a <= d * b
      BY ProductGrows
    <3>2. \A a \in Int, d \in Nat \ {0} : a * d = d * a
      OBVIOUS
    <3> QED
      BY <2>1, <3>1, <3>2
  <2>5. CASE (o - 1) * Per < N
    <3>1. ASSUME taken <= o - 1 PROVE FALSE
      <4>1. taken * Per <= (o - 1) * Per
        BY <2>1, <2>4, <3>1
      <4> QED
        BY <2>1, <2>5, <4>1
    <3>2. ASSUME o <= taken - 1 PROVE FALSE
      <4>1. o * Per <= (taken - 1) * Per
        BY <2>1, <2>4, <3>2
      <4> QED
        BY <2>1, <2>3, <4>1
    <3>3. taken = o
      BY <2>1, <3>1, <3>2
    <3> QED
      BY <2>5, <3>3 DEF StepsAsAsked
  <2>6. CASE ~((o - 1) * Per < N)
    <3>1. ASSUME o - 1 <= taken - 1 PROVE FALSE
      <4>1. (o - 1) * Per <= (taken - 1) * Per
        BY <2>1, <2>4, <3>1
      <4> QED
        BY <2>1, <2>3, <2>6, <4>1
    <3>2. taken < o
      BY <2>1, <3>1
    <3> QED
      BY <2>1, <2>3, <2>6, <3>2 DEF StepsAsAsked
  <2> QED
    BY <2>5, <2>6
<1> QED
  BY <1>1, CountsHold, PTL

----------------------------------------------------------------------------
(***************************************************************************)
(* Columns, records and weights.                                           *)
(***************************************************************************)
\* The column at which the k-th output token of sequence i is predicted.
ColumnOf(i, k) == k + rollout.prompt[i] - 2

\* The masked columns of the sequences S are those of their output tokens, where the record
\* is the token's own, inside the padded width.
LEMMA MaskIsOutput ==
    ASSUME Called, NEW S \in SUBSET (1 .. N), NEW t \in Mask(S)
    PROVE  /\ t = <<t[1], t[2]>> /\ t[1] \in S /\ t[2] \in Nat
           /\ Predicted(t[1], t[2]) \in 1 .. rollout.out[t[1]]
           /\ Record(t[1], t[2]) = Predicted(t[1], t[2])
           /\ t[2] \in Columns(S)
           /\ t[2] = ColumnOf(t[1], Predicted(t[1], t[2]))
<1>1. PICK i \in S :
          t \in {i} \X ((rollout.prompt[i] - 1) .. (rollout.prompt[i] + rollout.out[i] - 2))
  BY DEF Mask
<1>2. /\ t = <<i, t[2]>> /\ t[1] = i
      /\ t[2] \in (rollout.prompt[i] - 1) .. (rollout.prompt[i] + rollout.out[i] - 2)
  BY <1>1
<1>3. rollout.prompt[i] \in Nat \ {0} /\ rollout.out[i] \in Nat \ {0}
  BY PerCovers
<1>4. t[2] \in 0 .. (rollout.prompt[i] + rollout.out[i] - 2) /\ t[2] \in Nat
  BY <1>2, <1>3
<1>5. t[2] \in Columns(S)
  BY <1>4 DEF Columns
<1>6. t[2] \in (rollout.prompt[i] - 1) .. (rollout.prompt[i] - 2 + rollout.out[i])
  BY <1>2, <1>3
<1>7. /\ Predicted(i, t[2]) \in 1 .. rollout.out[i]
      /\ Record(i, t[2]) = Predicted(i, t[2])
      /\ t[2] = ColumnOf(i, Predicted(i, t[2]))
  BY <1>2, <1>3, <1>4, <1>6 DEF Predicted, Record, ColumnOf
<1> QED
  BY <1>2, <1>4, <1>5, <1>7

\* ... and each output token has its column.
LEMMA OutputIsMasked ==
    ASSUME Called, NEW S \in SUBSET (1 .. N), NEW i \in S, NEW k \in 1 .. rollout.out[i]
    PROVE  /\ <<i, ColumnOf(i, k)>> \in Mask(S)
           /\ Predicted(i, ColumnOf(i, k)) = k
<1>0. rollout.prompt[i] \in Nat \ {0} /\ rollout.out[i] \in Nat \ {0}
  BY PerCovers
<1>1. rollout.prompt[i] \in Nat \ {0} /\ rollout.out[i] \in Nat \ {0} /\ k \in Nat
  BY <1>0
<1>2. ColumnOf(i, k) \in (rollout.prompt[i] - 1) .. (rollout.prompt[i] + rollout.out[i] - 2)
  BY <1>1 DEF ColumnOf
<1>3. <<i, ColumnOf(i, k)>>
          \in {i} \X ((rollout.prompt[i] - 1) .. (rollout.prompt[i] + rollout.out[i] - 2))
  BY <1>2
<1>4. <<i, ColumnOf(i, k)>> \in Mask(S)
  BY <1>3 DEF Mask
<1> QED
  BY <1>1, <1>4 DEF Predicted, ColumnOf

\* The mask of a rollout is finite.
LEMMA MaskFinite ==
    ASSUME Called, NEW S \in SUBSET (1 .. N)
    PROVE  IsFiniteSet(Mask(S))
<1> DEFINE Row(i) == {i} \X ((rollout.prompt[i] - 1) .. (rollout.prompt[i] + rollout.out[i] - 2))
           F == [i \in S |-> Row(i)]
           T == {Row(i) : i \in S}
<1>1. IsFiniteSet(S)
  <2>1. 1 \in Int /\ N \in Int
    BY DEF Called
  <2>2. IsFiniteSet(1 .. N)
    BY <2>1, FS_Interval
  <2> QED
    BY <2>2, FS_Subset
<1>2. F \in Surjection(S, T)
  BY DEF Surjection
<1>3. IsFiniteSet(T)
  BY <1>1, <1>2, FS_Surjection
<1>4. \A i \in S : IsFiniteSet(Row(i))
  <2> TAKE i \in S
  <2>1. rollout.prompt[i] \in Nat \ {0} /\ rollout.out[i] \in Nat \ {0}
    BY PerCovers
  <2>2. IsFiniteSet((rollout.prompt[i] - 1) .. (rollout.prompt[i] + rollout.out[i] - 2))
    <3>1. rollout.prompt[i] - 1 \in Int /\ rollout.prompt[i] + rollout.out[i] - 2 \in Int
      BY <2>1
    <3> QED
      BY <3>1, FS_Interval
  <2>3. IsFiniteSet({i})
    BY FS_Singleton
  <2> QED
    BY <2>2, <2>3, FS_Product
<1>5. Mask(S) = UNION T
  BY DEF Mask
<1>6. \A R \in T : IsFiniteSet(R)
  BY <1>4
<1> HIDE DEF T
<1> QED
  BY <1>3, <1>5, <1>6, FS_UNION

\* token_weights keeps a part of the tokens, all of them unless the correction masks.
LEMMA WeightsKeep ==
    ASSUME Called, NEW S, NEW r \in TokenWeights(S)
    PROVE  /\ r[1] \subseteq S
           /\ rollout.correction \notin Masks => r[1] = S
<1> DEFINE c == rollout.correction
<1>1. CASE c \in {"none", "exact", "snis", "shuffle", "clipped"}
  <2>1. \E w : r = <<S, w>>
    BY <1>1 DEF TokenWeights
  <2> QED
    BY <2>1
<1>2. CASE c = "icepop"
  BY <1>2 DEF TokenWeights, Masks
<1>3. CASE c = "m2po"
  <2>1. \E o \in Orders(S) : r[1] = M2poKept(S, o)
    BY <1>3 DEF TokenWeights
  <2> QED
    BY <1>3, <2>1 DEF M2poKept, Dropped, Masks
<1> QED
  BY <1>1, <1>2, <1>3 DEF Called, Correction

----------------------------------------------------------------------------
(***************************************************************************)
(* What the micro-batches have contributed.                                *)
(***************************************************************************)
\* The last sequence whose micro-batch is done.
Reached == IF at = Between THEN mb ELSE Smaller(mb + at, mb + Per)

Kept == at # Between => /\ keep \subseteq Mask(Minibatch(mb))
                        /\ rollout.correction \notin Masks => keep = Mask(Minibatch(mb))

G == BagToSet(grads)

\* Each contribution so far is of an output token of a sequence reached, against its own
\* record, once; and none is missing, if the correction masks nothing.
Given == /\ \A g \in G : /\ grads[g] = 1
                         /\ g.seq \in 1 .. N /\ g.seq <= Reached
                         /\ g.tok \in 1 .. rollout.out[g.seq] /\ g.rec = g.tok
                         /\ g.step \in 1 .. (IF at = Between THEN taken ELSE taken + 1)
         /\ \A g, h \in G : g.seq = h.seq /\ g.tok = h.tok => g = h
         /\ rollout.correction \notin Masks =>
                \A i \in 1 .. N : \A k \in 1 .. rollout.out[i] :
                    i <= Reached => \E g \in G : g.seq = i /\ g.tok = k

\* The micro-batch at hand is of the sequences after those reached.
LEMMA SliceIsNext ==
    ASSUME Counts, at # Between
    PROVE  /\ at \in Nat /\ Minibatch(mb) \in SUBSET (1 .. N)
           /\ \A i \in Slice : i \in Minibatch(mb) /\ Reached < i /\ i <= mb + at + rollout.micro
           /\ \A i \in 1 .. N : Reached < i /\ i <= Smaller(mb + at + rollout.micro, mb + Per)
                               => i \in Slice
           /\ Slice = {} => \A i \in 1 .. N : i <= mb + Per => i <= Reached
<1>1. /\ at \in Nat /\ mb \in Nat /\ Per \in Nat \ {0} /\ N \in Nat \ {0}
      /\ rollout.micro \in Nat \ {0} /\ mb < N
  BY PerCovers DEF Counts, Called
<1>2. \A i : i \in Minibatch(mb) <=> i \in Int /\ mb < i /\ i <= mb + Per /\ i <= N
  BY <1>1 DEF Minibatch, Smaller
<1>3. \A i : i \in Slice <=> i \in Minibatch(mb) /\ mb + at < i /\ i <= mb + at + rollout.micro
  BY <1>1, <1>2 DEF Slice
<1>4. Reached = IF mb + at < mb + Per THEN mb + at ELSE mb + Per
  BY DEF Reached, Smaller
<1>5. \A i \in Slice : i \in Minibatch(mb) /\ Reached < i /\ i <= mb + at + rollout.micro
  BY <1>1, <1>2, <1>3, <1>4
<1>6. \A i \in 1 .. N : Reached < i /\ i <= Smaller(mb + at + rollout.micro, mb + Per)
                        => i \in Slice
  BY <1>1, <1>2, <1>3, <1>4 DEF Smaller
<1>7. ASSUME NEW i \in 1 .. N, i <= mb + Per, Reached < i, Slice = {}
      PROVE  FALSE
  <2>0. mb + at < i /\ i <= N /\ i \in Int
    BY <1>1, <1>4, <1>7
  <2>1. mb + at + 1 \in Minibatch(mb)
    BY <1>1, <1>2, <1>7, <2>0
  <2>2. mb + at + 1 \in Slice
    BY <1>1, <1>3, <2>1
  <2> QED
    BY <1>7, <2>2
<1>8. Slice = {} => \A i \in 1 .. N : i <= mb + Per => i <= Reached
  <2>1. Reached \in Int
    BY <1>1, <1>4
  <2> QED
    BY <1>1, <1>7, <2>1
<1>9. Minibatch(mb) \in SUBSET (1 .. N)
  BY <1>1, <1>2
<1> QED
  BY <1>1, <1>5, <1>6, <1>8, <1>9

\* The tokens of the micro-batch and what they add.
Added == {Entry(t) : t \in {k \in keep : k[1] \in Slice}}

LEMMA AddedAre ==
    ASSUME Counts, Kept, at # Between
    PROVE  /\ \A g \in Added : /\ g.seq \in Slice /\ g.tok \in 1 .. rollout.out[g.seq]
                               /\ g.rec = g.tok /\ g.step = taken + 1 /\ g.denom = Denom
                               /\ <<g.seq, ColumnOf(g.seq, g.tok)>> \in keep
                               /\ g = Entry(<<g.seq, ColumnOf(g.seq, g.tok)>>)
           /\ \A t \in keep : t[1] \in Slice =>
                  \E g \in Added : g.seq = t[1] /\ g.tok = Predicted(t[1], t[2])
<1>1. Called /\ Minibatch(mb) \in SUBSET (1 .. N) /\ keep \subseteq Mask(Minibatch(mb))
  BY SliceIsNext DEF Counts, Kept
<1>2. ASSUME NEW g \in Added
      PROVE  /\ g.seq \in Slice /\ g.tok \in 1 .. rollout.out[g.seq]
             /\ g.rec = g.tok /\ g.step = taken + 1 /\ g.denom = Denom
             /\ <<g.seq, ColumnOf(g.seq, g.tok)>> \in keep
             /\ g = Entry(<<g.seq, ColumnOf(g.seq, g.tok)>>)
  <2>1. PICK t \in keep : t[1] \in Slice /\ g = Entry(t)
    BY <1>2 DEF Added
  <2>2. /\ t = <<t[1], t[2]>>
        /\ Predicted(t[1], t[2]) \in 1 .. rollout.out[t[1]]
        /\ Record(t[1], t[2]) = Predicted(t[1], t[2])
        /\ t[2] \in Columns(Minibatch(mb))
        /\ t[2] = ColumnOf(t[1], Predicted(t[1], t[2]))
    BY <1>1, <2>1, MaskIsOutput
  <2>3. /\ g.seq = t[1] /\ g.tok = Predicted(t[1], t[2]) /\ g.rec = Record(t[1], t[2])
        /\ g.step = taken + 1 /\ g.denom = Denom
    BY <2>1, <2>2 DEF Entry
  <2> QED
    BY <2>1, <2>2, <2>3
<1>3. ASSUME NEW t \in keep, t[1] \in Slice
      PROVE  \E g \in Added : g.seq = t[1] /\ g.tok = Predicted(t[1], t[2])
  <2>1. Entry(t) \in Added
    BY <1>3 DEF Added
  <2>2. Entry(t).seq = t[1] /\ Entry(t).tok = Predicted(t[1], t[2])
    BY DEF Entry
  <2> QED
    BY <2>1, <2>2
<1> QED
  BY <1>2, <1>3

LEMMA KeptKept == Counts /\ Kept /\ [Next]_vars => Kept'
<1> SUFFICES ASSUME Counts, Kept, [Next]_vars PROVE Kept'
  OBVIOUS
<1>1. CASE BeginMinibatch
  <2>1. PICK r \in TokenWeights(Mask(Minibatch(mb))) : keep' = r[1]
    BY <1>1 DEF BeginMinibatch
  <2>2. /\ keep' \subseteq Mask(Minibatch(mb))
        /\ rollout.correction \notin Masks => keep' = Mask(Minibatch(mb))
    BY <2>1, WeightsKeep DEF Counts
  <2>3. rollout' = rollout /\ Mask(Minibatch(mb))' = Mask(Minibatch(mb))
    BY <1>1 DEF BeginMinibatch, Mask, Minibatch, N, Per
  <2> QED
    BY <2>2, <2>3 DEF Kept
<1>2. CASE MicroBatch \/ UNCHANGED vars
  <2>1. /\ rollout' = rollout /\ keep' = keep /\ Mask(Minibatch(mb))' = Mask(Minibatch(mb))
        /\ at' # Between => at # Between
    BY <1>2 DEF MicroBatch, vars, Mask, Minibatch, N, Per
  <2> QED
    BY <2>1 DEF Kept
<1>3. CASE OptStep
  BY <1>3 DEF OptStep, Kept
<1> QED
  BY <1>1, <1>2, <1>3 DEF Next

\* A step that adds nothing and reaches no further.
LEMMA GivenStays ==
    ASSUME Given, rollout' = rollout, grads' = grads,
           \A i \in 1 .. N : i <= Reached <=> i <= Reached',
           \A n \in Int : n \in 1 .. (IF at = Between THEN taken ELSE taken + 1) =>
                         n \in 1 .. (IF at' = Between THEN taken' ELSE taken' + 1)
    PROVE  Given'
<1>1. N' = N /\ G' = G
  BY DEF N, G
<1> QED
  BY <1>1 DEF Given

LEMMA MicroGives ==
    ASSUME Counts, Kept, Given, MicroBatch
    PROVE  Given'
<1>1. /\ at # Between /\ Slice # {} /\ at' = at + rollout.micro
      /\ UNCHANGED <<rollout, mb, keep, weight, taken>>
      /\ grads' = grads (+) SetToBag(Added)
  BY DEF MicroBatch, Added
<1>2. N' = N /\ Per' = Per
  BY <1>1 DEF N, Per
<1>3. /\ at \in Nat /\ mb \in Nat /\ Per \in Nat \ {0} /\ rollout.micro \in Nat \ {0} /\ N \in Nat \ {0}
      /\ taken \in Nat /\ Minibatch(mb) \in SUBSET (1 .. N)
  BY <1>1, PerCovers, SliceIsNext DEF Counts, Called
<1>4. /\ at' # Between
      /\ Reached' = Smaller(mb + at + rollout.micro, mb + Per)
      /\ Reached = Smaller(mb + at, mb + Per) /\ Reached \in Int /\ Reached' \in Int
      /\ Reached <= Reached'
  BY <1>1, <1>2, <1>3 DEF Reached, Between, Smaller
<1>5. \A i \in Slice : i \in 1 .. N /\ Reached < i /\ i <= Reached'
  <2> TAKE i \in Slice
  <2>1. i \in Minibatch(mb) /\ Reached < i /\ i <= mb + at + rollout.micro
    BY <1>1, SliceIsNext
  <2>2. i \in 1 .. N /\ i <= mb + Per
    BY <1>3, <2>1 DEF Minibatch, Smaller
  <2> QED
    BY <1>3, <1>4, <2>1, <2>2 DEF Smaller
<1>6. /\ G' = G \cup Added
      /\ \A g \in G \ Added : grads'[g] = grads[g] + 0
      /\ \A g \in Added \ G : grads'[g] = 0 + 1
  BY <1>1 DEF G, BagToSet, SetToBag, (+)
<1>7. \A g \in Added : /\ g.seq \in Slice /\ g.tok \in 1 .. rollout.out[g.seq]
                       /\ g.rec = g.tok /\ g.step = taken + 1
                       /\ g = Entry(<<g.seq, ColumnOf(g.seq, g.tok)>>)
  BY <1>1, AddedAre
<1>8. \A g \in G : g.seq \in 1 .. N /\ g.seq <= Reached
  BY DEF Given
<1>9. G \cap Added = {}
  <2> SUFFICES ASSUME NEW g \in G, g \in Added PROVE FALSE
    OBVIOUS
  <2>1. Reached < g.seq /\ g.seq <= Reached /\ g.seq \in 1 .. N
    BY <1>5, <1>7, <1>8
  <2> QED
    BY <1>4, <2>1
<1>10. \A g \in G' : /\ grads'[g] = 1
                     /\ g.seq \in 1 .. N /\ g.seq <= Reached'
                     /\ g.tok \in 1 .. rollout.out[g.seq] /\ g.rec = g.tok
                     /\ g.step \in 1 .. (taken + 1)
  <2> TAKE g \in G'
  <2>1. CASE g \in G
    <3>1. /\ grads[g] = 1 /\ g.seq \in 1 .. N /\ g.seq <= Reached
          /\ g.tok \in 1 .. rollout.out[g.seq] /\ g.rec = g.tok
          /\ g.step \in 1 .. (taken + 1)
      BY <1>1, <2>1 DEF Given
    <3>2. g \notin Added
      BY <1>9, <2>1
    <3>3. grads'[g] = 1 + 0
      BY <1>6, <2>1, <3>1, <3>2
    <3>4. g.seq <= Reached'
      BY <1>3, <1>4, <3>1
    <3> QED
      BY <3>1, <3>3, <3>4
  <2>2. CASE g \in Added
    <3>1. /\ g.seq \in Slice /\ g.tok \in 1 .. rollout.out[g.seq]
          /\ g.rec = g.tok /\ g.step = taken + 1
      BY <1>7, <2>2
    <3>2. g.seq \in 1 .. N /\ g.seq <= Reached'
      BY <1>5, <3>1
    <3>3. g \notin G
      BY <1>9, <2>2
    <3>4. grads'[g] = 0 + 1
      BY <1>6, <2>2, <3>3
    <3>5. g.step \in 1 .. (taken + 1)
      BY <1>3, <3>1
    <3> QED
      BY <3>1, <3>2, <3>4, <3>5
  <2> QED
    BY <1>6, <2>1, <2>2
<1>11. \A g, h \in G' : g.seq = h.seq /\ g.tok = h.tok => g = h
  <2> SUFFICES ASSUME NEW g \in G', NEW h \in G', g.seq = h.seq, g.tok = h.tok
               PROVE  g = h
    OBVIOUS
  <2>1. CASE g \in G /\ h \in G
    BY <2>1 DEF Given
  <2>2. CASE g \in Added /\ h \in Added
    BY <1>7, <2>2
  <2>3. ASSUME NEW x \in G, NEW y \in Added PROVE x.seq # y.seq
    <3>1. Reached < y.seq /\ x.seq <= Reached /\ x.seq \in 1 .. N /\ y.seq \in 1 .. N
      BY <1>5, <1>7, <1>8
    <3> QED
      BY <1>4, <3>1
  <2> QED
    BY <1>6, <2>1, <2>2, <2>3
<1>12. ASSUME rollout.correction \notin Masks, NEW i \in 1 .. N, NEW k \in 1 .. rollout.out[i],
              i <= Reached'
       PROVE  \E g \in G' : g.seq = i /\ g.tok = k
  <2>1. CASE i <= Reached
    BY <1>6, <1>12, <2>1 DEF Given
  <2>2. CASE Reached < i
    <3>1. i \in Slice
      BY <1>1, <1>4, <1>12, <2>2, SliceIsNext
    <3>2. i \in Minibatch(mb)
      BY <1>1, <3>1, SliceIsNext
    <3>3. /\ <<i, ColumnOf(i, k)>> \in Mask(Minibatch(mb))
          /\ Predicted(i, ColumnOf(i, k)) = k
      BY <1>3, <3>2, OutputIsMasked DEF Counts
    <3>4. <<i, ColumnOf(i, k)>> \in keep
      BY <1>1, <1>12, <3>3 DEF Kept
    <3> DEFINE t == <<i, ColumnOf(i, k)>>
    <3>5. t \in keep /\ t[1] = i /\ t[2] = ColumnOf(i, k)
      BY <3>4
    <3> HIDE DEF t
    <3>6. \E g \in Added : g.seq = t[1] /\ g.tok = Predicted(t[1], t[2])
      BY <1>1, <3>1, <3>5, AddedAre
    <3> QED
      BY <1>6, <3>3, <3>5, <3>6
  <2> QED
    BY <1>4, <2>1, <2>2
<1> QED
  BY <1>1, <1>2, <1>4, <1>10, <1>11, <1>12 DEF Given

LEMMA GivenKept == Counts /\ Kept /\ Given /\ [Next]_vars => Given'
<1> SUFFICES ASSUME Counts, Kept, Given, [Next]_vars PROVE Given'
  OBVIOUS
<1>0. /\ mb \in Nat /\ taken \in Nat /\ Per \in Nat \ {0} /\ N \in Nat \ {0}
  BY PerCovers DEF Counts, Called
<1>1. CASE BeginMinibatch
  <2>1. /\ at = Between /\ at' = 0 /\ 0 # Between /\ taken' = taken
        /\ UNCHANGED <<rollout, grads, mb>>
    BY <1>1 DEF BeginMinibatch, Between
  <2>2. Reached' = Reached
    BY <1>0, <2>1 DEF Reached, Smaller, Per, N
  <2> QED
    BY <1>0, <2>1, <2>2, GivenStays
<1>2. CASE MicroBatch
  BY <1>2, MicroGives
<1>3. CASE OptStep
  <2>1. /\ at # Between /\ Slice = {} /\ at' = Between /\ mb' = mb + Per /\ taken' = taken + 1
        /\ UNCHANGED <<rollout, grads>>
    BY <1>3 DEF OptStep
  <2>2. Reached' = mb + Per /\ at \in Nat
    BY <2>1, SliceIsNext DEF Reached
  <2>3. Reached <= mb + Per
    BY <1>0, <2>1, <2>2 DEF Reached, Smaller
  <2>4. \A i \in 1 .. N : i <= mb + Per => i <= Reached
    BY <2>1, SliceIsNext
  <2>5. Reached \in Int
    BY <1>0, <2>1, <2>2 DEF Reached, Smaller
  <2>6. \A i \in 1 .. N : i <= Reached <=> i <= Reached'
    BY <1>0, <2>2, <2>3, <2>4, <2>5
  <2> QED
    BY <1>0, <2>1, <2>6, GivenStays
<1>4. CASE UNCHANGED vars
  <2>1. UNCHANGED <<rollout, grads, at, taken>> /\ Reached' = Reached
    BY <1>4 DEF vars, Reached, Smaller, Per, N
  <2> QED
    BY <2>1, GivenStays
<1> QED
  BY <1>1, <1>2, <1>3, <1>4 DEF Next

LEMMA GivenInit == Init => Kept /\ Given
<1> SUFFICES ASSUME Init PROVE Kept /\ Given
  OBVIOUS
<1>1. Kept
  BY DEF Init, Kept
<1>2. G = {}
  BY DEF Init, G, BagToSet, EmptyBag, SetToBag
<1>3. Called
  BY CalledInit DEF Init
<1>4. Reached = 0
  BY DEF Init, Reached
<1>5. \A i \in 1 .. N : ~ i <= Reached
  BY <1>3, <1>4 DEF Called
<1>6. Given
  BY <1>2, <1>5 DEF Given
<1> QED
  BY <1>1, <1>6

LEMMA GivenHold == Spec => [](Counts /\ Kept /\ Given)
  BY CountsInit, CountsKept, GivenInit, KeptKept, GivenKept, PTL DEF Spec

\* kl_to_ref's micro-batches of the whole rollout are of its output tokens, once each.
LEMMA KlPairsAre ==
    ASSUME Called
    PROVE  KlPairs = {[seq |-> t[1], tok |-> t[2], rec |-> t[2]] : t \in Tokens}
<1> DEFINE Sl(s) == {i \in 1 .. N : i - s \in 1 .. rollout.micro}
           Q     == {rollout.micro * q : q \in 0 .. (N - 1)}
           Pair(t) == [seq |-> t[1], tok |-> Predicted(t[1], t[2]), rec |-> Record(t[1], t[2])]
           Want(t) == [seq |-> t[1], tok |-> t[2], rec |-> t[2]]
<1>1. KlPairs = UNION {{Pair(t) : t \in Mask(Sl(s))} : s \in Q}
  BY DEF KlPairs
<1>2. \A s : Sl(s) \in SUBSET (1 .. N)
  OBVIOUS
<1>3. \A t : t \in Tokens <=> \E i \in 1 .. N : \E k \in 1 .. rollout.out[i] : t = <<i, k>>
  BY DEF Tokens
<1>4. ASSUME NEW s \in Q, NEW t \in Mask(Sl(s))
      PROVE  \E u \in Tokens : Pair(t) = Want(u)
  <2>1. /\ t[1] \in 1 .. N /\ Predicted(t[1], t[2]) \in 1 .. rollout.out[t[1]]
        /\ Record(t[1], t[2]) = Predicted(t[1], t[2])
    BY <1>2, <1>4, MaskIsOutput
  <2>2. <<t[1], Predicted(t[1], t[2])>> \in Tokens
    BY <1>3, <2>1
  <2>3. Pair(t) = Want(<<t[1], Predicted(t[1], t[2])>>)
    BY <2>1
  <2> QED
    BY <2>2, <2>3
<1>5. ASSUME NEW u \in Tokens
      PROVE  \E s \in Q : \E t \in Mask(Sl(s)) : Pair(t) = Want(u)
  <2>1. PICK i \in 1 .. N : \E k \in 1 .. rollout.out[i] : u = <<i, k>>
    BY <1>3
  <2>1a. PICK k \in 1 .. rollout.out[i] : u = <<i, k>>
    BY <2>1
  <2> DEFINE m == rollout.micro
  <2>2. m \in Nat \ {0} /\ N \in Nat \ {0} /\ i \in 1 .. N /\ i - 1 \in Int
    BY DEF Called
  <2> HIDE DEF m
  <2> DEFINE q == (i - 1) \div m
  <2>3. q \in Int /\ m * q <= i - 1 /\ i - 1 < m * q + m
    BY <2>2, DivFloors
  <2> HIDE DEF q
  <2>4. q >= 0
    <3>1. ASSUME q <= -1 PROVE FALSE
      <4>1. m * q <= m * (-1)
        BY <2>2, <2>3, <3>1, ProductGrows
      <4> QED
        BY <2>2, <2>3, <4>1
    <3> QED
      BY <2>3, <3>1
  <2>5. q <= N - 1
    <3>1. ASSUME q >= N PROVE FALSE
      <4>1. m * N <= m * q
        BY <2>2, <2>3, <3>1, ProductGrows
      <4>2. N * 1 <= N * m
        BY <2>2, ProductGrows
      <4>3. N * m = m * N
        BY <2>2
      <4> QED
        BY <2>2, <2>3, <4>1, <4>2, <4>3
    <3> QED
      BY <2>2, <2>3, <3>1
  <2> DEFINE s == m * q
  <2>6. s \in Q
    BY <2>3, <2>4, <2>5 DEF m
  <2>7. i \in Sl(s)
    <3>1. s \in Int
      BY <2>2, <2>3
    <3>2. i - s \in 1 .. m
      BY <2>2, <2>3, <3>1
    <3> QED
      BY <2>2, <3>2 DEF m
  <2> DEFINE t == <<i, ColumnOf(i, k)>>
  <2>8. t \in Mask(Sl(s)) /\ Predicted(i, ColumnOf(i, k)) = k
    BY <1>2, <2>7, OutputIsMasked
  <2>9. Record(i, ColumnOf(i, k)) = k
    BY <1>2, <2>8, MaskIsOutput
  <2>10. Pair(t) = Want(u)
    BY <2>1a, <2>8, <2>9
  <2> QED
    BY <2>6, <2>8, <2>10
<1>6. ASSUME NEW x
      PROVE  x \in KlPairs <=> x \in {Want(t) : t \in Tokens}
  <2>1. ASSUME x \in KlPairs PROVE x \in {Want(t) : t \in Tokens}
    <3>1. PICK s \in Q : x \in {Pair(t) : t \in Mask(Sl(s))}
      BY <1>1, <2>1
    <3>2. PICK t \in Mask(Sl(s)) : x = Pair(t)
      BY <3>1
    <3>3. \E u \in Tokens : Pair(t) = Want(u)
      BY <1>4, <3>1, <3>2
    <3> HIDE DEF Pair, Want
    <3> QED
      BY <3>2, <3>3
  <2>2. ASSUME x \in {Want(t) : t \in Tokens} PROVE x \in KlPairs
    <3>1. PICK u \in Tokens : x = Want(u)
      BY <2>2
    <3>2. \E s \in Q : \E t \in Mask(Sl(s)) : Pair(t) = Want(u)
      BY <1>5, <3>1
    <3> HIDE DEF Pair, Want, Q, Sl
    <3> QED
      BY <1>1, <3>1, <3>2
  <2> QED
    BY <2>1, <2>2
<1> QED
  BY <1>6

\* However a rollout is cut into minibatches and micro-batches, padded and masked, each of
\* its output tokens is trained on once, against the record the engine made of it.
THEOREM TokensTrainOnce == Spec => []EveryTokenOnce
<1>1. Counts /\ Kept /\ Given => EveryTokenOnce
  <2> SUFFICES ASSUME Counts, Given, Done PROVE EveryTokenOnce
    BY DEF EveryTokenOnce
  <2>1. Called /\ N \in Nat /\ mb \in Nat /\ Reached = mb /\ mb >= N
    BY DEF Counts, Called, Done, Reached
  <2>2. \A t : t \in Tokens <=> \E i \in 1 .. N : \E k \in 1 .. rollout.out[i] : t = <<i, k>>
    BY DEF Tokens
  <2>3. \A g, h \in BagToSet(grads) : g.seq = h.seq /\ g.tok = h.tok => g = h
    BY DEF Given, G
  <2>4. \A g \in BagToSet(grads) : /\ grads[g] = 1
                                   /\ <<g.seq, g.tok>> \in Tokens
                                   /\ g.rec = g.tok
    BY <2>2 DEF Given, G
  <2>5. ASSUME rollout.correction \notin Masks, NEW t \in Tokens
        PROVE  \E g \in BagToSet(grads) : t = <<g.seq, g.tok>>
    <3>1. \E i \in 1 .. N : \E k \in 1 .. rollout.out[i] : t = <<i, k>>
      BY <2>2, <2>5
    <3>2. PICK i \in 1 .. N : \E k \in 1 .. rollout.out[i] : t = <<i, k>>
      BY <3>1
    <3>3. PICK k \in 1 .. rollout.out[i] : t = <<i, k>>
      BY <3>2
    <3>4. i <= Reached
      BY <2>1
    <3>5. \E g \in G : g.seq = i /\ g.tok = k
      BY <2>5, <3>4 DEF Given
    <3> QED
      BY <3>3, <3>5 DEF G
  <2>6. rollout.correction \notin Masks => Tokens = {<<g.seq, g.tok>> : g \in BagToSet(grads)}
    BY <2>4, <2>5
  <2>7. KlPairs = {[seq |-> t[1], tok |-> t[2], rec |-> t[2]] : t \in Tokens}
    BY <2>1, KlPairsAre
  <2> QED
    BY <2>3, <2>4, <2>6, <2>7 DEF EveryTokenOnce
<1> QED
  BY <1>1, GivenHold, PTL

----------------------------------------------------------------------------
(***************************************************************************)
(* What the contributions are divided by.                                  *)
(***************************************************************************)
\* The column a contribution is about.
Back(g) == <<g.seq, ColumnOf(g.seq, g.tok)>>

\* The contributions of the steps taken are divided by their number; those of the minibatch
\* at hand by the number of tokens kept, each of which has contributed once its sequence
\* is reached.
Divided == /\ \A k \in 1 .. taken : \A g \in Of(k) : g.denom = Cardinality(Of(k))
           /\ at # Between =>
                  /\ \A g \in Of(taken + 1) : g.denom = Denom /\ Back(g) \in keep
                  /\ \A t \in keep : t[1] <= Reached => \E g \in Of(taken + 1) : Back(g) = t

LEMMA DividedInit == Init => Divided
<1> SUFFICES ASSUME Init PROVE Divided
  OBVIOUS
<1>1. at = Between /\ taken = 0
  BY DEF Init
<1>2. \A k \in 1 .. taken : FALSE
  BY <1>1
<1> QED
  BY <1>1, <1>2 DEF Divided

LEMMA DividedBegin ==
    ASSUME Counts, Kept, Given, Divided, BeginMinibatch
    PROVE  Divided'
<1>1. /\ at = Between /\ at' = 0 /\ 0 # Between /\ at' # Between
      /\ UNCHANGED <<rollout, mb, grads, taken>>
  BY DEF BeginMinibatch, Between
<1>2. /\ mb \in Nat /\ taken \in Nat /\ Per \in Nat \ {0} /\ N \in Nat \ {0}
      /\ Minibatch(mb)' = Minibatch(mb)
  BY <1>1, PerCovers DEF Counts, Called, Minibatch, Per, N
<1>3. \A k : Of(k)' = Of(k)
  BY <1>1 DEF Of
<1>4. Of(taken + 1) = {}
  <2>1. \A g \in G : g.step \in 1 .. taken
    BY <1>1 DEF Given
  <2> QED
    BY <1>2, <2>1 DEF Of, G
<1>5. Of(taken + 1)' = {}
  BY <1>1, <1>4 DEF Of
<1>6. Reached' = mb
  BY <1>1, <1>2 DEF Reached, Smaller, Per, N
<1>7. ASSUME NEW t \in keep', t[1] <= Reached' PROVE FALSE
  <2>1. /\ Minibatch(mb) \in SUBSET (1 .. N)
        /\ \A i \in Minibatch(mb) : i \in Int /\ mb < i
    BY <1>2 DEF Minibatch, Smaller
  <2>2. keep' \subseteq Mask(Minibatch(mb))
    <3>1. PICK r \in TokenWeights(Mask(Minibatch(mb))) : keep' = r[1]
      BY DEF BeginMinibatch
    <3> QED
      BY <3>1, WeightsKeep DEF Counts
  <2>3. t[1] \in Minibatch(mb)
    BY <1>7, <2>1, <2>2, MaskIsOutput DEF Counts
  <2> QED
    BY <1>2, <1>6, <1>7, <2>1, <2>3
<1> QED
  BY <1>1, <1>3, <1>5, <1>7 DEF Divided

LEMMA DividedMicro ==
    ASSUME Counts, Kept, Given, Given', Divided, MicroBatch
    PROVE  Divided'
<1>1. /\ at # Between /\ Slice # {} /\ at' = at + rollout.micro
      /\ UNCHANGED <<rollout, mb, keep, weight, taken>>
      /\ grads' = grads (+) SetToBag(Added)
  BY DEF MicroBatch, Added
<1>2. N' = N /\ Per' = Per /\ Denom' = Denom
  BY <1>1 DEF N, Per, Denom
<1>3. /\ at \in Nat /\ mb \in Nat /\ Per \in Nat \ {0} /\ rollout.micro \in Nat \ {0} /\ N \in Nat \ {0}
      /\ taken \in Nat /\ Minibatch(mb) \in SUBSET (1 .. N)
  BY <1>1, PerCovers, SliceIsNext DEF Counts, Called
<1>4. BagToSet(grads)' = BagToSet(grads) \cup Added
  BY <1>1 DEF BagToSet, SetToBag, (+)
<1>5. \A g \in Added : g.step = taken + 1 /\ g.denom = Denom /\ Back(g) \in keep
  BY <1>1, AddedAre DEF Back
<1>6. \A k \in 1 .. taken : Of(k)' = Of(k)
  <2> TAKE k \in 1 .. taken
  <2>1. k # taken + 1
    BY <1>3
  <2> QED
    BY <1>4, <1>5, <2>1 DEF Of
<1>7. Of(taken + 1)' = Of(taken + 1) \cup Added
  BY <1>1, <1>4, <1>5 DEF Of
<1>8. \A g \in Of(taken + 1)' : g.denom = Denom' /\ Back(g)' \in keep'
  <2>1. \A g : Back(g)' = Back(g)
    BY <1>1 DEF Back, ColumnOf
  <2> QED
    BY <1>1, <1>2, <1>5, <1>7, <2>1 DEF Divided
<1>9. ASSUME NEW t \in keep, t[1] <= Reached'
      PROVE  \E g \in Of(taken + 1)' : Back(g)' = t
  <2>1. \A g : Back(g)' = Back(g)
    BY <1>1 DEF Back, ColumnOf
  <2>2. /\ t = <<t[1], t[2]>> /\ t[1] \in 1 .. N
        /\ t[2] = ColumnOf(t[1], Predicted(t[1], t[2]))
    BY <1>1, <1>3, MaskIsOutput DEF Counts, Kept
  <2>3. CASE t[1] <= Reached
    BY <1>1, <1>7, <2>1, <2>3 DEF Divided
  <2>4. CASE Reached < t[1]
    <3>1. Reached' = Smaller(mb + at + rollout.micro, mb + Per)
      <4>1. at' # Between
        BY <1>1, <1>3 DEF Between
      <4> QED
        BY <1>1, <1>2, <1>3, <4>1 DEF Reached
    <3>2. t[1] \in Slice
      BY <1>1, <1>9, <2>2, <2>4, <3>1, SliceIsNext
    <3>3. PICK g \in Added : g.seq = t[1] /\ g.tok = Predicted(t[1], t[2])
      BY <1>1, <3>2, AddedAre
    <3>4. Back(g) = t
      BY <2>2, <3>3 DEF Back
    <3> QED
      BY <1>7, <2>1, <3>3, <3>4
  <2>5. Reached \in Int
    BY <1>1, <1>3 DEF Reached, Smaller
  <2> QED
    BY <2>2, <2>3, <2>4, <2>5
<1> QED
  BY <1>1, <1>6, <1>8, <1>9 DEF Divided

\* Once every sequence of the minibatch is reached, each token kept has contributed once.
LEMMA AllContributed ==
    ASSUME Counts, Kept, Given, Divided, at # Between, Slice = {}
    PROVE  /\ \A t \in keep : \E g \in Of(taken + 1) : Back(g) = t
           /\ \A g, h \in Of(taken + 1) : Back(g) = Back(h) => g = h
<1> DEFINE H == Of(taken + 1)
<1>1. /\ Called /\ Minibatch(mb) \in SUBSET (1 .. N) /\ keep \subseteq Mask(Minibatch(mb))
      /\ mb \in Nat /\ Per \in Nat \ {0} /\ N \in Nat \ {0}
      /\ \A i \in 1 .. N : i <= mb + Per => i <= Reached
  BY PerCovers, SliceIsNext DEF Counts, Kept, Called
<1>2. \A t \in keep : \E g \in H : Back(g) = t
  <2> TAKE t \in keep
  <2>1. t[1] \in Minibatch(mb)
    BY <1>1, MaskIsOutput
  <2>2. t[1] \in 1 .. N /\ t[1] <= mb + Per
    BY <1>1, <2>1 DEF Minibatch, Smaller
  <2> QED
    BY <1>1, <2>2 DEF Divided
<1>3. \A g, h \in H : Back(g) = Back(h) => g = h
  <2> SUFFICES ASSUME NEW g \in H, NEW h \in H, Back(g) = Back(h) PROVE g = h
    OBVIOUS
  <2>1. /\ g \in G /\ h \in G
        /\ g.seq = h.seq /\ ColumnOf(g.seq, g.tok) = ColumnOf(h.seq, h.tok)
    BY DEF Of, G, Back
  <2>2. /\ g.seq \in 1 .. N /\ g.tok \in 1 .. rollout.out[g.seq]
        /\ h.tok \in 1 .. rollout.out[g.seq]
    BY <2>1 DEF Given
  <2>3. /\ rollout.prompt[g.seq] \in Nat \ {0} /\ rollout.out[g.seq] \in Nat \ {0}
        /\ g.tok \in Nat /\ h.tok \in Nat
    BY <1>1, <2>2, PerCovers
  <2>4. g.tok = h.tok
    BY <2>1, <2>3 DEF ColumnOf
  <2> QED
    BY <2>1, <2>4 DEF Given
<1> QED
  BY <1>2, <1>3

\* ... and there are as many contributions as tokens kept.
LEMMA DividedAll ==
    ASSUME Counts, Kept, Given, Divided, at # Between, Slice = {}
    PROVE  \A g \in Of(taken + 1) : g.denom = Cardinality(Of(taken + 1))
<1> DEFINE H == Of(taken + 1)
           F == [g \in H |-> Back(g)]
<1>1. Called /\ Minibatch(mb) \in SUBSET (1 .. N) /\ keep \subseteq Mask(Minibatch(mb))
  BY SliceIsNext DEF Counts, Kept
<1>2. \A g \in H : g.denom = Denom /\ Back(g) \in keep
  BY DEF Divided
<1>3. /\ \A t \in keep : \E g \in H : Back(g) = t
      /\ \A g, h \in H : Back(g) = Back(h) => g = h
  BY AllContributed
<1>4. F \in Bijection(H, keep)
  <2>1. /\ F \in [H -> keep]
        /\ \A g, h \in H : F[g] = F[h] => g = h
        /\ \A t \in keep : \E g \in H : F[g] = t
    BY <1>2, <1>3
  <2> HIDE DEF F, H
  <2> QED
    BY <2>1, Fun_IsBij
<1>5. IsFiniteSet(keep)
  BY <1>1, MaskFinite, FS_Subset
<1>6. ExistsBijection(keep, H)
  BY <1>4, Fun_ExistsBijSymmetric DEF ExistsBijection
<1>7. IsFiniteSet(H) /\ Cardinality(H) = Cardinality(keep)
  BY <1>5, <1>6, FS_Bijection
<1> QED
  BY <1>2, <1>7 DEF Denom

LEMMA DividedKept == Counts /\ Kept /\ Given /\ Divided /\ Given' /\ [Next]_vars => Divided'
<1> SUFFICES ASSUME Counts, Kept, Given, Divided, Given', [Next]_vars PROVE Divided'
  OBVIOUS
<1>1. CASE BeginMinibatch
  BY <1>1, DividedBegin
<1>2. CASE MicroBatch
  BY <1>2, DividedMicro
<1>3. CASE OptStep
  <2>1. /\ at # Between /\ Slice = {} /\ at' = Between /\ taken' = taken + 1
        /\ grads' = grads /\ taken \in Nat
    BY <1>3 DEF OptStep, Counts
  <2>2. \A k : Of(k)' = Of(k)
    BY <2>1 DEF Of
  <2>3. \A k \in 1 .. taken' : k \in 1 .. taken \/ k = taken + 1
    BY <2>1
  <2>4. \A g \in Of(taken + 1) : g.denom = Cardinality(Of(taken + 1))
    BY <2>1, DividedAll
  <2> QED
    BY <2>1, <2>2, <2>3, <2>4 DEF Divided
<1>4. CASE UNCHANGED vars
  BY <1>4 DEF vars, Divided, Of, Denom, Reached, Smaller, Per, N, Back, ColumnOf
<1> QED
  BY <1>1, <1>2, <1>3, <1>4 DEF Next

LEMMA MeansHold == Spec => [](Counts /\ Kept /\ Given /\ Divided)
<1>1. Init => Counts /\ Kept /\ Given /\ Divided
  BY CountsInit, GivenInit, DividedInit
<1>2. (Counts /\ Kept /\ Given /\ Divided) /\ [Next]_vars => (Counts /\ Kept /\ Given /\ Divided)'
  BY CountsKept, KeptKept, GivenKept, DividedKept
<1> QED
  BY <1>1, <1>2, PTL DEF Spec

\* Whatever the micro-batch size, an optimizer step sees the mean over its minibatch: its
\* contributions are divided by their own number.
THEOREM MicroBatchesAgree == Spec => []MicroInvariant
<1>1. Divided => MicroInvariant
  BY DEF Divided, MicroInvariant
<1> QED
  BY <1>1, MeansHold, PTL

----------------------------------------------------------------------------
(***************************************************************************)
(* Sums of weights.                                                        *)
(***************************************************************************)
\* A token's weight is positive.
LEMMA WeightsAre ==
    ASSUME Called, NEW M \in SUBSET (1 .. N), NEW t \in Mask(M)
    PROVE  LogW(t) \in Int /\ LogW(t) \in DOMAIN Weight /\ W(t) \in Nat \ {0} /\ Dev(t) \in Nat
<1>1. /\ t[1] \in 1 .. N /\ Predicted(t[1], t[2]) \in 1 .. rollout.out[t[1]]
      /\ Record(t[1], t[2]) = Predicted(t[1], t[2])
  BY MaskIsOutput
<1>2. /\ rollout.log_w[t[1]] \in Seq(DOMAIN Weight)
      /\ Len(rollout.log_w[t[1]]) = rollout.out[t[1]]
  <2>1. t[1] \in DOMAIN rollout.prompt
    BY <1>1 DEF Called, N
  <2>2. rollout \in Rollouts
    BY DEF Called
  <2> QED BY <2>1, <2>2, TrainStepAssumption
<1>3. PICK k : k = Record(t[1], t[2])
  OBVIOUS
<1>4. k \in 1 .. Len(rollout.log_w[t[1]])
  BY <1>1, <1>2, <1>3
<1>5. rollout.log_w[t[1]][k] \in DOMAIN Weight
  BY <1>2, <1>4
<1>6. LogW(t) \in DOMAIN Weight
  BY <1>3, <1>5, TrainStepAssumption DEF LogW
<1>7. LogW(t) \in Int /\ W(t) \in Nat \ {0} /\ Unit \in Nat
  BY <1>6, TrainStepAssumption DEF W
<1>8. PICK w \in Nat \ {0} : w = W(t)
  BY <1>7
<1>9. PICK u \in Nat : u = Unit
  BY <1>7
<1>10. (w - u) * (w - u) \in Nat
  <2>1. PICK d \in Int : d = w - u
    OBVIOUS
  <2>2. d * d \in Nat
    BY <2>1
  <2> QED BY <2>1, <2>2
<1> QED BY <1>6, <1>7, <1>8, <1>9, <1>10 DEF Dev

\* The sum of the weights of some tokens.
LEMMA WeightsSum ==
    ASSUME NEW S, IsFiniteSet(S), NEW f \in [S -> Nat], \A t \in S : f[t] = W(t)
    PROVE  \E F : SumsUp(F, f, S) /\ F[S] = SumW(S)
<1> DEFINE Body(e) == [s \in SUBSET S |-> IF s = {} THEN 0
                          ELSE W(CHOOSE x \in s : TRUE) + e[s \ {CHOOSE x \in s : TRUE}]]
           F == CHOOSE e : e = Body(e)
<1>1. SumW(S) = F[S]
  BY DEF SumW, MapThenSumSet, MapThenFoldSet
<1>2. ASSUME NEW e PROVE e = Body(e) <=> AddsUp(e, f, S)
  <2>1. \A s \in SUBSET S : s # {} => f[Picked(s)] = W(CHOOSE x \in s : TRUE)
    BY DEF Picked
  <2>2. Body(e) = [s \in SUBSET S |-> IF s = {} THEN 0 ELSE f[Picked(s)] + e[s \ {Picked(s)}]]
    BY <2>1 DEF Picked
  <2> QED BY <2>2 DEF AddsUp
<1> HIDE DEF Body
<1>3. PICK it : AddsUp(it, f, S)
  BY FoldExists
<1>4. it = Body(it)
  BY <1>2, <1>3
<1>5. F = Body(F)
  BY <1>4
<1>6. AddsUp(F, f, S)
  BY <1>2, <1>5
<1> HIDE DEF F
<1>7. SumsUp(F, f, S)
  BY <1>6, FoldSums
<1> QED BY <1>1, <1>7

\* ... of their deviations.
LEMMA DeviationsSum ==
    ASSUME NEW S, IsFiniteSet(S), NEW f \in [S -> Nat], \A t \in S : f[t] = Dev(t)
    PROVE  \E F : SumsUp(F, f, S) /\ F[S] = MapThenSumSet(Dev, S)
<1> DEFINE Body(e) == [s \in SUBSET S |-> IF s = {} THEN 0
                          ELSE Dev(CHOOSE x \in s : TRUE)
                               + e[s \ {CHOOSE x \in s : TRUE}]]
           F == CHOOSE e : e = Body(e)
<1>1. MapThenSumSet(Dev, S) = F[S]
  BY DEF MapThenSumSet, MapThenFoldSet
<1>2. ASSUME NEW e PROVE e = Body(e) <=> AddsUp(e, f, S)
  <2>1. \A s \in SUBSET S : s # {} =>
            f[Picked(s)] = Dev(CHOOSE x \in s : TRUE)
    BY DEF Picked
  <2>2. Body(e) = [s \in SUBSET S |-> IF s = {} THEN 0 ELSE f[Picked(s)] + e[s \ {Picked(s)}]]
    BY <2>1 DEF Picked
  <2> QED BY <2>2 DEF AddsUp
<1> HIDE DEF Body
<1>3. PICK it : AddsUp(it, f, S)
  BY FoldExists
<1>4. it = Body(it)
  BY <1>2, <1>3
<1>5. F = Body(F)
  BY <1>4
<1>6. AddsUp(F, f, S)
  BY <1>2, <1>5
<1> HIDE DEF F
<1>7. SumsUp(F, f, S)
  BY <1>6, FoldSums
<1> QED BY <1>1, <1>7

\* ... of the multipliers of some contributions.
LEMMA FactorsSum ==
    ASSUME NEW S, IsFiniteSet(S), NEW f \in [S -> Nat], \A t \in S : f[t] = t.w[1]
    PROVE  \E F : SumsUp(F, f, S) /\ F[S] = MapThenSumSet(LAMBDA h : h.w[1], S)
<1> DEFINE Body(e) == [s \in SUBSET S |-> IF s = {} THEN 0
                          ELSE (CHOOSE x \in s : TRUE).w[1]
                               + e[s \ {CHOOSE x \in s : TRUE}]]
           F == CHOOSE e : e = Body(e)
<1>1. MapThenSumSet(LAMBDA h : h.w[1], S) = F[S]
  BY DEF MapThenSumSet, MapThenFoldSet
<1>2. ASSUME NEW e PROVE e = Body(e) <=> AddsUp(e, f, S)
  <2>1. \A s \in SUBSET S : s # {} =>
            f[Picked(s)] = (CHOOSE x \in s : TRUE).w[1]
    BY DEF Picked
  <2>2. Body(e) = [s \in SUBSET S |-> IF s = {} THEN 0 ELSE f[Picked(s)] + e[s \ {Picked(s)}]]
    BY <2>1 DEF Picked
  <2> QED BY <2>2 DEF AddsUp
<1> HIDE DEF Body
<1>3. PICK it : AddsUp(it, f, S)
  BY FoldExists
<1>4. it = Body(it)
  BY <1>2, <1>3
<1>5. F = Body(F)
  BY <1>4
<1>6. AddsUp(F, f, S)
  BY <1>2, <1>5
<1> HIDE DEF F
<1>7. SumsUp(F, f, S)
  BY <1>6, FoldSums
<1> QED BY <1>1, <1>7

\* ... and of their tokens' deviations.
LEMMA SquaresSum ==
    ASSUME NEW S, IsFiniteSet(S), NEW f \in [S -> Nat], \A t \in S : f[t] = OwnDev(t)
    PROVE  \E F : SumsUp(F, f, S) /\ F[S] = MapThenSumSet(OwnDev, S)
<1> DEFINE Body(e) == [s \in SUBSET S |-> IF s = {} THEN 0
                          ELSE OwnDev(CHOOSE x \in s : TRUE)
                               + e[s \ {CHOOSE x \in s : TRUE}]]
           F == CHOOSE e : e = Body(e)
<1>1. MapThenSumSet(OwnDev, S) = F[S]
  BY DEF MapThenSumSet, MapThenFoldSet
<1>2. ASSUME NEW e PROVE e = Body(e) <=> AddsUp(e, f, S)
  <2>1. \A s \in SUBSET S : s # {} =>
            f[Picked(s)] = OwnDev(CHOOSE x \in s : TRUE)
    BY DEF Picked
  <2>2. Body(e) = [s \in SUBSET S |-> IF s = {} THEN 0 ELSE f[Picked(s)] + e[s \ {Picked(s)}]]
    BY <2>1 DEF Picked
  <2> QED BY <2>2 DEF AddsUp
<1> HIDE DEF Body
<1>3. PICK it : AddsUp(it, f, S)
  BY FoldExists
<1>4. it = Body(it)
  BY <1>2, <1>3
<1>5. F = Body(F)
  BY <1>4
<1>6. AddsUp(F, f, S)
  BY <1>2, <1>5
<1> HIDE DEF F
<1>7. SumsUp(F, f, S)
  BY <1>6, FoldSums
<1> QED BY <1>1, <1>7

----------------------------------------------------------------------------
(***************************************************************************)
(* The corrections. The contributions C of a step are those of the tokens  *)
(* r[1] that a correction keeps of S, with the multipliers r[2] it gives.  *)
(***************************************************************************)
Carries(C, r) ==
    /\ \A g \in C : g.seq \in 1 .. N /\ g.tok \in Nat /\ Back(g) \in r[1] /\ g.w = r[2][Back(g)]
    /\ \A t \in r[1] : \E g \in C : Back(g) = t
    /\ \A g, h \in C : Back(g) = Back(h) => g = h

\* A contribution's own weight and deviation are its token's.
LEMMA OwnIs ==
    ASSUME NEW g
    PROVE  Own(g) = W(Back(g)) /\ OwnDev(g) = Dev(Back(g))
  BY DEF Own, OwnDev, Dev, Back, ColumnOf

\* The contributions and the tokens kept correspond.
Matched(C, r, S) ==
    /\ IsFiniteSet(C) /\ Cardinality(C) = Cardinality(r[1]) /\ IsFiniteSet(S)
    /\ [g \in C |-> Back(g)] \in Bijection(C, r[1])
    /\ \A g \in C : Own(g) \in Nat \ {0} /\ OwnDev(g) \in Nat

LEMMA CarriesMatch ==
    ASSUME Called, NEW M \in SUBSET (1 .. N), NEW S, S = Mask(M), NEW r, r[1] \subseteq S,
           NEW C, Carries(C, r)
    PROVE  Matched(C, r, S)
<1> DEFINE b == [g \in C |-> Back(g)]
<1>1. IsFiniteSet(S) /\ IsFiniteSet(r[1])
  BY MaskFinite, FS_Subset
<1>2. b \in Bijection(C, r[1])
  <2>1. /\ b \in [C -> r[1]]
        /\ \A g, h \in C : b[g] = b[h] => g = h
        /\ \A t \in r[1] : \E g \in C : b[g] = t
    BY DEF Carries
  <2> HIDE DEF b
  <2> QED BY <2>1, Fun_IsBij
<1>3. ExistsBijection(r[1], C)
  BY <1>2, Fun_ExistsBijSymmetric DEF ExistsBijection
<1>4. IsFiniteSet(C) /\ Cardinality(C) = Cardinality(r[1])
  BY <1>1, <1>3, FS_Bijection
<1>5. ASSUME NEW g \in C PROVE Own(g) \in Nat \ {0} /\ OwnDev(g) \in Nat
  <2>1. PICK t \in Mask(M) : t = Back(g)
    BY DEF Carries
  <2>2. W(t) \in Nat \ {0} /\ Dev(t) \in Nat
    BY WeightsAre
  <2> QED BY <2>1, <2>2, OwnIs
<1> QED BY <1>1, <1>2, <1>4, <1>5 DEF Matched

\* The tokens that contribute nothing.
Left(C, S) == {t \in S : ~ \E g \in C : g.seq = t[1] /\ g.tok = Predicted(t[1], t[2])}

LEMMA LeftAre ==
    ASSUME Called, NEW M \in SUBSET (1 .. N), NEW S, S = Mask(M), NEW r, r[1] \subseteq S,
           NEW C, Carries(C, r)
    PROVE  Left(C, S) = S \ r[1]
<1> SUFFICES ASSUME NEW t \in S
             PROVE  (\E g \in C : g.seq = t[1] /\ g.tok = Predicted(t[1], t[2])) <=> t \in r[1]
  BY DEF Left
<1>1. /\ t = <<t[1], t[2]>> /\ t[1] \in 1 .. N /\ t[2] \in Nat
      /\ t[2] = ColumnOf(t[1], Predicted(t[1], t[2]))
  BY MaskIsOutput
<1>2. rollout.prompt[t[1]] \in Nat
  BY <1>1, PerCovers
<1>3. ASSUME NEW g \in C, g.seq = t[1], g.tok = Predicted(t[1], t[2]) PROVE t \in r[1]
  <2>1. Back(g) = t
    BY <1>1, <1>3 DEF Back
  <2> QED BY <2>1 DEF Carries
<1>4. ASSUME t \in r[1] PROVE \E g \in C : g.seq = t[1] /\ g.tok = Predicted(t[1], t[2])
  <2>1. PICK g \in C : Back(g) = t
    BY <1>4 DEF Carries
  <2>2. g.tok \in Nat /\ g.seq = t[1] /\ ColumnOf(g.seq, g.tok) = t[2]
    BY <2>1 DEF Carries, Back
  <2>3. g.tok = Predicted(t[1], t[2])
    BY <1>1, <1>2, <2>2 DEF ColumnOf, Predicted
  <2> QED BY <2>2, <2>3
<1> QED BY <1>3, <1>4

\* Corrections that look at one token at a time.
LEMMA TokenwiseDocumented ==
    ASSUME Called, NEW M \in SUBSET (1 .. N), NEW S, S = Mask(M), NEW r \in TokenWeights(S),
           NEW C, Carries(C, r), rollout.correction \in {"none", "exact", "clipped", "icepop"}
    PROVE  Documented(C, S)
<1>0. \A g \in C : Back(g) \in r[1] /\ g.w = r[2][Back(g)] /\ Own(g) = W(Back(g))
  BY OwnIs DEF Carries
<1>1. r[1] \subseteq S
  BY WeightsKeep
<1>2. \A g \in C : Own(g) \in Nat
  BY <1>1, CarriesMatch DEF Matched
<1>3. CASE rollout.correction = "none"
  <2>1. r = <<S, [t \in S |-> One]>>
    BY <1>3 DEF TokenWeights
  <2> QED BY <1>0, <1>3, <2>1 DEF Documented
<1>4. CASE rollout.correction = "exact"
  <2>1. r = <<S, [t \in S |-> <<W(t), Unit>>]>>
    BY <1>4 DEF TokenWeights
  <2> QED BY <1>0, <1>4, <2>1 DEF Documented
<1>5. CASE rollout.correction = "clipped"
  <2>1. r = <<S, [t \in S |-> <<Smaller(W(t), IsClip), Unit>>]>>
    BY <1>5 DEF TokenWeights
  <2>2. \A g \in C : g.w = <<Smaller(Own(g), IsClip), Unit>>
    BY <1>0, <2>1
  <2>3. IsClip \in Nat
    BY TrainStepAssumption
  <2>4. \A g \in C : \/ g.w = <<Own(g), Unit>>
                     \/ Own(g) > IsClip /\ g.w = <<IsClip, Unit>>
    BY <1>2, <2>2, <2>3 DEF Smaller
  <2> QED BY <1>5, <2>4 DEF Documented
<1>6. CASE rollout.correction = "icepop"
  <2> DEFINE near == {t \in S : OffPolicy(t) <= IcepopDelta}
  <2>1. r = <<near, [t \in near |-> One]>>
    BY <1>6 DEF TokenWeights
  <2>2. \A g \in C : g.w = One
    BY <1>0, <2>1
  <2>3. \A t \in S : OffPolicy(t) \in Int /\ IcepopDelta \in Int
    BY WeightsAre, TrainStepAssumption DEF OffPolicy
  <2>4. Left(C, S) = {t \in S : OffPolicy(t) > IcepopDelta}
    <3>1. Left(C, S) = S \ near
      BY <1>1, <2>1, LeftAre
    <3> QED BY <2>3, <3>1
  <2> QED BY <1>6, <2>2, <2>4 DEF Documented, Left
<1> QED BY <1>3, <1>4, <1>5, <1>6

\* snis: the multipliers keep the ratios of the weights, and their mean is 1.
LEMMA SnisDocumented ==
    ASSUME Called, NEW M \in SUBSET (1 .. N), NEW S, S = Mask(M), NEW r \in TokenWeights(S),
           NEW C, Carries(C, r), rollout.correction = "snis"
    PROVE  Documented(C, S)
<1>1. r = <<S, [t \in S |-> <<W(t) * Cardinality(S), SumW(S)>>]>>
  BY DEF TokenWeights
<1>2. Matched(C, r, S)
  BY <1>1, CarriesMatch
<1>3. PICK n \in Nat : n = Cardinality(S) /\ n = Cardinality(C)
  BY <1>1, <1>2, FS_CardinalityType DEF Matched
<1>4. \A g \in C : g.w = <<Own(g) * n, SumW(S)>> /\ Own(g) \in Nat
  BY <1>1, <1>2, <1>3, OwnIs DEF Carries, Matched
<1>5. ASSUME NEW g \in C, NEW h \in C
      PROVE  g.w[1] * Own(h) = h.w[1] * Own(g) /\ g.w[2] = h.w[2]
  <2>1. PICK x \in Nat : x = Own(g)
    BY <1>4
  <2>2. PICK y \in Nat : y = Own(h)
    BY <1>4
  <2>3. g.w[1] = x * n /\ h.w[1] = y * n /\ g.w[2] = h.w[2]
    BY <1>4, <2>1, <2>2
  <2>4. (x * n) * y = (y * n) * x
    OBVIOUS
  <2> QED BY <2>1, <2>2, <2>3, <2>4
<1> DEFINE f == [t \in S |-> W(t)]
           g1 == [h \in C |-> h.w[1]]
           own == [h \in C |-> Own(h)]
           b == [h \in C |-> Back(h)]
<1>6. f \in [S -> Nat] /\ IsFiniteSet(S) /\ IsFiniteSet(C)
  BY <1>2, WeightsAre DEF Matched
<1>7. PICK F : SumsUp(F, f, S) /\ F[S] = SumW(S)
  BY <1>6, WeightsSum
<1>8. own \in [C -> Nat] /\ g1 \in [C -> Nat] /\ \A h \in C : g1[h] = n * own[h]
  <2> SUFFICES ASSUME NEW h \in C PROVE own[h] \in Nat /\ g1[h] \in Nat /\ g1[h] = n * own[h]
    OBVIOUS
  <2>1. PICK x \in Nat : x = Own(h)
    BY <1>4
  <2>2. g1[h] = x * n
    BY <1>4, <2>1
  <2>3. x * n \in Nat /\ x * n = n * x
    OBVIOUS
  <2> QED BY <2>1, <2>2, <2>3
<1>9. PICK E : SumsUp(E, g1, C) /\ E[C] = MapThenSumSet(LAMBDA h : h.w[1], C)
  BY <1>6, <1>8, FactorsSum
<1>10. PICK D : SumsUp(D, own, C)
  BY <1>6, <1>8, FoldExists, FoldSums
<1>11. E[C] = n * D[C]
  <2> HIDE DEF own, g1
  <2> QED BY <1>6, <1>8, <1>9, <1>10, SumsScaled
<1>12. D[C] = F[S]
  <2>1. b \in [C -> S] /\ \A x, y \in C : b[x] = b[y] => x = y
    BY <1>1 DEF Carries
  <2>2. \A x \in C : own[x] = f[b[x]]
    BY <2>1, OwnIs
  <2>3. {b[x] : x \in C} = S
    <3>1. r[1] = S
      BY <1>1
    <3>2. \A x \in C : b[x] \in S
      BY <2>1
    <3>3. \A t \in S : \E x \in C : b[x] = t
      BY <3>1 DEF Carries
    <3> HIDE DEF b
    <3> QED BY <3>2, <3>3
  <2> HIDE DEF own, f, b
  <2>4. D[C] = F[{b[x] : x \in C}]
    BY <1>6, <1>7, <1>10, <2>1, <2>2, SumsRenamed
  <2> QED BY <2>3, <2>4
<1>13. \A g \in C : MapThenSumSet(LAMBDA h : h.w[1], C) = Cardinality(C) * g.w[2]
  BY <1>3, <1>4, <1>7, <1>9, <1>11, <1>12
<1> QED BY <1>5, <1>13 DEF Documented

\* shuffle: the weights change places.
LEMMA ShuffleDocumented ==
    ASSUME Called, NEW M \in SUBSET (1 .. N), NEW S, S = Mask(M), NEW r \in TokenWeights(S),
           NEW C, Carries(C, r), rollout.correction = "shuffle"
    PROVE  Documented(C, S)
<1>1. PICK p \in Bijection(S, S) : r = <<S, [t \in S |-> <<W(p[t]), Unit>>]>>
  BY DEF TokenWeights
<1>2. Matched(C, r, S)
  BY <1>1, CarriesMatch
<1> SUFFICES ASSUME NEW v \in Range(Weight)
             PROVE  Cardinality({g \in C : g.w = <<v, Unit>>}) = Cardinality({g \in C : Own(g) = v})
  BY DEF Documented
<1> DEFINE A == {g \in C : g.w = <<v, Unit>>}
           B == {g \in C : Own(g) = v}
           Of1(t) == CHOOSE g \in C : Back(g) = t
           q == [g \in A |-> Of1(p[Back(g)])]
<1>3. p \in [S -> S] /\ (\A s, t \in S : p[s] = p[t] => s = t) /\ \A t \in S : \E s \in S : p[s] = t
  BY DEF Bijection, Injection, Surjection, IsInjective
<1>4. \A t \in S : Of1(t) \in C /\ Back(Of1(t)) = t
  BY <1>1 DEF Carries
<1>5. \A g \in C : Back(g) \in S /\ Of1(Back(g)) = g /\ Own(g) = W(Back(g))
  BY <1>1, OwnIs DEF Carries
<1>6. \A g \in C : g.w = <<W(p[Back(g)]), Unit>>
  BY <1>1, <1>5 DEF Carries
<1>7. A = {g \in C : W(p[Back(g)]) = v}
  BY <1>6
<1> HIDE DEF Of1
<1>8. q \in Bijection(A, B)
  <2>1. ASSUME NEW g \in A PROVE q[g] \in B /\ Back(q[g]) = p[Back(g)]
    <3>1. PICK s \in S : s = p[Back(g)]
      BY <1>3, <1>5
    <3>2. W(s) = v
      BY <1>7, <3>1
    <3>3. q[g] = Of1(s)
      BY <3>1
    <3>4. Of1(s) \in C /\ Back(Of1(s)) = s
      BY <1>4
    <3>5. Own(Of1(s)) = W(Back(Of1(s)))
      BY <1>5, <3>4
    <3> QED BY <3>1, <3>2, <3>3, <3>4, <3>5
  <2>2. ASSUME NEW g \in A, NEW h \in A, q[g] = q[h] PROVE g = h
    <3>1. p[Back(g)] = p[Back(h)] /\ Back(g) \in S /\ Back(h) \in S
      BY <1>5, <2>1, <2>2
    <3>2. Back(g) = Back(h)
      BY <1>3, <3>1
    <3> QED BY <1>5, <3>2
  <2>3. ASSUME NEW h \in B PROVE \E g \in A : q[g] = h
    <3>1. PICK s \in S : p[s] = Back(h)
      BY <1>3, <1>5
    <3>2. Of1(s) \in C /\ Back(Of1(s)) = s
      BY <1>4
    <3>3. Of1(s) \in A
      BY <1>5, <1>7, <2>3, <3>1, <3>2
    <3>4. q[Of1(s)] = Of1(Back(h))
      BY <3>1, <3>2, <3>3
    <3> QED BY <1>5, <2>3, <3>3, <3>4
  <2>4. q \in [A -> B]
    <3>1. \A g \in A : q[g] \in B
      BY <2>1
    <3> HIDE DEF B
    <3> QED BY <3>1
  <2> HIDE DEF q, A, B
  <2> QED BY <2>2, <2>3, <2>4, Fun_IsBij
<1>9. IsFiniteSet(A)
  BY <1>2, FS_Subset DEF Matched
<1>10. Cardinality(B) = Cardinality(A)
  BY <1>8, <1>9, FS_Bijection DEF ExistsBijection
<1> QED BY <1>10

\* An order of S lists each token once, the most off-policy first.
Falling(o, S, n) ==
    /\ Len(o) = n /\ o \in [1 .. n -> S] /\ (\A t \in S : \E i \in 1 .. n : o[i] = t)
    /\ (\A i, j \in 1 .. n : o[i] = o[j] => i = j)
    /\ \A i, j \in 1 .. n : i < j => OffPolicy(o[i]) >= OffPolicy(o[j])

LEMMA OrdersAre ==
    ASSUME NEW S, IsFiniteSet(S), NEW o \in Orders(S), NEW n \in Nat, n = Cardinality(S)
    PROVE  Falling(o, S, n)
<1>1. o \in [1 .. n -> S] /\ \A i, j \in 1 .. n : i # j => o[i] # o[j]
  BY DEF Orders, SetToSeqs
<1>2. Len(o) = n /\ DOMAIN o = 1 .. n
  BY <1>1
<1>3. \A i, j \in 1 .. n : i < j => OffPolicy(o[i]) >= OffPolicy(o[j])
  BY <1>2 DEF Orders
<1>4. o \in Injection(1 .. n, S)
  BY <1>1 DEF Injection, IsInjective
<1>5. Cardinality(1 .. n) = n
  BY FS_Interval
<1>6. o \in Surjection(1 .. n, S)
  BY <1>4, <1>5, FS_Injection
<1>7. \A t \in S : \E i \in 1 .. n : o[i] = t
  BY <1>6 DEF Surjection
<1> QED BY <1>1, <1>2, <1>3, <1>7 DEF Falling

\* Dropping the first j of them leaves those after.
DropsFirst(S, o, j, n) == /\ Dropped(S, o, j) = {o[i] : i \in (j + 1) .. n}
                          /\ S \ Dropped(S, o, j) = {o[i] : i \in 1 .. j}

LEMMA DroppedAre ==
    ASSUME NEW S, NEW n \in Nat, NEW o, Falling(o, S, n), NEW j \in 0 .. n
    PROVE  DropsFirst(S, o, j, n)
<1>1. /\ Len(o) = n /\ o \in [1 .. n -> S] /\ \A t \in S : \E i \in 1 .. n : o[i] = t
      /\ \A a, b \in 1 .. n : o[a] = o[b] => a = b
  BY DEF Falling
<1>2. ToSet(SubSeq(o, 1, j)) = {o[i] : i \in 1 .. j}
  <2>1. SubSeq(o, 1, j) = [i \in 1 .. j |-> o[i]]
    <3>1. o \in Seq(S)
      BY <1>1
    <3>2. Len(SubSeq(o, 1, j)) = j /\ \A i \in 1 .. j : SubSeq(o, 1, j)[i] = o[i]
      BY <1>1, <3>1
    <3>3. SubSeq(o, 1, j) \in Seq(S)
      BY <1>1, <3>1
    <3> QED BY <3>2, <3>3
  <2> QED BY <2>1 DEF ToSet
<1>3. \A t \in S : t \in {o[i] : i \in 1 .. j} <=> t \notin {o[i] : i \in (j + 1) .. n}
  <2> TAKE t \in S
  <2>1. PICK i \in 1 .. n : o[i] = t
    BY <1>1
  <2>2. \A k \in 1 .. n : o[k] = t => k = i
    BY <1>1, <2>1
  <2>3. CASE i <= j
    <3>1. i \in 1 .. j /\ \A k \in (j + 1) .. n : k \in 1 .. n /\ k # i
      BY <2>3
    <3> QED BY <2>1, <2>2, <3>1
  <2>4. CASE i > j
    <3>1. i \in (j + 1) .. n /\ \A k \in 1 .. j : k \in 1 .. n /\ k # i
      BY <2>4
    <3> QED BY <2>1, <2>2, <3>1
  <2> QED BY <2>3, <2>4
<1>4. \A i \in 1 .. j : i \in 1 .. n /\ o[i] \in S
  BY <1>1
<1>5. \A i \in (j + 1) .. n : i \in 1 .. n /\ o[i] \in S
  BY <1>1
<1> QED BY <1>2, <1>3, <1>4, <1>5 DEF Dropped, DropsFirst

\* m2po stops at the first j whose rest is near, and dropping everything is near.
StopsAt(S, o, m, n) ==
    /\ m \in 0 .. n /\ M2poKept(S, o) = Dropped(S, o, m)
    /\ Near(Dropped(S, o, m), Cardinality(Dropped(S, o, m)))
    /\ \A j \in 0 .. (m - 1) : ~ Near(Dropped(S, o, j), Cardinality(Dropped(S, o, j)))

LEMMA M2poStops ==
    ASSUME NEW S, NEW n \in Nat, NEW o, Falling(o, S, n)
    PROVE  \E m \in Nat : StopsAt(S, o, m, n)
<1> DEFINE Ok(j) == Near(Dropped(S, o, j), Cardinality(Dropped(S, o, j)))
           J == {j \in 0 .. Len(o) : Ok(j)}
<1>1. Len(o) = n
  BY DEF Falling
<1>2. n \in J
  <2>1. Dropped(S, o, n) = {}
    <3>1. n \in 0 .. n /\ (n + 1) .. n = {}
      OBVIOUS
    <3>2. DropsFirst(S, o, n, n)
      BY <3>1, DroppedAre
    <3>3. \A i \in (n + 1) .. n : FALSE
      BY <3>1
    <3> QED BY <3>2, <3>3 DEF DropsFirst
  <2>2. Cardinality({}) = 0 /\ IsFiniteSet({})
    BY FS_EmptySet
  <2>3. MapThenSumSet(Dev, {}) = 0
    <3>1. << >> \in [{} -> Nat]
      OBVIOUS
    <3>2. PICK F : SumsUp(F, << >>, {}) /\ F[{}] = MapThenSumSet(Dev, {})
      BY <2>2, <3>1, DeviationsSum
    <3> QED BY <3>2 DEF SumsUp
  <2>4. Near({}, 0)
    BY <2>3, TrainStepAssumption DEF Near
  <2> QED BY <1>1, <2>1, <2>2, <2>4
<1>3. J \subseteq Nat
  BY <1>1
<1>4. PICK m \in J : \A k \in J : m <= k
  <2> HIDE DEF J
  <2> QED BY <1>2, <1>3, NatLeast
<1>5. Min(J) \in J /\ \A k \in J : Min(J) <= k
  BY <1>4 DEF Min
<1>6. PICK l \in Nat : l = Min(J)
  BY <1>3, <1>5
<1>7. M2poKept(S, o) = Dropped(S, o, l)
  BY <1>6 DEF M2poKept
<1>8. l \in 0 .. n /\ Ok(l)
  BY <1>1, <1>5, <1>6
<1>9. ASSUME NEW j \in 0 .. (l - 1), Ok(j) PROVE FALSE
  <2>1. j \in J
    BY <1>1, <1>8, <1>9
  <2>2. l <= j
    BY <1>5, <1>6, <2>1
  <2> QED BY <2>2
<1> QED BY <1>7, <1>8, <1>9 DEF StopsAt

\* m2po: the mean deviation of the tokens kept is small, and no fewer could have been masked.
LEMMA M2poDocumented ==
    ASSUME Called, NEW M \in SUBSET (1 .. N), NEW S, S = Mask(M), NEW r \in TokenWeights(S),
           NEW C, Carries(C, r), rollout.correction = "m2po"
    PROVE  Documented(C, S)
<1>1. PICK o \in Orders(S) : r = <<M2poKept(S, o), [t \in M2poKept(S, o) |-> <<W(t), Unit>>]>>
  BY DEF TokenWeights
<1>2. r[1] \subseteq S
  BY WeightsKeep
<1>3. Matched(C, r, S)
  BY <1>2, CarriesMatch
<1>4. PICK n \in Nat : n = Cardinality(S)
  BY <1>3, FS_CardinalityType DEF Matched
<1>5. Falling(o, S, n)
  BY <1>3, <1>4, OrdersAre DEF Matched
<1>6. PICK m \in Nat : StopsAt(S, o, m, n)
  BY <1>5, M2poStops
<1> DEFINE K == Dropped(S, o, m)
<1>7. r[1] = K /\ m \in 0 .. n
  BY <1>1, <1>6 DEF StopsAt
<1>8. DropsFirst(S, o, m, n)
  BY <1>5, <1>7, DroppedAre
<1>9. Left(C, S) = {o[i] : i \in 1 .. m} /\ S \ Left(C, S) = K /\ K = {o[i] : i \in (m + 1) .. n}
  <2>1. Left(C, S) = S \ r[1]
    BY <1>2, LeftAre
  <2> QED BY <1>2, <1>7, <1>8, <2>1 DEF DropsFirst
<1>10. /\ \A i, j \in 1 .. n : i < j => OffPolicy(o[i]) >= OffPolicy(o[j])
       /\ \A i \in 1 .. n : o[i] \in S /\ OffPolicy(o[i]) \in Int
  <2>1. \A i \in 1 .. n : o[i] \in S
    BY <1>5 DEF Falling
  <2>2. \A t \in S : OffPolicy(t) \in Int
    BY WeightsAre DEF OffPolicy
  <2> QED BY <1>5, <2>1, <2>2 DEF Falling
<1>11. \A g \in C : g.w = <<Own(g), Unit>>
  BY <1>1, OwnIs DEF Carries
<1>12. MapThenSumSet(OwnDev, C) <= M2poDelta * Cardinality(C)
  <2> DEFINE f == [t \in K |-> Dev(t)]
             d == [g \in C |-> OwnDev(g)]
             b == [g \in C |-> Back(g)]
  <2>1. IsFiniteSet(K) /\ IsFiniteSet(C)
    BY <1>2, <1>3, <1>7, FS_Subset DEF Matched
  <2>2. f \in [K -> Nat] /\ d \in [C -> Nat]
    BY <1>2, <1>3, <1>7, WeightsAre DEF Matched
  <2>3. PICK F : SumsUp(F, f, K) /\ F[K] = MapThenSumSet(Dev, K)
    BY <2>1, <2>2, DeviationsSum
  <2>4. PICK D : SumsUp(D, d, C) /\ D[C] = MapThenSumSet(OwnDev, C)
    BY <2>1, <2>2, SquaresSum
  <2>5. /\ b \in [C -> K] /\ \A x, y \in C : b[x] = b[y] => x = y
        /\ \A x \in C : d[x] = f[b[x]]
        /\ \A t \in K : \E x \in C : b[x] = t
    BY <1>7, OwnIs DEF Carries
  <2>6. {b[x] : x \in C} = K
    <3> HIDE DEF b, K
    <3> QED BY <2>5
  <2>7. D[C] = F[K]
    <3> HIDE DEF f, d, b, K
    <3>1. D[C] = F[{b[x] : x \in C}]
      BY SMTT(30), <2>1, <2>3, <2>4, <2>5, SumsRenamed
    <3> QED BY <2>6, <3>1
  <2>8. MapThenSumSet(Dev, K) <= M2poDelta * Cardinality(K)
    BY <1>6 DEF StopsAt, Near
  <2>9. Cardinality(C) = Cardinality(K)
    BY <1>3, <1>7 DEF Matched
  <2> QED BY <2>3, <2>4, <2>7, <2>8, <2>9
<1>13. ASSUME NEW t \in Left(C, S), NEW s \in S \ Left(C, S) PROVE OffPolicy(t) >= OffPolicy(s)
  <2>1. PICK i \in 1 .. m : t = o[i]
    BY <1>9
  <2>2. PICK j \in (m + 1) .. n : s = o[j]
    BY <1>9
  <2>3. i \in 1 .. n /\ j \in 1 .. n /\ i < j
    BY <1>7
  <2> QED BY <1>10, <2>1, <2>2, <2>3
<1>14. ASSUME Left(C, S) # {}
       PROVE  \E t \in Left(C, S) :
                  /\ \A s \in Left(C, S) : OffPolicy(t) <= OffPolicy(s)
                  /\ MapThenSumSet(Dev, (S \ Left(C, S)) \cup {t})
                         > M2poDelta * Cardinality((S \ Left(C, S)) \cup {t})
  <2>1. m \in 1 .. m /\ m \in 1 .. n /\ m - 1 \in 0 .. (m - 1) /\ m - 1 \in 0 .. n
    <3>1. PICK i \in 1 .. m : TRUE
      BY <1>9, <1>14
    <3> QED BY <1>7, <3>1
  <2>2. o[m] \in Left(C, S)
    BY <1>9, <2>1
  <2>3. \A s \in Left(C, S) : OffPolicy(o[m]) <= OffPolicy(s)
    <3> TAKE s \in Left(C, S)
    <3>1. PICK i \in 1 .. m : s = o[i]
      BY <1>9
    <3>2. i \in 1 .. n /\ (i = m \/ i < m)
      BY <1>7
    <3> QED BY <1>10, <2>1, <3>1, <3>2
  <2> DEFINE L == Dropped(S, o, m - 1)
  <2>4. L = K \cup {o[m]}
    <3>1. DropsFirst(S, o, m - 1, n)
      BY <1>5, <2>1, DroppedAre
    <3>2. (m - 1) + 1 = m /\ \A i : i \in m .. n <=> (i = m \/ i \in (m + 1) .. n)
      BY <1>7, <2>1
    <3> QED BY <1>9, <3>1, <3>2 DEF DropsFirst
  <2>5. ~ MapThenSumSet(Dev, L) <= M2poDelta * Cardinality(L)
    BY <1>6, <2>1 DEF StopsAt, Near
  <2>6. L \subseteq S /\ IsFiniteSet(L)
    BY <1>3, FS_Subset DEF Matched, Dropped
  <2>7. MapThenSumSet(Dev, L) \in Nat
    <3> DEFINE f == [t \in L |-> Dev(t)]
    <3>1. f \in [L -> Nat]
      BY <2>6, WeightsAre
    <3>2. PICK F : SumsUp(F, f, L) /\ F[L] = MapThenSumSet(Dev, L)
      BY <2>6, <3>1, DeviationsSum
    <3> QED BY <3>2 DEF SumsUp
  <2>8. M2poDelta * Cardinality(L) \in Nat
    <3>1. PICK c \in Nat : c = Cardinality(L)
      BY <2>6, FS_CardinalityType
    <3>2. PICK e \in Nat : e = M2poDelta
      BY TrainStepAssumption
    <3>3. e * c \in Nat
      OBVIOUS
    <3> QED BY <3>1, <3>2, <3>3
  <2>9. MapThenSumSet(Dev, L) > M2poDelta * Cardinality(L)
    <3> HIDE DEF L
    <3> QED BY <2>5, <2>7, <2>8
  <2> QED BY <1>9, <2>2, <2>3, <2>4, <2>9
<1> QED BY <1>11, <1>12, <1>13, <1>14 DEF Documented, Left

\* Every correction gives what is said of it.
LEMMA AllDocumented ==
    ASSUME Called, NEW M \in SUBSET (1 .. N), NEW S, S = Mask(M), NEW r \in TokenWeights(S),
           NEW C, Carries(C, r)
    PROVE  Documented(C, S)
<1>1. rollout.correction \in Correction
  BY DEF Called
<1> QED BY <1>1, TokenwiseDocumented, SnisDocumented, ShuffleDocumented, M2poDocumented DEF Correction

----------------------------------------------------------------------------
(***************************************************************************)
(* The multipliers of the steps taken.                                     *)
(***************************************************************************)
WeighedBy(C, S) == \E r \in TokenWeights(S) : Carries(C, r)

StepTokens(k) == Mask(Minibatch((k - 1) * Per))

\* Each step's contributions have the multipliers that token_weights gave its tokens.
Weighed == /\ \A k \in 1 .. taken : WeighedBy(Of(k), StepTokens(k))
           /\ at # Between =>
                  /\ \E r \in TokenWeights(Mask(Minibatch(mb))) : keep = r[1] /\ weight = r[2]
                  /\ \A g \in Of(taken + 1) : g.w = weight[Back(g)]

\* None of it changes within a call of step.
SameCall == /\ \A S : TokenWeights(S)' = TokenWeights(S)
            /\ \A C, S : WeighedBy(C, S)' = WeighedBy(C, S)
            /\ \A k : StepTokens(k)' = StepTokens(k)
            /\ \A m : Mask(Minibatch(m))' = Mask(Minibatch(m))
            /\ \A g : Back(g)' = Back(g)

LEMMA CallStays == ASSUME rollout' = rollout PROVE SameCall
<1>1. ASSUME NEW S PROVE TokenWeights(S)' = TokenWeights(S)
  BY DEF TokenWeights, Orders, OffPolicy, M2poKept, Near, Dev, Dropped, SumW, MapThenSumSet,
         MapThenFoldSet, W, LogW, Record, NoRecord
<1>2. ASSUME NEW C, NEW r PROVE Carries(C, r)' = Carries(C, r)
  BY DEF Carries, Back, ColumnOf, N
<1>3. ASSUME NEW C, NEW S PROVE WeighedBy(C, S)' = WeighedBy(C, S)
  BY <1>1, <1>2 DEF WeighedBy
<1>4. ASSUME NEW m PROVE Mask(Minibatch(m))' = Mask(Minibatch(m))
  BY DEF Mask, Minibatch, Per, N
<1>5. ASSUME NEW k PROVE StepTokens(k)' = StepTokens(k)
  BY DEF StepTokens, Mask, Minibatch, Per, N
<1>6. ASSUME NEW g PROVE Back(g)' = Back(g)
  BY DEF Back, ColumnOf
<1> QED BY <1>1, <1>3, <1>4, <1>5, <1>6 DEF SameCall

LEMMA WeighedInit == Init => Weighed
<1> SUFFICES ASSUME Init PROVE Weighed
  OBVIOUS
<1>1. at = Between /\ taken = 0
  BY DEF Init
<1>2. \A k \in 1 .. taken : FALSE
  BY <1>1
<1> QED BY <1>1, <1>2 DEF Weighed

LEMMA WeighedBegin ==
    ASSUME Counts, Given, Weighed, BeginMinibatch, SameCall
    PROVE  Weighed'
<1>1. /\ at = Between /\ UNCHANGED <<rollout, mb, grads, taken>> /\ taken \in Nat
      /\ \E r \in TokenWeights(Mask(Minibatch(mb))) : keep' = r[1] /\ weight' = r[2]
  BY DEF BeginMinibatch, Counts
<1>2. \A k : Of(k)' = Of(k)
  BY <1>1 DEF Of
<1>3. Of(taken + 1)' = {}
  <2>1. \A g \in G : g.step \in 1 .. taken
    BY <1>1 DEF Given
  <2>2. Of(taken + 1) = {}
    BY <1>1, <2>1 DEF Of, G
  <2> QED BY <1>1, <1>2, <2>2
<1>4. \E r \in TokenWeights(Mask(Minibatch(mb)))' : keep' = r[1] /\ weight' = r[2]
  <2>1. Mask(Minibatch(mb))' = Mask(Minibatch(mb))
    BY <1>1 DEF Mask, Minibatch, Per, N
  <2>2. TokenWeights(Mask(Minibatch(mb)))' = TokenWeights(Mask(Minibatch(mb)))
    BY <2>1 DEF SameCall
  <2> QED BY <1>1, <2>2
<1>5. \A k \in 1 .. taken : (WeighedBy(Of(k), StepTokens(k)))'
  <2> TAKE k \in 1 .. taken
  <2>1. WeighedBy(Of(k), StepTokens(k))
    BY DEF Weighed
  <2> QED BY <1>1, <2>1, <1>2 DEF SameCall
<1> QED BY <1>1, <1>3, <1>4, <1>5 DEF Weighed

\* A micro-batch adds its tokens' contributions to the step at hand.
LEMMA WeighedMicro ==
    ASSUME Counts, Kept, Weighed, MicroBatch, SameCall
    PROVE  Weighed'
<1>1. /\ at # Between /\ UNCHANGED <<rollout, mb, keep, weight, taken>> /\ taken \in Nat
      /\ grads' = grads (+) SetToBag(Added)
  BY DEF MicroBatch, Added, Counts
<1>2. BagToSet(grads)' = BagToSet(grads) \cup Added
  BY <1>1 DEF BagToSet, SetToBag, (+)
<1>3. \A g \in Added : g.step = taken + 1 /\ g.w = weight[Back(g)]
  <2> TAKE g \in Added
  <2>1. g.step = taken + 1 /\ g = Entry(Back(g))
    BY <1>1, AddedAre DEF Back
  <2> DEFINE t == Back(g)
  <2> HIDE DEF t
  <2>2. Entry(t).w = weight[t]
    BY DEF Entry
  <2> QED BY <2>1, <2>2 DEF t
<1>4. \A k \in 1 .. taken : Of(k)' = Of(k)
  <2> TAKE k \in 1 .. taken
  <2>1. k # taken + 1
    BY <1>1
  <2> QED BY <1>2, <1>3, <2>1 DEF Of
<1>5. Of(taken + 1)' = Of(taken + 1) \cup Added
  BY <1>1, <1>2, <1>3 DEF Of
<1>6. \A k \in 1 .. taken : (WeighedBy(Of(k), StepTokens(k)))'
  <2> TAKE k \in 1 .. taken
  <2>1. WeighedBy(Of(k), StepTokens(k))
    BY DEF Weighed
  <2> QED BY <1>4, <2>1 DEF SameCall
<1>7. \A g \in Of(taken + 1)' : g.w = weight[Back(g)]
  BY <1>1, <1>3, <1>5 DEF Weighed
<1>8. \A g \in Of(taken + 1)' : g.w = weight'[Back(g)']
  BY <1>1, <1>7 DEF SameCall
<1>9. \E r \in TokenWeights(Mask(Minibatch(mb)))' : keep' = r[1] /\ weight' = r[2]
  <2>1. Mask(Minibatch(mb))' = Mask(Minibatch(mb))
    BY <1>1 DEF Mask, Minibatch, Per, N
  <2>2. TokenWeights(Mask(Minibatch(mb)))' = TokenWeights(Mask(Minibatch(mb)))
    BY <2>1 DEF SameCall
  <2> QED BY <1>1, <2>2 DEF Weighed
<1> QED BY <1>1, <1>6, <1>8, <1>9 DEF Weighed

\* Once its sequences are reached, a step carries what token_weights returned for them.
LEMMA WeighedStep ==
    ASSUME Counts, Kept, Given, Divided, Weighed, at # Between, Slice = {}
    PROVE  WeighedBy(Of(taken + 1), StepTokens(taken + 1))
<1> DEFINE H == Of(taken + 1)
<1>1. PICK r \in TokenWeights(Mask(Minibatch(mb))) : keep = r[1] /\ weight = r[2]
  BY DEF Weighed
<1>2. \A g \in H : Back(g) \in keep /\ g.w = weight[Back(g)]
  BY DEF Weighed, Divided
<1>3. /\ \A t \in keep : \E g \in H : Back(g) = t
      /\ \A g, h \in H : Back(g) = Back(h) => g = h
  BY AllContributed
<1>4. \A g \in H : g.seq \in 1 .. N /\ g.tok \in Nat
  <2> TAKE g \in H
  <2>1. g.seq \in 1 .. N /\ g.tok \in 1 .. rollout.out[g.seq]
    BY DEF Of, Given, G
  <2>2. rollout.out[g.seq] \in Nat
    BY <2>1, PerCovers DEF Counts
  <2> QED BY <2>1, <2>2
<1>5. Carries(H, r)
  BY <1>1, <1>2, <1>3, <1>4 DEF Carries
<1>6. StepTokens(taken + 1) = Mask(Minibatch(mb))
  <2>1. mb = taken * Per /\ taken \in Nat
    BY DEF Counts
  <2>2. (taken + 1) - 1 = taken
    BY <2>1
  <2> QED BY <2>1, <2>2 DEF StepTokens
<1> QED BY <1>1, <1>5, <1>6 DEF WeighedBy

LEMMA WeighedKept ==
    Counts /\ Kept /\ Given /\ Divided /\ Weighed /\ [Next]_vars => Weighed'
<1> SUFFICES ASSUME Counts, Kept, Given, Divided, Weighed, [Next]_vars PROVE Weighed'
  OBVIOUS
<1>1. SameCall
  <2>1. rollout' = rollout
    BY DEF Next, BeginMinibatch, MicroBatch, OptStep, vars
  <2> QED BY <2>1, CallStays
<1>2. CASE BeginMinibatch
  BY <1>1, <1>2, WeighedBegin
<1>3. CASE MicroBatch
  BY <1>1, <1>3, WeighedMicro
<1>4. CASE OptStep
  <2>1. /\ at # Between /\ Slice = {} /\ at' = Between /\ taken' = taken + 1
        /\ grads' = grads /\ taken \in Nat
    BY <1>4 DEF OptStep, Counts
  <2>2. \A k : Of(k)' = Of(k)
    BY <2>1 DEF Of
  <2>3. \A k \in 1 .. taken' : k \in 1 .. taken \/ k = taken + 1
    BY <2>1
  <2>4. \A k \in 1 .. taken' : WeighedBy(Of(k), StepTokens(k))
    BY <2>1, <2>3, WeighedStep DEF Weighed
  <2>5. \A k \in 1 .. taken' : (WeighedBy(Of(k), StepTokens(k)))'
    <3> TAKE k \in 1 .. taken'
    <3>1. WeighedBy(Of(k), StepTokens(k))
      BY <2>4
    <3> QED BY <1>1, <2>2, <3>1 DEF SameCall
  <2> QED BY <2>1, <2>5 DEF Weighed
<1>5. CASE UNCHANGED vars
  <2>1. UNCHANGED <<rollout, mb, at, keep, weight, grads, taken>>
    BY <1>5 DEF vars
  <2>2. \A k : Of(k)' = Of(k)
    BY <2>1 DEF Of
  <2>3. \A k \in 1 .. taken : (WeighedBy(Of(k), StepTokens(k)))'
    <3> TAKE k \in 1 .. taken
    <3>1. WeighedBy(Of(k), StepTokens(k))
      BY DEF Weighed
    <3> QED BY <1>1, <2>2, <3>1 DEF SameCall
  <2>4. TokenWeights(Mask(Minibatch(mb)))' = TokenWeights(Mask(Minibatch(mb)))
    <3>1. Mask(Minibatch(mb))' = Mask(Minibatch(mb))
      BY <2>1 DEF Mask, Minibatch, Per, N
    <3> QED BY <1>1, <3>1 DEF SameCall
  <2>5. at # Between => \A g \in Of(taken + 1)' : g.w = weight'[Back(g)']
    BY <1>1, <2>1, <2>2 DEF Weighed, SameCall
  <2> QED BY <2>1, <2>3, <2>4, <2>5 DEF Weighed
<1> QED BY <1>2, <1>3, <1>4, <1>5 DEF Next

LEMMA WeighedHold == Spec => [](Counts /\ Kept /\ Given /\ Divided /\ Weighed)
<1>1. Init => Counts /\ Kept /\ Given /\ Divided /\ Weighed
  BY CountsInit, GivenInit, DividedInit, WeighedInit
<1>2. (Counts /\ Kept /\ Given /\ Divided /\ Weighed) /\ [Next]_vars
      => (Counts /\ Kept /\ Given /\ Divided /\ Weighed)'
  BY CountsKept, KeptKept, GivenKept, DividedKept, WeighedKept
<1> QED
  BY <1>1, <1>2, PTL DEF Spec

\* Each correction token_weights can apply does to the tokens of every optimizer step what the
\* module's docstring says of it: snis keeps the mean at 1 and the relative weights, shuffle
\* the weights as a multiset, clipped and icepop their bounds, and m2po drops no more tokens
\* than its bound needs, the most off-policy first.
THEOREM CorrectionsHold == Spec => []CorrectionsAsDocumented
<1>1. Counts /\ Weighed => CorrectionsAsDocumented
  <2> SUFFICES ASSUME Counts, Weighed, Done, NEW k \in 1 .. taken
               PROVE  Documented(Of(k), Mask(Minibatch((k - 1) * Per)))
    BY DEF CorrectionsAsDocumented
  <2> DEFINE m == (k - 1) * Per
             C == Of(k)
  <2>1. Called /\ Per \in Nat \ {0} /\ N \in Nat \ {0} /\ k \in Nat \ {0}
    BY PerCovers DEF Counts, Called
  <2>2. m \in Nat
    <3>1. PICK i \in Nat : i = k - 1
      BY <2>1
    <3>2. i * Per \in Nat
      BY <2>1, <3>1
    <3> QED BY <3>1, <3>2
  <2> HIDE DEF m
  <2>3. Minibatch(m) \in SUBSET (1 .. N)
    BY <2>1, <2>2 DEF Minibatch, Smaller
  <2>4. PICK r \in TokenWeights(Mask(Minibatch(m))) : Carries(C, r)
    BY DEF Weighed, WeighedBy, StepTokens, m
  <2> HIDE DEF C
  <2>5. Documented(C, Mask(Minibatch(m)))
    BY <2>1, <2>3, <2>4, AllDocumented
  <2> QED BY <2>5 DEF C, m
<1> QED
  BY <1>1, WeighedHold, PTL
=============================================================================
