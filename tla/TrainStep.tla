----------------------------- MODULE TrainStep -----------------------------
(***************************************************************************)
(* One Trainer.step of rl/grpo.py over the records of a rollout: the       *)
(* rollout cut into minibatches, each padded, masked, weighted by          *)
(* token_weights and accumulated over micro-batches before an optimizer    *)
(* step. Losses and gradients are left out; what is kept is which output   *)
(* token contributes, against which record of the rollout, with which      *)
(* weight and divided by what.                                             *)
(*                                                                         *)
(* Columns are numbered as in the code: column c of old_lp, log_w and mask *)
(* is about the token at c + 1, predicted from c. log w is whole, and w    *)
(* whole in 1/Unit; weights are fractions, deltas are in the same units.   *)
(***************************************************************************)
EXTENDS Integers, Sequences, FiniteSets, SequencesExt, FiniteSetsExt, Bags

CONSTANTS
    Rollouts,   \* [prompt, out, log_w, opt_steps, micro, correction]: a rollout and --opt-steps ...
    Unit,       \* weights are in 1/Unit
    Weight,     \* w at each log w
    IsClip,     \* --is-clip, a weight
    IcepopDelta,\* --icepop-delta, on |log w|
    M2poDelta   \* --m2po-delta, on a squared weight

Correction == {"none", "exact", "snis", "shuffle", "clipped", "icepop", "m2po"}

ASSUME TrainStepAssumption ==
    /\ \A x \in Rollouts :
           /\ x.prompt \in Seq(Nat \ {0}) /\ x.prompt # << >> /\ x.out \in Seq(Nat \ {0})
           /\ Len(x.out) = Len(x.prompt) /\ Len(x.log_w) = Len(x.prompt)
           /\ \A i \in DOMAIN x.prompt : /\ x.log_w[i] \in Seq(DOMAIN Weight)
                                         /\ Len(x.log_w[i]) = x.out[i]
           /\ x.opt_steps \in Nat \ {0} /\ x.micro \in Nat \ {0} /\ x.correction \in Correction
    /\ Unit \in Nat \ {0} /\ 0 \in DOMAIN Weight /\ DOMAIN Weight \subseteq Int
    /\ Weight \in [DOMAIN Weight -> Nat \ {0}] /\ Weight[0] = Unit
    /\ \A l, m \in DOMAIN Weight : l < m => Weight[l] < Weight[m]
    /\ IsClip \in Nat /\ IcepopDelta \in Nat /\ M2poDelta \in Nat

VARIABLES
    rollout,    \* what step is called with
    mb,         \* sequences before the current minibatch
    at,         \* of the minibatch, sequences in the micro-batches done; Between between two
    keep,       \* token_weights' mask: the kept <<sequence, column>>
    weight,     \* ... and the multiplier of each
    grads,      \* the bag of contributions since step began
    taken       \* optimizer steps taken

vars == <<rollout, mb, at, keep, weight, grads, taken>>

Between == -1
N   == Len(rollout.prompt)
\* Slip: the remainder dropped.
PerFloor == IF N \div rollout.opt_steps = 0 THEN 1 ELSE N \div rollout.opt_steps

\* ceil(N / opt_steps)
Per == -((-N) \div rollout.opt_steps)

Smaller(a, b) == IF a < b THEN a ELSE b

\* range(mb, min(mb + per, N)): the sequences of the minibatch that starts at m, from 1.
Minibatch(m) == (m + 1) .. Smaller(m + Per, N)

----------------------------------------------------------------------------
(***************************************************************************)
(* batch and the records.                                                  *)
(***************************************************************************)
\* mask[i, n - 1 : len(s) - 1] = 1
Mask(S) == UNION {{i} \X ((rollout.prompt[i] - 1) .. (rollout.prompt[i] + rollout.out[i] - 2)) : i \in S}

\* The columns of a batch padded to its longest sequence.
Columns(S) == UNION {0 .. (rollout.prompt[i] + rollout.out[i] - 2) : i \in S}

NoRecord == 0

\* Slip: records placed after the prompt.
RecordAfterPrompt(i, c) ==
    IF c \in rollout.prompt[i] .. (rollout.prompt[i] + rollout.out[i] - 1)
    THEN c - rollout.prompt[i] + 1 ELSE NoRecord

\* old_lp[i, n - 1 : n - 1 + len(logprobs)]: the record main wrote at column c.
Record(i, c) ==
    IF c \in (rollout.prompt[i] - 1) .. (rollout.prompt[i] - 2 + rollout.out[i])
    THEN c - rollout.prompt[i] + 2 ELSE NoRecord

\* The output token whose log-probability _logps has at column c.
Predicted(i, c) == c + 2 - rollout.prompt[i]

----------------------------------------------------------------------------
(***************************************************************************)
(* token_weights.                                                          *)
(***************************************************************************)
LogW(t) == IF Record(t[1], t[2]) = NoRecord THEN 0
           ELSE rollout.log_w[t[1]][Record(t[1], t[2])]

W(t) == Weight[LogW(t)]

OffPolicy(t) == IF LogW(t) < 0 THEN -LogW(t) ELSE LogW(t)
Dev(t) == (W(t) - Unit) * (W(t) - Unit)
One == <<Unit, Unit>>
SumW(S) == MapThenSumSet(W, S)

\* Tokens, the most off-policy first; argsort leaves ties in any order.
Orders(S) == {o \in SetToSeqs(S) :
                  \A j, k \in DOMAIN o : j < k => OffPolicy(o[j]) >= OffPolicy(o[k])}

\* The mean deviation of T, over n tokens, is small.
Near(T, n) == MapThenSumSet(Dev, T) <= M2poDelta * n

\* S without the first j tokens of o.
Dropped(S, o, j) == S \ ToSet(SubSeq(o, 1, j))

\* Slip: the kept tokens' deviation averaged over all tokens.
M2poKeptOverAll(S, o) ==
    Dropped(S, o, Min({j \in 0 .. Len(o) : Near(Dropped(S, o, j), Cardinality(S))}))

\* m2po: tokens are dropped in order until the mean deviation of the rest is small.
M2poKept(S, o) ==
    Dropped(S, o, Min({j \in 0 .. Len(o) :
                           Near(Dropped(S, o, j), Cardinality(Dropped(S, o, j)))}))

\* What token_weights may return for the tokens S, pairs of a mask and the multipliers.
TokenWeights(S) ==
    CASE rollout.correction = "none"    -> {<<S, [t \in S |-> One]>>}
      [] rollout.correction = "exact"   -> {<<S, [t \in S |-> <<W(t), Unit>>]>>}
      [] rollout.correction = "snis"    ->
             {<<S, [t \in S |-> <<W(t) * Cardinality(S), SumW(S)>>]>>}
      [] rollout.correction = "shuffle" ->
             {<<S, [t \in S |-> <<W(p[t]), Unit>>]>> : p \in Bijection(S, S)}
      [] rollout.correction = "clipped" -> {<<S, [t \in S |-> <<Smaller(W(t), IsClip), Unit>>]>>}
      [] rollout.correction = "icepop"  ->
             LET near == {t \in S : OffPolicy(t) <= IcepopDelta} IN {<<near, [t \in near |-> One]>>}
      [] rollout.correction = "m2po"    ->
             {<<M2poKept(S, o), [t \in M2poKept(S, o) |-> <<W(t), Unit>>]>> : o \in Orders(S)}

----------------------------------------------------------------------------
Init == /\ rollout \in Rollouts
        /\ mb = 0 /\ at = Between
        /\ keep = {} /\ weight = << >>
        /\ grads = EmptyBag /\ taken = 0

\* zero_grad, then the minibatch's tensors, cut to its own columns, and weights.
BeginMinibatch ==
    /\ at = Between
    /\ mb < N
    /\ at' = 0
    /\ \E r \in TokenWeights(Mask(Minibatch(mb))) : keep' = r[1] /\ weight' = r[2]
    /\ UNCHANGED <<rollout, mb, grads, taken>>

Slice == {i \in Minibatch(mb) : i - mb \in (at + 1) .. (at + rollout.micro)}

\* Slip: divided by the tokens of the micro-batch.
DenomOfMicro ==
    LET k == {t \in keep : t[1] \in Slice} IN IF k = {} THEN 1 ELSE Cardinality(k)

\* keep.sum().clamp_min(1)
Denom == IF keep = {} THEN 1 ELSE Cardinality(keep)

\* What token t adds to the loss: the term of its column, padded to the minibatch.
Entry(t) == [step |-> taken + 1, seq |-> t[1], tok |-> Predicted(t[1], t[2]),
             rec |-> IF t[2] \in Columns(Minibatch(mb)) THEN Record(t[1], t[2]) ELSE NoRecord,
             w |-> weight[t], denom |-> Denom]

\* One micro-batch: what backward adds to the gradients.
MicroBatch ==
    /\ at # Between
    /\ Slice # {}
    /\ at' = at + rollout.micro
    /\ grads' = grads (+) SetToBag({Entry(t) : t \in {k \in keep : k[1] \in Slice}})
    /\ UNCHANGED <<rollout, mb, keep, weight, taken>>

\* Gradients clipped to norm 1, and the optimizer's step.
OptStep ==
    /\ at # Between
    /\ Slice = {}
    /\ at' = Between
    /\ mb' = mb + Per
    /\ taken' = taken + 1
    /\ keep' = {} /\ weight' = << >>
    /\ UNCHANGED <<rollout, grads>>

Next == BeginMinibatch \/ MicroBatch \/ OptStep

Spec == Init /\ [][Next]_vars

\* kl_to_ref: the same tokens, in micro-batches of the whole rollout (those past it empty).
KlPairs ==
    LET slice(s) == {i \in 1 .. N : i - s \in 1 .. rollout.micro}
    IN  UNION {{[seq |-> t[1], tok |-> Predicted(t[1], t[2]), rec |-> Record(t[1], t[2])] :
                   t \in Mask(slice(s))} : s \in {rollout.micro * q : q \in 0 .. (N - 1)}}

----------------------------------------------------------------------------
(***************************************************************************)
(* Properties.                                                             *)
(***************************************************************************)
Done == at = Between /\ mb >= N

Tokens == UNION {{i} \X (1 .. rollout.out[i]) : i \in 1 .. N}
Of(k)  == {g \in BagToSet(grads) : g.step = k}
Masks  == {"icepop", "m2po"}
Own(g) == W(<<g.seq, g.tok + rollout.prompt[g.seq] - 2>>)
OwnDev(g) == (Own(g) - Unit) * (Own(g) - Unit)

\* However a rollout is cut, padded and masked, each output token is trained on once, with
\* the log-probability the engine recorded for that very token; prompt and pad columns
\* never are. The corrections that mask tokens may leave some out. kl_to_ref compares the
\* same pairs.
EveryTokenOnce ==
    Done =>
        /\ \A g, h \in BagToSet(grads) : g.seq = h.seq /\ g.tok = h.tok => g = h
        /\ \A g \in BagToSet(grads) : /\ grads[g] = 1
                                      /\ <<g.seq, g.tok>> \in Tokens
                                      /\ g.rec = g.tok
        /\ rollout.correction \notin Masks => Tokens = {<<g.seq, g.tok>> : g \in BagToSet(grads)}
        /\ KlPairs = {[seq |-> t[1], tok |-> t[2], rec |-> t[2]] : t \in Tokens}

\* An optimizer step sees the mean over its minibatch whatever the micro-batch size: its
\* contributions are divided by their own number.
MicroInvariant ==
    at = Between => \A k \in 1 .. taken : \A g \in Of(k) : g.denom = Cardinality(Of(k))

\* "optimizer steps per rollout batch": step takes as many as it was asked for, unless
\* minibatches of ceil(N / opt_steps) sequences are used up before (5 sequences in 4 steps
\* make 3 of 2); the statistics are then divided by a number of steps that were not taken.
StepsAsAsked ==
    Done => IF (rollout.opt_steps - 1) * Per < N THEN taken = rollout.opt_steps
            ELSE taken < rollout.opt_steps /\ taken * Per >= N /\ (taken - 1) * Per < N

\* What the module's docstring says of the correction, of the contributions C of the tokens S.
Documented(C, S) ==
    LET left == {t \in S : ~ \E g \in C : g.seq = t[1] /\ g.tok = Predicted(t[1], t[2])}
    IN  CASE rollout.correction = "none"    -> \A g \in C : g.w = One
          [] rollout.correction = "exact"   -> \A g \in C : g.w = <<Own(g), Unit>>
          [] rollout.correction = "snis"    -> \* mean 1, relative weights kept
                 /\ \A g, h \in C : g.w[1] * Own(h) = h.w[1] * Own(g) /\ g.w[2] = h.w[2]
                 /\ \A g \in C : MapThenSumSet(LAMBDA h : h.w[1], C) = Cardinality(C) * g.w[2]
          [] rollout.correction = "shuffle" -> \* same mean, same effective sample size
                 \A v \in Range(Weight) : Cardinality({g \in C : g.w = <<v, Unit>>}) =
                                          Cardinality({g \in C : Own(g) = v})
          [] rollout.correction = "clipped" ->
                 \A g \in C : \/ g.w = <<Own(g), Unit>>
                              \/ Own(g) > IsClip /\ g.w = <<IsClip, Unit>>
          [] rollout.correction = "icepop"  ->
                 /\ \A g \in C : g.w = One
                 /\ left = {t \in S : OffPolicy(t) > IcepopDelta}
          [] rollout.correction = "m2po"    -> \* the bound holds, and for no fewer masked
                 /\ \A g \in C : g.w = <<Own(g), Unit>>
                 /\ MapThenSumSet(OwnDev, C) <= M2poDelta * Cardinality(C)
                 /\ \A t \in left : \A s \in S \ left : OffPolicy(t) >= OffPolicy(s)
                 /\ left # {} =>
                        \E t \in left :
                            /\ \A s \in left : OffPolicy(t) <= OffPolicy(s)
                            /\ MapThenSumSet(Dev, (S \ left) \cup {t})
                                   > M2poDelta * Cardinality((S \ left) \cup {t})

\* The corrections are what the module's docstring says of them, minibatch by minibatch.
CorrectionsAsDocumented ==
    Done => \A k \in 1 .. taken : Documented(Of(k), Mask(Minibatch((k - 1) * Per)))
=============================================================================
