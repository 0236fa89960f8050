------------------------------ MODULE Sampling ------------------------------
(***************************************************************************)
(* spec/sampling.py and the use _accept and _score make of it: which       *)
(* drafts of a tree are accepted, what is drawn where the path ends, and   *)
(* the probability recorded for each emitted token.                        *)
(*                                                                         *)
(* Probabilities are weights: a row gives each token a whole weight and is *)
(* the distribution of the weights over their sum. A uniform is one of the *)
(* G numbers 0, 1/G, .. that divide every threshold exactly, so that the   *)
(* share of the uniforms with some outcome is the outcome's probability. A *)
(* fraction is a pair.                                                     *)
(*                                                                         *)
(* The state is one request's tree, grown node by node: every state is an  *)
(* input of walk, and the properties quantify over its uniforms.           *)
(***************************************************************************)
EXTENDS Trees, FiniteSetsExt

CONSTANTS Vocab,        \* tokens are 1 .. Vocab
          W,            \* the sum of the weights of a softmax
          G,            \* uniforms
          Rows,         \* weights at the nodes; the root's row is any
          Powers,       \* what the power rule makes of a probability in between, in 1/G
          Params        \* the request's sampling parameters, and the nodes of its largest tree

Token == 1 .. Vocab
Total(w) == Upto(w, Vocab)
Softmax == {w \in [Token -> 0 .. W] : Total(w) = W}

ASSUME SamplingAssumption ==
    /\ Vocab \in Nat \ {0} /\ W \in Nat \ {0} /\ G \in Nat \ {0}
    /\ \A k \in 1 .. W : \E t \in 1 .. G : G = k * t
    /\ Rows \subseteq Softmax /\ Powers \subseteq 1 .. (G - 1)
    /\ \A pa \in Params : /\ pa.rule \in {"exact", "power", "relaxed"}
                          /\ pa.greedy \in BOOLEAN /\ pa.sample \in BOOLEAN
                          /\ pa.top_k \in Nat /\ pa.top_p \in Nat
                          /\ pa.tau \in Nat /\ pa.accept_topk \in Nat /\ pa.nodes \in Nat

VARIABLES parents, tokens,  \* the tree
          lp,               \* lp[i]: the target's processed distribution at row i
          draft_q,          \* draft_q[i]: the distribution node i was drawn from, or Point
          power,            \* power[i]: (p / rest) ** alpha of node i, in 1/G
          params

vars == <<parents, tokens, lp, draft_q, power, params>>

Point == << >>              \* an argmax proposal
NoMass == [x \in Token |-> 0]
Nodes == DOMAIN parents
Max0(n) == IF n > 0 THEN n ELSE 0

----------------------------------------------------------------------------
(***************************************************************************)
(* Rows.                                                                   *)
(***************************************************************************)
\* x is sorted before y.
Above(w, x, y) == w[x] > w[y] \/ (w[x] = w[y] /\ x < y)

\* process: w within the top_k and the top_p, the token that crosses top_p included.
Processed(pa, w) ==
    LET before(x) == {y \in Token : Above(w, y, x)}
        mass(S) == Total([y \in Token |-> IF y \in S THEN w[y] ELSE 0])
        keep == {x \in Token : /\ mass(before(x)) <= pa.top_p
                               /\ pa.top_k > 0 => Cardinality(before(x)) < pa.top_k}
    IN  [x \in Token |-> IF x \in keep THEN w[x] ELSE 0]

Argmax(w) == CHOOSE x \in Token : \A y \in Token \ {x} : Above(w, x, y)

\* The target's distribution at row i; a greedy row is all on the argmax.
P(i) == IF params.greedy THEN [NoMass EXCEPT ![Argmax(lp[i])] = W] ELSE lp[i]

\* rank: tokens the target prefers to x at row i, whatever the temperature.
RankAt(i, x) == Cardinality({y \in Token : lp[i][y] > lp[i][x]})

\* Slip: the draw of a plain step.
ResidualPlain(p, q) == p

\* What a row leaves after the proposal mass tested at it; both over the same total.
Residual(p, q) == [x \in Token |-> Max0(p[x] - q[x])]

\* draw: the inverse of the cumulative sum at uniform v.
Draw(w, v) ==
    LET total == Total(w)
        hit == {x \in Token : Upto(w, x) * G > v * total}
    IN  IF hit = {} THEN Vocab ELSE Min(hit)

\* Row i once its drafts are tested, a point mass on each argmax draft (_score).
Left(tok, i) ==
    LET ch == Children(parents, i)
        p  == P(i)
    IN  IF ch # << >> /\ draft_q[ch[1]] # Point
        THEN Residual([x \in Token |-> p[x] * W], [x \in Token |-> draft_q[ch[1]][x] * Total(p)])
        ELSE Residual(p, [x \in Token |-> IF \E k \in DOMAIN ch : tok[ch[k]] = x
                                          THEN Total(p) ELSE 0])

DrawRow(tok, i, v) == IF params.greedy THEN Argmax(lp[i]) ELSE Draw(Left(tok, i), v)

----------------------------------------------------------------------------
(***************************************************************************)
(* walk.                                                                   *)
(***************************************************************************)
Pn(tok, c) == P(parents[c])[tok[c]]

One  == <<1, 1>>
Zero == <<0, 1>>

\* min(1, p / (q * rest)), or whether p > 0 when there is nothing to divide by.
Ratio(tok, c, rest) ==
    LET p == Pn(tok, c)
        q == IF draft_q[c] = Point THEN W ELSE draft_q[c][tok[c]]
    IN  IF q * rest = 0 THEN (IF p > 0 THEN One ELSE Zero)
        ELSE IF p * W >= q * rest THEN One ELSE <<p * W, q * rest>>

\* The probability of accepting draft c when rest of its row is left.
Accept(tok, c, rest) ==
    LET p == Pn(tok, c)
        a == Ratio(tok, c, rest)
    IN  CASE params.rule = "exact"   -> a
          [] params.rule = "power"   -> IF a = One \/ a[1] = 0 THEN a ELSE <<power[c], G>>
          [] params.rule = "relaxed" -> IF \/ p * W >= params.tau * Total(P(parents[c]))
                                           \/ RankAt(parents[c], tok[c]) < params.accept_topk
                                        THEN One ELSE Zero

\* Slip: every sibling tested against the whole row.
SiblingAgainstWhole(tok, u, s, c) ==
    IF s.nxt # Root THEN s
    ELSE LET a == Accept(tok, c, s.rest) IN
         IF u[c] * a[2] < a[1] * G THEN [s EXCEPT !.nxt = c, !.acc = Append(@, a)]
         ELSE [s EXCEPT !.acc = Append(@, a)]

\* Slip: u <= a, which accepts what has no probability at u = 0.
SiblingAtMost(tok, u, s, c) ==
    IF s.nxt # Root THEN s
    ELSE LET a == Accept(tok, c, s.rest) IN
         IF u[c] * a[2] <= a[1] * G THEN [s EXCEPT !.nxt = c, !.acc = Append(@, a)]
         ELSE [s EXCEPT !.rest = Max0(@ - Pn(tok, c)), !.acc = Append(@, a)]

\* Draft c accepted with probability a, or rejected with the p of its row.
Decided(u, s, c, a, p) ==
    IF u[c] * a[2] < a[1] * G THEN [s EXCEPT !.nxt = c, !.acc = Append(@, a)]
    ELSE [s EXCEPT !.rest = Max0(@ - p), !.acc = Append(@, a)]

\* One sibling of the inner loop, unless one before it was accepted.
Sibling(tok, u, s, c) ==
    IF s.nxt # Root THEN s
    ELSE Decided(u, s, c, Accept(tok, c, s.rest), Pn(tok, c))

\* The inner loop at cur: the child accepted, Root if none, and the tests made.
Tested(tok, u, cur) ==
    LET ch == Children(parents, cur)
        test[k \in 0 .. Len(ch)] ==
            IF k = 0 THEN [rest |-> Total(P(cur)), nxt |-> Root, acc |-> << >>]
            ELSE Sibling(tok, u, test[k - 1], ch[k])
    IN  test[Len(ch)]

\* The accepted path.
Walk(tok, u) ==
    LET from[cur \in Nodes \cup {Root}] ==
            LET nxt == Tested(tok, u, cur).nxt
            IN  IF nxt = Root THEN << >> ELSE <<nxt>> \o from[nxt]
    IN  from[Root]

----------------------------------------------------------------------------
(***************************************************************************)
(* behavior_logprob.                                                       *)
(***************************************************************************)
Times(f, g) == <<f[1] * g[1], f[2] * g[2]>>
Not(f) == <<f[2] - f[1], f[2]>>
Minus(f, g) == <<f[1] * g[2] - g[1] * f[2], f[2] * g[2]>>

\* Slip: the rejected siblings left out.
BehaviorForgetsRejected(source, sample, rejected, accept, exact) ==
    IF exact THEN sample ELSE IF source = "draft" THEN accept ELSE sample

\* rejected: pairs of an accept probability and a target probability.
BehaviorProb(source, sample, rejected, accept, exact) ==
    LET m    == Len(rejected)
        all[k \in 0 .. m]  == IF k = 0 THEN One ELSE Times(all[k - 1], Not(rejected[k][1]))
        left[k \in 0 .. m] == IF k = 0 THEN One ELSE Minus(left[k - 1], rejected[k][2])
        none == all[m]
    IN  IF exact \/ (source = "bonus" /\ rejected = << >>) THEN sample
        ELSE CASE source = "draft"    -> Times(none, accept)
               [] source = "resample" -> Times(Times(none, sample), <<left[m][2], left[m][1]>>)
               [] OTHER               -> Times(none, sample)

\* The token emitted at row i by a walk that reaches it, and its recorded probability.
Info(tok, i, u, v) ==
    LET s  == Tested(tok, u, i)
        ch == Children(parents, i)
        p  == P(i)
        prob(x) == <<p[x], Total(p)>>
        rejected(k) == [j \in 1 .. k |-> <<s.acc[j], prob(tok[ch[j]])>>]
        exact == params.rule = "exact"
    IN  IF s.nxt # Root
        THEN LET k == Len(s.acc) IN
             [token |-> tok[s.nxt], source |-> "draft",
              mu    |-> BehaviorProb("draft", prob(tok[s.nxt]), rejected(k - 1), s.acc[k], exact)]
        ELSE LET x == DrawRow(tok, i, v)
                 final == IF ch = << >> THEN "bonus" ELSE "resample"
             IN
             [token |-> x, source |-> final,
              mu    |-> BehaviorProb(final, prob(x), rejected(Len(ch)), Zero, exact)]

----------------------------------------------------------------------------
(***************************************************************************)
(* The trees of one request, node by node in node order.                   *)
(***************************************************************************)
Init == /\ parents = << >> /\ tokens = << >> /\ draft_q = << >> /\ power = << >>
        /\ params \in Params
        /\ \E w \in Softmax : lp = [i \in {Root} |-> Processed(params, w)]

With(f, n, x) == [c \in DOMAIN f \cup {n} |-> IF c = n THEN x ELSE f[c]]

\* A draft below node i (or the root), after the drafts of the nodes before i: siblings
\* carry different tokens. A sampled proposal is a chain's.
AddDraft(i, x, w, q, b) ==
    LET n == Cardinality(Nodes) IN
    /\ n < params.nodes
    /\ \A c \in Nodes : parents[c] <= i /\ (parents[c] = i => tokens[c] # x)
    /\ \/ params.sample /\ i = n - 1 /\ q \in Softmax /\ q[x] > 0
       \/ ~params.sample /\ q = Point
    /\ b \in IF params.rule = "power" THEN Powers ELSE {G}
    /\ parents' = With(parents, n, i)
    /\ tokens' = With(tokens, n, x)
    /\ lp' = With(lp, n, Processed(params, w))
    /\ draft_q' = With(draft_q, n, q)
    /\ power' = With(power, n, b)
    /\ UNCHANGED params

Next == \E i \in Nodes \cup {Root}, x \in Token, w \in Rows, b \in Powers \cup {G} :
        \E q \in (IF params.sample THEN Softmax ELSE {Point}) : AddDraft(i, x, w, q, b)

Spec == Init /\ [][Next]_vars

----------------------------------------------------------------------------
(***************************************************************************)
(* Properties.                                                             *)
(***************************************************************************)
Uniform == 0 .. (G - 1)
Reaches(tok, u, i) == i = Root \/ i \in ToSet(Walk(tok, u))

\* A row may be left without mass after its drafts are tested.
Exhausted(i) == Total(Left(tokens, i)) = 0

\* With argmax proposals, every emitted token is recorded with the probability the
\* sampler emits it with, given that its row was reached: over all uniforms its share is
\* mu. Under the exact rule mu is the target's probability, so that what is emitted has the
\* target's distribution at every row of every tree. (Rows without mass: DrawsHaveMass.)
BehaviorIsTheSampler ==
    ~params.sample => \A i \in (Nodes \cup {Root}) :
        LET reach == {u \in [Nodes -> Uniform] : Reaches(tokens, u, i)}
            emits == {<<o, Info(tokens, i, o[1], o[2])>> : o \in reach \X Uniform}
            infos == {e[2] : e \in emits}
            count(x) == Cardinality({e \in emits : e[2].token = x})
        IN  (\E f \in infos : f.source # "draft" /\ Exhausted(i))
            \/ \A f \in infos : count(f.token) * f.mu[2] = f.mu[1] * Cardinality(emits)

\* The relaxed rule's own test, whatever the rest of the row.
Relaxes(c) == \/ Pn(tokens, c) * W >= params.tau * Total(P(parents[c]))
              \/ RankAt(parents[c], tokens[c]) < params.accept_topk

\* A draw is made from a row with some mass left. Only under the relaxed rule can every
\* token of a row be drafted and rejected, each for its own want of probability and rank;
\* draw then returns the last token of the vocabulary.
DrawsHaveMass ==
    \A u \in [Nodes -> Uniform] :
        LET path == Walk(tokens, u)
            end  == IF path = << >> THEN Root ELSE Last(path)
        IN  Exhausted(end) =>
                /\ params.rule = "relaxed"
                /\ \A c \in ToSet(Children(parents, end)) : ~Relaxes(c)

\* An accepted draft has a probability, whose logarithm is taken. Only the relaxed rule
\* accepts without one: at a tau of 0, or by rank, below the argmax of a greedy row or
\* outside a nucleus smaller than accept_topk.
AcceptedHaveMass ==
    \A u \in [Nodes -> Uniform] : \A c \in ToSet(Walk(tokens, u)) :
        Pn(tokens, c) = 0 =>
            /\ params.rule = "relaxed"
            /\ params.tau = 0 \/ RankAt(parents[c], tokens[c]) < params.accept_topk

\* Chain drafts drawn from the head's distribution, under the exact rule: over its draws and
\* all uniforms, what is emitted at the row is the target's.
SampledIsLossless ==
    params.sample /\ params.rule = "exact" => \A c \in Nodes :
        LET i == parents[c]
            p == P(i)
            reach == {u \in [Nodes -> Uniform] : Reaches(tokens, u, i)}
            emits(d, x) == Cardinality({o \in reach \X Uniform :
                               Info([tokens EXCEPT ![c] = d], i, o[1], o[2]).token = x})
        IN  \A x \in Token :
                Total([d \in Token |-> draft_q[c][d] * emits(d, x)]) * Total(p)
                    = p[x] * W * Cardinality(reach) * G
=============================================================================
