------------------------------ MODULE Entries ------------------------------
(***************************************************************************)
(* What a forward writes. An entry of a cache is named by the token        *)
(* sequence it is the K/V of: what the current weights compute for its     *)
(* last token after the ones before. A row computes that only if what it   *)
(* attends is exactly one entry per shorter prefix and its position is     *)
(* right; anything else is Garbage. Tokens are named up to renaming: a     *)
(* drafted token by its place among its siblings.                          *)
(***************************************************************************)
EXTENDS Trees

Garbage == <<-1>>

\* The positions S of view e hold ctx's prefixes of length first and more, each once.
Holds(e, S, ctx, first) ==
    /\ Cardinality(S) = Len(ctx) - first + 1
    /\ {e[p] : p \in S} = {SubSeq(ctx, 1, k) : k \in first .. Len(ctx)}

\* A row of the target: token x at rotary position pos, attending S besides itself.
TargetEntry(e, x, pos, S) ==
    LET seen == {e[p] : p \in S}
        ctx  == IF S = {} THEN << >>
                ELSE CHOOSE c \in seen : \A d \in seen : Len(d) <= Len(c)
    IN  IF Garbage \notin seen /\ Holds(e, S, ctx, 1) /\ pos = Len(ctx) THEN Append(ctx, x)
        ELSE Garbage

\* A row of the drafter: it is fed the hidden state that stands for ctx and the token
\* after it, so its first position stands for two tokens.
DraftEntry(e, ctx, x, pos, S) ==
    IF ctx # Garbage /\ Holds(e, S, ctx, 2) /\ pos = Len(ctx) - 1 THEN Append(ctx, x)
    ELSE Garbage

----------------------------------------------------------------------------
\* A drafted token is named by its place among its siblings.
NodeToken(p, i) == Cardinality({c \in DOMAIN p : p[c] = p[i] /\ c <= i})
PathTokens(p, path) == [k \in DOMAIN path |-> NodeToken(p, path[k])]
=============================================================================
