----------------------------- MODULE SpecCache -----------------------------
(***************************************************************************)
(* What the two caches hold. Engine's steps, with the contents they move:  *)
(* the verify forward writes K/V for the root and the tree, the accept     *)
(* loop picks a path and notes the moves that compact it, the moves are    *)
(* applied after the loop, and the draft extend and the levels write the   *)
(* draft cache. Both caches are addressed through the block tables.        *)
(*                                                                         *)
(* Entries are named as Entries names them; the token a step ends with is  *)
(* one that was not drafted.                                               *)
(***************************************************************************)
EXTENDS Engine, Entries, Attention

CONSTANTS
    Backend,    \* which attention backend runs the forwards
    MaxBucket   \* the most requests a captured extend takes (_buckets)

ASSUME BackendAssumption == /\ Backend \in {"sdpa", "flashinfer"}
                            /\ MaxBucket \in Nat

VARIABLES
    prompt_ids,     \* req.prompt_ids
    out_tokens,     \* req.out_tokens
    parents,        \* req.tree.parents, the empty function without a tree
    kv,             \* the target's cache, one entry per slot
    draft_kv,       \* the drafter's
    rows,           \* rows[r]: what the rows of r in h stand for, between forward and accept
    moves,          \* _accept's src and dst, as pairs
    ext_rows        \* ext_rows[r]: ext_ids with ext_hidden

texts == <<prompt_ids, out_tokens, parents>>
local == <<rows, moves, ext_rows>>
contents == <<texts, kv, draft_kv, local>>

Slot    == 0 .. (NumBlocks * BlockSize - 1)
Fresh   == 0                        \* a token that was not drafted
PromptToken(r) == TopK + 1 + r      \* drafted tokens are 1 .. TopK

NoParents == << >>
Nobody(v) == [r \in Request |-> v]

CacheInit == /\ Init
             /\ prompt_ids = Nobody(<< >>) /\ out_tokens = Nobody(<< >>)
             /\ parents = Nobody(NoParents)
             /\ kv = [s \in Slot |-> Garbage] /\ draft_kv = [s \in Slot |-> Garbage]
             /\ rows = Nobody(<< >>) /\ moves = << >> /\ ext_rows = Nobody(<< >>)

----------------------------------------------------------------------------
(***************************************************************************)
(* Addressing.                                                             *)
(***************************************************************************)
\* The slot of position p.
Phys(r, p) == blocks[r][(p \div BlockSize) + 1] * BlockSize + (p % BlockSize)

\* r's positions as cache c holds them.
View(c, r) == [p \in 0 .. (Len(blocks[r]) * BlockSize - 1) |-> c[Phys(r, p)]]

\* The position of r that slot s is.
Place(r, s) == LET i == CHOOSE j \in DOMAIN blocks[r] : blocks[r][j] = s \div BlockSize
               IN  (i - 1) * BlockSize + (s % BlockSize)

\* Cache c once the positions of each request of S hold what its view says.
Stored(c, S, view) ==
    [s \in Slot |->
        LET own == {r \in S : s \div BlockSize \in ToSet(blocks[r])}
            r   == CHOOSE o \in own : TRUE
        IN  IF own = {} THEN c[s] ELSE view[r][Place(r, s)]]

----------------------------------------------------------------------------
(***************************************************************************)
(* The verify forward.                                                     *)
(***************************************************************************)
\* The requests one forward of _run verifies with r, and their query rows and cached positions.
Together(r) == IF r \in ToSet(admitted) THEN admitted ELSE batch
Queries(r)  == IF r \in ToSet(admitted) THEN prompt[r] ELSE 1 + tree[r]
Cached(r)   == IF r \in ToSet(admitted) THEN prompt[r] ELSE committed[r] + 1 + tree[r]

\* flat_masks of a tree's verify rows, the root's first: what is committed, the root, and
\* ancestors-or-self.
VerifyMask(r) ==
    IF TopK = 1 \/ r \in ToSet(admitted) THEN Unmasked
    ELSE LET see == AncestorMask(parents[r], Depth)
             L   == committed[r]
         IN  [j \in 1 .. (1 + tree[r]) |->
                 (0 .. L) \cup IF j = 1 THEN {} ELSE {L + 1 + i : i \in see[j - 2]}]

\* The positions each verify row of r attends.
Attended(r) == Attends(Backend, Queries(r), Cached(r), VerifyMask(r),
                       \A s \in ToSet(Together(r)) : Queries(s) = 1)

\* The rows of r in _run: token, rotary position and slot.
PromptRows(r) == [k \in 1 .. prompt[r] |->
    [tok |-> prompt_ids[r][k], pos |-> k - 1, slot |-> k - 1]]

\* Slip: the position counted from the tokens, of which the last is not committed.
RootRowBySeqLen(r) == [tok  |-> Last(out_tokens[r]), pos |-> prompt[r] + out[r],
                       slot |-> committed[r]]

RootRow(r) == [tok  |-> Last(out_tokens[r]), pos |-> committed[r], slot |-> committed[r]]

NodeRows(r) ==
    [k \in 1 .. tree[r] |-> [tok  |-> NodeToken(parents[r], k - 1),
                             pos  |-> committed[r] + 1 + ((k - 1) \div TopK),
                             slot |-> committed[r] + k]]

VerifyRows(r) == IF r \in ToSet(admitted) THEN PromptRows(r) ELSE <<RootRow(r)>> \o NodeRows(r)

\* r's view after the target has run its rows.
Verified(r) ==
    LET R   == VerifyRows(r)
        see == Attended(r)
        run[k \in 0 .. Len(R)] ==
            IF k = 0 THEN View(kv, r)
            ELSE LET e == run[k - 1] IN
                 [e EXCEPT ![R[k].slot] =
                     TargetEntry(e, R[k].tok, R[k].pos, see[k] \ {R[k].slot})]
    IN  run[Len(R)]

RunForward ==
    /\ Forward
    /\ LET S    == ToSet(batch \o admitted)
           view == [r \in S |-> Verified(r)]
       IN  /\ kv' = Stored(kv, S, view)
           /\ rows' = [r \in Request |->
                          IF r \notin S THEN << >>
                          ELSE LET R == VerifyRows(r) IN [k \in DOMAIN R |-> view[r][R[k].slot]]]
    /\ UNCHANGED <<texts, draft_kv, moves, ext_rows>>

----------------------------------------------------------------------------
(***************************************************************************)
(* Acceptance.                                                             *)
(***************************************************************************)
\* The paths walk may accept: from the root down, any length.
Paths(p) == {<< >>} \cup {Ancestors(p, i) : i \in DOMAIN p}

\* Slip: the path taken leaf first.
CompactionLeafFirst(r, path) ==
    [k \in DOMAIN path |-> <<Phys(r, committed[r] + 1 + path[Len(path) + 1 - k]),
                             Phys(r, committed[r] + Len(path) + 1 - k)>>]

\* Positions of the accepted nodes and where they belong.
Compaction(r, path) ==
    [k \in DOMAIN path |-> <<Phys(r, committed[r] + 1 + path[k]), Phys(r, committed[r] + k)>>]

\* The moves noted for r: none when the path already is 0, 1, ...
NotedMoves(r, path) ==
    IF \A k \in DOMAIN path : path[k] = k - 1 THEN << >> ELSE Compaction(r, path)

\* r accepts path and emits the first tokens of it and of the row's own draw.
AcceptPath(r, path) ==
    /\ tree[r] # NoTree => Len(path) = committed'[r] - committed[r] - 1
    /\ LET infos == Append(PathTokens(parents[r], path), Fresh) IN
       out_tokens' = [out_tokens EXCEPT ![r] = @ \o SubSeq(infos, 1, out'[r] - out[r])]
    /\ moves' = moves \o NotedMoves(r, path)
    /\ rows' = [rows EXCEPT ![r] = << >>]
    /\ UNCHANGED <<prompt_ids, parents, kv, draft_kv>>

\* Slip: the prompt not shifted.
ExtRowsUnshifted(r, path) ==
    IF tree[r] = NoTree
    THEN [k \in DOMAIN rows[r] |-> [ctx |-> rows[r][k], tok |-> prompt_ids[r][k]]]
    ELSE [k \in 1 .. (Len(path) + 1) |->
             [ctx |-> rows[r][IF k = 1 THEN 1 ELSE 2 + path[k - 1]],
              tok |-> out_tokens'[r][Len(out_tokens'[r]) - (Len(path) + 1) + k]]]

\* ext_ids with the hidden rows they go with: the prompt shifted by one, or the tokens
\* just emitted with the root's row and the accepted nodes'.
ExtRows(r, path) ==
    IF tree[r] = NoTree
    THEN [k \in DOMAIN rows[r] |->
             [ctx |-> rows[r][k],
              tok |-> IF k < prompt[r] THEN prompt_ids[r][k + 1] ELSE Last(out_tokens'[r])]]
    ELSE [k \in 1 .. (Len(path) + 1) |->
             [ctx |-> rows[r][IF k = 1 THEN 1 ELSE 2 + path[k - 1]],
              tok |-> out_tokens'[r][Len(out_tokens'[r]) - (Len(path) + 1) + k]]]

\* A request that is done: its moves stay noted; its texts are the caller's and forgotten.
FinishPath ==
    /\ AcceptDone
    /\ \E path \in Paths(parents[Head(todo)]) :
           /\ tree[Head(todo)] # NoTree =>
                  Len(path) = committed'[Head(todo)] - committed[Head(todo)] - 1
           /\ moves' = moves \o NotedMoves(Head(todo), path)
    /\ rows' = [rows EXCEPT ![Head(todo)] = << >>]
    /\ prompt_ids' = [prompt_ids EXCEPT ![Head(todo)] = << >>]
    /\ out_tokens' = [out_tokens EXCEPT ![Head(todo)] = << >>]
    /\ parents' = [parents EXCEPT ![Head(todo)] = NoParents]
    /\ UNCHANGED <<kv, draft_kv, ext_rows>>

PlainPath ==
    /\ AcceptPlain
    /\ AcceptPath(Head(todo), << >>)
    /\ UNCHANGED ext_rows

SpecPath ==
    /\ AcceptSpec
    /\ \E path \in Paths(parents[Head(todo)]) :
           /\ AcceptPath(Head(todo), path)
           /\ ext_rows' = [ext_rows EXCEPT ![Head(todo)] = ExtRows(Head(todo), path)]

----------------------------------------------------------------------------
(***************************************************************************)
(* After the loop: the moves, the draft extend and the levels.             *)
(***************************************************************************)
\* Slip: one move after the other, last first.
MovedOneByOne ==
    LET done[k \in 0 .. Len(moves)] ==
            IF k = 0 THEN kv
            ELSE LET m == moves[Len(moves) - k + 1] IN
                 [done[k - 1] EXCEPT ![m[2]] = done[k - 1][m[1]]]
    IN  done[Len(moves)]

\* kv.move: every source is read before any destination is written.
Moved == [s \in Slot |->
             IF moves # << >> /\ \E m \in ToSet(moves) : m[2] = s
             THEN kv[(CHOOSE m \in ToSet(moves) : m[2] = s)[1]]
             ELSE kv[s]]

LocalsDead == /\ rows' = Nobody(<< >>) /\ moves' = << >> /\ ext_rows' = Nobody(<< >>)

\* The trees D levels may grow into: a chain, or TopK nodes per level, each below any
\* node of the level before (DraftTree).
TreesOf(d) ==
    IF TopK = 1 THEN {Chain(d)}
    ELSE {[i \in 0 .. (d * TopK - 1) |->
              IF i < TopK THEN -1 ELSE ((i \div TopK) - 1) * TopK + pl[i]] :
          pl \in [TopK .. (d * TopK - 1) -> 0 .. (TopK - 1)]}

\* The extend is captured, and pads every request to Depth + 1 rows, when each fits them
\* and some bucket takes the batch.
Padded == /\ Graphs
          /\ \A r \in ToSet(alive) : Len(ext_rows[r]) <= Depth + 1
          /\ Len(alive) <= MaxBucket

\* The positions the rows of r's extend attend; captured, it runs under explicit causal masks.
ExtendAttended(r) ==
    LET n == Len(ext_rows[r]) IN
    IF Padded THEN CausalMask(Depth + 1, committed[r] - n + Depth + 1)
    ELSE Attends(Backend, n, committed[r], Unmasked, \A s \in ToSet(alive) : Len(ext_rows[s]) = 1)

\* r's view of the draft cache after the extend over its new positions.
Extended(r) ==
    LET n   == Len(ext_rows[r])
        st  == committed[r] - n
        old == View(draft_kv, r)
        pad == IF Padded THEN (st + n) .. (st + Depth) ELSE {}
        see == ExtendAttended(r)
        run[k \in 0 .. n] ==
            IF k = 0 THEN [p \in DOMAIN old |-> IF p \in pad THEN Garbage ELSE old[p]]
            ELSE LET e == run[k - 1] IN
                 [e EXCEPT ![st + k - 1] =
                     DraftEntry(e, ext_rows[r][k].ctx, ext_rows[r][k].tok,
                                st + k - 1, see[k] \ {st + k - 1})]
    IN  run[n]

\* ... and after the levels that grow tree p on top: every level but the last is fed back.
Levelled(r, p, d) ==
    LET L     == committed[r]
        Above(e, i) == IF p[i] = -1 THEN e[L - 1] ELSE e[L + p[i]]
        sees  == [level \in 1 .. d |-> AncestorMask(p, level)]
        Columns(level, i) ==    \* a chain's row is alone in its request; a level is masked
            (IF TopK = 1 THEN Attends(Backend, 1, L + level, Unmasked, TRUE)[1]
             ELSE (0 .. (L - 1)) \cup {L + j : j \in sees[level][i]}) \ {L + i}
        Level(i) == 1 + (i \div TopK)
        run[k \in 0 .. ((d - 1) * TopK)] ==
            IF k = 0 THEN Extended(r)
            ELSE LET e == run[k - 1]
                     i == k - 1
                 IN  [e EXCEPT ![L + i] = DraftEntry(e, Above(e, i), NodeToken(p, i),
                                                     L + Level(i) - 1, Columns(Level(i), i))]
    IN  run[(d - 1) * TopK]

DraftTrees ==
    /\ Draft
    /\ LET S == ToSet(alive)
           d == DraftDepth(Len(alive))
       IN  \E p \in [S -> TreesOf(d)] :
               /\ parents' = [r \in Request |-> IF r \in S THEN p[r] ELSE parents[r]]
               /\ draft_kv' = Stored(draft_kv, S, [r \in S |-> Levelled(r, p[r], d)])
    /\ kv' = Moved
    /\ LocalsDead
    /\ UNCHANGED <<prompt_ids, out_tokens>>

EndWithoutDraft ==
    /\ EndStep
    /\ kv' = Moved
    /\ LocalsDead
    /\ UNCHANGED <<texts, draft_kv>>

----------------------------------------------------------------------------
(***************************************************************************)
(* Requests and weights.                                                   *)
(***************************************************************************)
AddText ==
    /\ Add
    /\ prompt_ids' = [prompt_ids EXCEPT ![next_id] =
                          [k \in 1 .. prompt'[next_id] |-> PromptToken(next_id)]]
    /\ UNCHANGED <<out_tokens, parents, kv, draft_kv, local>>

\* New weights make every entry computed before something else than what they would
\* compute: update_weights of the target both caches, a drafter swap its own.
NewWeights ==
    /\ UpdateWeights
    /\ draft_kv' = [s \in Slot |-> Garbage]
    /\ kv' \in {kv, [s \in Slot |-> Garbage]}
    /\ UNCHANGED <<texts, local>>

RestartText ==
    /\ RestartHead
    /\ prompt_ids' = [prompt_ids EXCEPT ![Head(todo)] = @ \o out_tokens[Head(todo)]]
    /\ parents' = [parents EXCEPT ![Head(todo)] = NoParents]
    /\ UNCHANGED <<out_tokens, kv, draft_kv, local>>

\* Steps that move no contents.
Bookkeeping ==
    /\ \/ Capture \/ BeginStep \/ Admit \/ StepIsEmpty \/ BeginRun \/ Reserve \/ Regrow
       \/ Raise \/ EndUpdate \/ Rest
    /\ UNCHANGED contents

CacheNext == \/ AddText \/ RunForward \/ FinishPath \/ PlainPath \/ SpecPath
             \/ DraftTrees \/ EndWithoutDraft \/ NewWeights \/ RestartText \/ Bookkeeping

CacheSpec == CacheInit /\ [][CacheNext]_<<vars, contents>>

\* The contents never hold a step back, so what is fair is what is fair for Engine.
FairCacheSpec == CacheSpec /\ Fairness

----------------------------------------------------------------------------
(***************************************************************************)
(* Properties.                                                             *)
(***************************************************************************)
\* What the caller has been answered so far, after the prompt it submitted.
Text(r) == SubSeq(prompt_ids[r], 1, asked[r]) \o out_tokens[r]

\* Between steps position p of a running request holds the K/V of its text up to p: the
\* accepted path in chain order, nothing rejected, nothing of another request that held
\* the block before or takes it in the same loop, nothing of older weights.
TargetCacheExact ==
    pc = "idle" => \A r \in Running : \A p \in 0 .. (committed[r] - 1) :
        kv[Phys(r, p)] = SubSeq(Text(r), 1, p + 1)

\* The draft cache too, one token ahead: nothing but the acceptance rate would show it.
DraftCacheExact ==
    pc = "idle" /\ Depth > 0 => \A r \in Running : \A p \in 0 .. (committed[r] - 1) :
        draft_kv[Phys(r, p)] = SubSeq(Text(r), 1, p + 2)

\* Whatever order requests accept, finish, compact, roll back, restart and are padded in,
\* both caches hold the running requests' texts, entry by entry.
CachesExact == TargetCacheExact /\ DraftCacheExact

\* Every acceptance test and every draw is made on the row of its own context: the root
\* row stands for the text, a node's row for the text and the path down to the node.
RowsStandForPaths ==
    pc = "accept" => \A r \in ToSet(todo) :
        /\ Last(rows[r]) # Garbage
        /\ tree[r] = NoTree => rows[r][Len(rows[r])] = Text(r)
        /\ tree[r] # NoTree =>
               /\ rows[r][1] = Text(r)
               /\ \A i \in DOMAIN parents[r] :
                      rows[r][2 + i] =
                          Text(r) \o PathTokens(parents[r], Ancestors(parents[r], i))

\* When the loop ends no slot is the destination of two moves, and none is read by a move
\* after one before it has written it: the batch of moves means the same whether it is
\* applied at once or front to back ("every source slot is >= its destination").
MovesAreOrderly ==
    AcceptEnds => \A i, j \in DOMAIN moves : /\ moves[i][2] = moves[j][2] => i = j
                                             /\ moves[i][2] = moves[j][1] => i >= j
=============================================================================
