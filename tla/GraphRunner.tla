---------------------------- MODULE GraphRunner ----------------------------
(***************************************************************************)
(* engine/graphs.py under the engine's steps: captured graphs replayed     *)
(* over static buffers. The host and the device are two processes joined   *)
(* by the stream: the host writes the staging buffer and enqueues copies   *)
(* and replays, the device executes them in order, later; the host waits   *)
(* for it only where it reads a result back (`tolist`).                    *)
(*                                                                         *)
(* A row of a buffer is named by the call, the request and the row it      *)
(* belongs to. What a replay computes for a row is a function of the row,  *)
(* so an output row carries the name of the input row it was computed      *)
(* from. Names are relative to a step: what earlier steps left in a buffer *)
(* is Old.                                                                 *)
(***************************************************************************)
EXTENDS Integers, Sequences, FiniteSets, SequencesExt, FiniteSetsExt

CONSTANTS Buckets,      \* batch sizes captured
          MaxBatch,     \* requests in a batch
          Configs       \* engines: [depth, topk, budget (0: none), prompts (lengths admitted)]

ASSUME GraphAssumption ==
    /\ Buckets \subseteq Nat \ {0} /\ Buckets # {} /\ IsFiniteSet(Buckets)
    /\ MaxBatch \in Nat \ {0}
    /\ \A c \in Configs : /\ c.depth \in Nat /\ c.topk \in Nat \ {0} /\ c.budget \in Nat
                          /\ c.prompts \subseteq Nat \ {0}

VARIABLES
    config,     \* the engine's configuration
    pc,         \* where the host is in _run
    running,    \* qo_lens of the running requests
    new,        \* qo_lens of the admitted ones
    outs,       \* the outputs of the verify forwards
    alive,      \* rows of each request's draft extend
    level,      \* draft forwards after the extend
    up,         \* the parents of the next level's nodes
    hid,        \* the hidden rows it is fed
    stage,      \* stage[g]: runner g's pinned staging buffer
    inputs,     \* inputs[g]: its static inputs
    hidden,     \* hidden[g]: its static hidden rows
    outputs,    \* outputs[g][bs]: its static outputs
    gathered,   \* the tensor last made by indexing outputs
    h,          \* the verify outputs, concatenated
    stream      \* what the device has still to do

batch   == <<running, new, outs>>
drafts  == <<alive, level, up, hid>>
buffers == <<inputs, hidden, outputs>>
device  == <<buffers, gathered, h>>
vars    == <<config, pc, batch, drafts, stage, device, stream>>

K == config.topk
\* Every depth has a runner when the row budget lets the depth of a chain vary.
RowCounts ==
    LET depths == IF config.budget > 0 /\ K = 1 THEN 1 .. config.depth ELSE {config.depth}
    IN  {d * K + 1 : d \in depths}
Verify(r) == <<"verify", r>>
Draft     == <<"draft", K>>
Extend    == <<"extend", config.depth + 1>>
Runner    == {Verify(r) : r \in RowCounts} \cup (IF config.depth = 0 THEN {} ELSE {Draft, Extend})
R(g)      == g[2]
MaxRows(g) == Max(Buckets) * R(g)

Row(call, b, i) == <<call, b, i>>
Pad == <<"pad">>
Old == <<"old">>
All(n, x)  == [i \in 1 .. n |-> x]
Leading(s, n) == [i \in 1 .. n |-> s[i]]
Flat(lists) == LET upto[n \in 0 .. Len(lists)] == IF n = 0 THEN << >> ELSE upto[n - 1] \o lists[n]
               IN  upto[Len(lists)]
\* The rows of a call in which request b has lens[b] of them.
RowsOf(call, lens) == Flat([b \in DOMAIN lens |-> [i \in 1 .. lens[b] |-> Row(call, b, i)]])

----------------------------------------------------------------------------
(***************************************************************************)
(* The runner.                                                             *)
(***************************************************************************)
Fits(B) == \E b \in Buckets : b >= B
Bucket(B) == CHOOSE b \in Buckets : b >= B /\ \A c \in Buckets : c >= B => b <= c

CanRun(g, lens) == (\A i \in DOMAIN lens : lens[i] = R(g)) /\ Fits(Len(lens))

Overwrite(buffer, at, rows) ==
    [i \in DOMAIN buffer |-> IF i - at \in DOMAIN rows THEN rows[i - at] ELSE buffer[i]]

\* Slip: pad rows left as the batch before left them.
PaddedStale(g, call, B, bs) ==
    RowsOf(call, All(B, R(g))) \o SubSeq(stage[g], B * R(g) + 1, bs * R(g))

\* The rows of a batch of B in bucket bs.
Padded(g, call, B, bs) == RowsOf(call, All(B, R(g))) \o All((bs - B) * R(g), Pad)

\* plan copies its index lists from pageable memory, which waits for the stream: what was
\* enqueued before has been executed when it returns.
Planned == stream = << >>

\* Tensors the device reads when it gets there: one of its own, a view of a static output,
\* the one last gathered.
Fresh(rows) == [rows |-> rows]
None        == Fresh(<< >>)
Gathered    == [gathered |-> TRUE]

\* Slip: the padded batch.
ViewUnsliced(g, B) == [runner |-> g, bs |-> Bucket(B), n |-> Bucket(B) * R(g)]

\* The output of run: a view of the static output.
View(g, B) == [runner |-> g, bs |-> Bucket(B), n |-> B * R(g)]

Contents(o) ==
    CASE "rows" \in DOMAIN o     -> o.rows
      [] "gathered" \in DOMAIN o -> gathered
      [] "runner" \in DOMAIN o   -> Leading(outputs[o.runner][o.bs], o.n)

HiddenCopy(g, at, o) == [op |-> "hidden", runner |-> g, at |-> at, from |-> o]
Gather(o, index)     == [op |-> "gather", from |-> o, index |-> index]

\* _load and replay. The static buffers are filled: the staging one now. The copy of a
\* full buffer is made by the device when it gets there; a part of it goes through a
\* temporary made at once (a slice of the buffer is not contiguous). Hidden rows are
\* copied, unless there are none or the caller has filled the static ones. Ids that are on
\* the device already (a draft level's) are copied in an op of their own, next to the
\* positions and slots: a row stands for the three, so the two copies are one here.
Run(g, call, B, o) ==
    LET rows == Padded(g, call, B, Bucket(B))
        full == Len(rows) = MaxRows(g)
    IN  /\ Planned
        /\ stage' = [stage EXCEPT ![g] = Overwrite(@, 0, rows)]
        /\ stream' = <<[op |-> "copy", runner |-> g, rows |-> IF full THEN << >> ELSE rows]>>
               \o (IF o = None THEN << >> ELSE <<HiddenCopy(g, 0, o)>>)
               \o <<[op |-> "replay", runner |-> g, bs |-> Bucket(B), call |-> call,
                     batch |-> B, up |-> up]>>

----------------------------------------------------------------------------
(***************************************************************************)
(* The host.                                                               *)
(***************************************************************************)
Clear(g) == All(MaxRows(g), Old)
ClearOutputs(g) == [bs \in Buckets |-> All(bs * R(g), Old)]

\* capture leaves dummy rows in every buffer.
Init == /\ config \in Configs
        /\ pc = "idle" /\ running = << >> /\ new = << >> /\ outs = << >>
        /\ alive = << >> /\ level = 0 /\ up = All(K, 1) /\ hid = None
        /\ stage  = [g \in Runner |-> Clear(g)]
        /\ inputs = [g \in Runner |-> Clear(g)] /\ hidden = [g \in Runner |-> Clear(g)]
        /\ outputs = [g \in Runner |-> ClearOutputs(g)]
        /\ gathered = << >> /\ h = << >> /\ stream = << >>

\* A running request's rows: one, or its next token and the tree of the last draft.
TreeRows == IF config.depth = 0 THEN {1} ELSE RowCounts

\* A step: the running requests carry trees of one draft, all of one size. The rows of the
\* step before lose their names.
BeginStep ==
    /\ pc = "idle" /\ stream = << >> /\ pc' = "running"
    /\ \E r \in TreeRows, b \in 0 .. MaxBatch : running' = All(b, r)
    /\ new' \in UNION {[1 .. a -> config.prompts] : a \in 0 .. (MaxBatch - Len(running'))}
    /\ running' # << >> \/ new' # << >>
    /\ stage'  = [g \in Runner |-> Clear(g)]
    /\ inputs' = [g \in Runner |-> Clear(g)] /\ hidden' = [g \in Runner |-> Clear(g)]
    /\ outputs' = [g \in Runner |-> ClearOutputs(g)]
    /\ UNCHANGED <<config, outs, drafts, gathered, h, stream>>

\* _verify_forward: the runner is looked up by the first request's rows.
Forward(call, lens) ==
    LET g == Verify(lens[1]) IN
    \/ /\ lens = << >>
       /\ UNCHANGED <<outs, stage, stream>>
    \/ /\ lens # << >> /\ g \in Runner /\ CanRun(g, lens)
       /\ Run(g, call, Len(lens), None)
       /\ outs' = Append(outs, View(g, Len(lens)))
    \/ /\ lens # << >> /\ ~(g \in Runner /\ CanRun(g, lens))
       /\ outs' = Append(outs, Fresh(RowsOf(call, lens)))
       /\ UNCHANGED <<stage, stream>>

RunningCall  == <<"running", 0>>
NewCall      == <<"new", 0>>
AuxRows      == <<"aux", 0>>
ExtendCall   == <<"extend", 0>>
LevelCall(d) == <<"level", d>>

VerifyRunning ==
    /\ pc = "running" /\ pc' = "new"
    /\ Forward(RunningCall, running)
    /\ UNCHANGED <<config, running, new, drafts, device>>

VerifyNew ==
    /\ pc = "new" /\ pc' = "cat"
    /\ Forward(NewCall, new)
    /\ UNCHANGED <<config, running, new, drafts, device>>

\* h = torch.cat: enqueued behind the forwards.
Cat ==
    /\ pc = "cat" /\ pc' = "accept"
    /\ stream' = Append(stream, [op |-> "cat", outs |-> outs])
    /\ UNCHANGED <<config, batch, drafts, stage, device>>

\* The requests that have rows left.
Drafters(rows) ==
    LET upto[n \in 0 .. Len(rows)] ==
            IF n = 0 THEN << >>
            ELSE IF rows[n] > 0 THEN Append(upto[n - 1], rows[n]) ELSE upto[n - 1]
    IN  upto[Len(rows)]

\* _accept reads the scores back. A request that is not done leaves the drafter the tokens
\* it accepted and the one drawn, or its prompt shifted by one; the rest is forgotten.
Accept ==
    /\ pc = "accept" /\ stream = << >>
    /\ \E rows \in [1 .. Len(running \o new) -> 0 .. Max(Range(running \o new))] :
          /\ \A i \in DOMAIN running : rows[i] <= running[i]
          /\ \A i \in DOMAIN new : rows[Len(running) + i] \in {0, new[i]}
          /\ alive' = IF config.depth = 0 THEN << >> ELSE Drafters(rows)
    /\ pc' = IF alive' = << >> THEN "idle" ELSE "extend"
    /\ running' = << >> /\ new' = << >> /\ outs' = << >> /\ h' = << >>
    /\ UNCHANGED <<config, level, up, hid, stage, buffers, gathered, stream>>

Drafting == Len(alive)
Aux(b) == Fresh([i \in 1 .. alive[b] |-> Row(AuxRows, b, i)])

\* Slip: hidden rows laid one after another instead of depth + 1 to a request.
ExtendHiddenPacked ==
    [b \in DOMAIN alive |-> HiddenCopy(Extend, Len(Flat(SubSeq([c \in DOMAIN alive |-> All(alive[c], 0)], 1, b - 1))), Aux(b))]

\* The hidden rows of a captured extend go straight into its static buffer.
ExtendHidden == [b \in DOMAIN alive |-> HiddenCopy(Extend, (b - 1) * R(Extend), Aux(b))]

\* Slip: the last of the padded rows.
LastPadded(b) == b * R(Extend)

\* A request's last real row among those of a captured extend.
LastRow(b) == (b - 1) * R(Extend) + alive[b]

\* What is kept of a row for every request feeds each node of the first level.
Spread(rows) == [r \in 1 .. Len(rows) * K |-> rows[((r - 1) \div K) + 1]]

BeginExtend ==
    /\ pc = "extend"
    /\ \/ /\ Fits(Drafting) /\ \A b \in DOMAIN alive : alive[b] <= R(Extend)
          /\ pc' = "extended"
          /\ stream' = ExtendHidden
          /\ UNCHANGED hid
       \/ /\ ~(Fits(Drafting) /\ \A b \in DOMAIN alive : alive[b] <= R(Extend))
          /\ pc' = "draft"
          /\ hid' = Fresh(Spread([b \in DOMAIN alive |-> Row(ExtendCall, b, alive[b])]))
          /\ UNCHANGED stream
    /\ UNCHANGED <<config, batch, alive, level, up, stage, device>>

RunExtend ==
    /\ pc = "extended" /\ pc' = "extended_last"
    /\ Run(Extend, ExtendCall, Drafting, None)
    /\ UNCHANGED <<config, batch, drafts, device>>

\* h[last].
KeepLast ==
    /\ pc = "extended_last" /\ pc' = "draft"
    /\ stream' = Append(stream, Gather(View(Extend, Drafting), Spread([b \in DOMAIN alive |-> LastRow(b)])))
    /\ hid' = Gathered
    /\ UNCHANGED <<config, batch, alive, level, up, stage, device>>

\* Draft forwards of a step: the row budget is divided among the requests that draft.
Levels ==
    IF K > 1 \/ config.budget = 0 THEN config.depth - 1
    ELSE Min({config.depth, Max({1, config.budget \div Drafting})}) - 1

\* _draft_forward: nothing is read back between levels.
DraftLevel ==
    /\ pc = "draft" /\ level < Levels
    /\ level' = level + 1
    /\ \/ /\ Fits(Drafting) /\ Run(Draft, LevelCall(level'), Drafting, hid)
          /\ hid' = View(Draft, Drafting)
       \/ /\ ~Fits(Drafting)
          /\ UNCHANGED <<stage, stream, hid>>
    /\ pc' = IF K > 1 /\ Fits(Drafting) THEN "level" ELSE "draft"
    /\ UNCHANGED <<config, batch, alive, up, device>>

\* The kept nodes of a tree's level are fed the hidden row of the node each hangs off (the
\* same choice for every request).
KeepParents ==
    /\ pc = "level" /\ pc' = "draft"
    /\ up' \in [1 .. K -> 1 .. K]
    /\ stream' = Append(stream, Gather(hid, [r \in 1 .. Drafting * K |->
                                                ((r - 1) \div K) * K + up'[((r - 1) % K) + 1]]))
    /\ hid' = Gathered
    /\ UNCHANGED <<config, batch, alive, level, stage, device>>

\* The tree is read back.
EndDraft ==
    /\ pc = "draft" /\ level = Levels /\ stream = << >>
    /\ pc' = "idle"
    /\ alive' = << >> /\ level' = 0 /\ up' = All(K, 1) /\ hid' = None /\ gathered' = << >>
    /\ UNCHANGED <<config, batch, stage, buffers, h, stream>>

----------------------------------------------------------------------------
(***************************************************************************)
(* The device.                                                             *)
(***************************************************************************)
Takes(op) == stream # << >> /\ Head(stream).op = op /\ stream' = Tail(stream)
host == <<config, pc, batch, drafts, stage>>

Copy ==
    /\ Takes("copy")
    /\ LET op   == Head(stream)
           rows == IF op.rows = << >> THEN stage[op.runner] ELSE op.rows
       IN  inputs' = [inputs EXCEPT ![op.runner] = Overwrite(@, 0, rows)]
    /\ UNCHANGED <<host, hidden, outputs, gathered, h>>

CopyHidden ==
    /\ Takes("hidden")
    /\ LET op == Head(stream)
       IN  hidden' = [hidden EXCEPT ![op.runner] = Overwrite(@, op.at, Contents(op.from))]
    /\ UNCHANGED <<host, inputs, outputs, gathered, h>>

Replay ==
    /\ Takes("replay")
    /\ LET op == Head(stream)
       IN  outputs' = [outputs EXCEPT ![op.runner][op.bs] = Leading(inputs[op.runner], op.bs * R(op.runner))]
    /\ UNCHANGED <<host, inputs, hidden, gathered, h>>

Index ==
    /\ Takes("gather")
    /\ LET op == Head(stream)
       IN  gathered' = [r \in DOMAIN op.index |-> Contents(op.from)[op.index[r]]]
    /\ UNCHANGED <<host, buffers, h>>

Concatenate ==
    /\ Takes("cat")
    /\ LET o == Head(stream).outs
       IN  h' = Flat([i \in DOMAIN o |-> Contents(o[i])])
    /\ UNCHANGED <<host, buffers, gathered>>

Next == \/ BeginStep \/ VerifyRunning \/ VerifyNew \/ Cat \/ Accept
        \/ BeginExtend \/ RunExtend \/ KeepLast \/ DraftLevel \/ KeepParents \/ EndDraft
        \/ Copy \/ CopyHidden \/ Replay \/ Index \/ Concatenate

Spec == Init /\ [][Next]_vars

----------------------------------------------------------------------------
(***************************************************************************)
(* Properties.                                                             *)
(***************************************************************************)
\* What _accept scores are the rows of this step's two forwards, in order: the outputs of
\* the first forward are read only after the second was enqueued.
AcceptsItsRows ==
    pc = "accept" /\ stream = << >> =>
        h = RowsOf(RunningCall, running) \o RowsOf(NewCall, new)

\* When the device replays a graph its static inputs hold the rows of the call that asked
\* for the replay, and pad rows after them: not rows of a larger batch before, which would
\* write K/V where they did then, nor of the call after.
InputsAreIts(op) ==
    LET real == op.batch * R(op.runner) IN
    \A r \in 1 .. op.bs * R(op.runner) :
        inputs[op.runner][r] =
            IF r <= real THEN Row(op.call, ((r - 1) \div R(op.runner)) + 1, ((r - 1) % R(op.runner)) + 1)
            ELSE Pad

\* The drafter's forwards run on the hidden rows of the same text: an extend on the ones
\* the verify forward left for its real rows, the first level on what the extend left for
\* the request's last token, a further level on what the level before left for the parent.
Belongs(row, op, b, i) ==
    CASE op.call = ExtendCall   -> i <= alive[b] => row = Row(AuxRows, b, i)
      [] op.call = LevelCall(1) -> row = Row(ExtendCall, b, alive[b])
      [] op.call[1] = "level" /\ op.call[2] > 1 -> row = Row(LevelCall(op.call[2] - 1), b, op.up[i])
      [] OTHER -> TRUE

HiddenAreIts(op) ==
    \A b \in 1 .. op.batch, i \in 1 .. R(op.runner) :
        Belongs(hidden[op.runner][(b - 1) * R(op.runner) + i], op, b, i)

\* A replay computes what was asked: its static inputs and hidden rows are the call's.
ReplaysItsBatch ==
    stream # << >> /\ Head(stream).op = "replay" =>
        InputsAreIts(Head(stream)) /\ HiddenAreIts(Head(stream))
=============================================================================
