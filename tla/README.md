# nanospec in TLA+

A verification development for nanospec, an offline LLM inference engine with
paged KV cache, continuous batching, EAGLE-3 speculative decoding (chains and
trees), in-place weight updates and the GRPO training loop that uses them. It holds TLA+ models
translated from the source, TLC configurations that check them on small
instances, and theorems checked by TLAPS. Paths are relative to `src/`.

## The system

| component | state | operations | interacts with |
|---|---|---|---|
| block allocator, `kv/allocator.py` | free list (a stack), live ids, a block table per id | `alloc`, `append`, `rollback`, `free`, `check` | called by the scheduler and the engine |
| scheduler, `sched/scheduler.py` | waiting deque, running list, fields of each `Request` | `add`, `next_batch`, `finish`, `restart` | allocates and frees tables; the engine calls it |
| engine, `engine/engine.py` | id counter, per request committed position, tree, extend list; the graph pad block | `add`, `generate`, `step` (`_run`, `_accept`, `_draft`, `_draft_tree`), `update_weights`, `swap_drafter` | everything |
| paged cache and metadata, `kv/cache.py` | K/V per slot | `write`, `move`, `AttnMeta.from_rows`, masks | addressed through the block tables |
| graph runner, `engine/graphs.py` | captured graphs per bucket, static buffers | `capture`, `run`, `_load` | replays a forward over padded rows |
| draft tree, `spec/tree.py` | none (values) | `chain`, `children`, `ancestors`, `flat_masks` | verify rows, acceptance |
| sampling, `spec/sampling.py` | none (pure) | `process`, `draw`, `walk`, `behavior_logprob` | acceptance |
| attention backends, loader, `model/` | weights; which names share memory | `plan`, `run`, `load_model`, `load_drafter` | turns a row's metadata into the positions it attends |
| draft head and model forwards, `spec/drafter.py`, `model/llama.py` | tensors | forwards | out of scope |
| training loop, `rl/grpo.py` `main` | iteration, the batch in flight, versions of the policy's, target's and draft's weights | `rollout`, `evaluate`, pushes, `refresh` (`rl/drafters.py`), `Trainer.step` | the engine's only caller in a training run |
| train step, `rl/grpo.py` `Trainer` | minibatch, kept tokens and weights, gradients | `batch`, `token_weights`, `step`, `kl_to_ref` | reads the records the engine made |
| telemetry, `spec/telemetry.py` | a row per verified request and step | `write` | filled by `_accept`, read by `rl/kl.py` |
| benchmarks, cloud scripts | files | output | out of scope |

The process is single threaded; what makes it hard is not preemption but the
bookkeeping shared by many requests inside one step. A step admits requests,
reserves slots, runs a forward, then walks the batch: each request commits a
different number of positions, may finish (its blocks go back to the pool while
later requests of the same loop take blocks from it), or is rolled back and
extended again. Between steps callers submit requests and replace the weights,
which sends every running request back to the queue. The correctness
conditions, per component:

* allocator: every block is free or in one table, once; a table has exactly the
  blocks its length needs; a slot that stays reserved never moves.
* scheduler: admission is first come first served and only within what the pool
  can honour at every request's maximum length, so that `append` is never refused.
* engine: rows fed to a forward lie inside the reservation; a reservation is
  `committed + num_draft + 1` between steps; the cache of a running request
  holds its prompt and its output but the last token; a weight update leaves
  nothing running on old KV; every request is answered.
* cache and tree: a row attends exactly the path down to its node; after
  compaction both caches hold the text of every running request, entry by entry.
* sampling: the emitted distribution is the target's under the exact rule, and
  the probability recorded for the trainer is the sampler's under every rule.
* graph runner: a replay sees the rows and hidden states of the call that asked
  for it, and the step reads the rows of its own forwards.
* training loop: what is trained on is complete and was sampled and recorded
  under exactly the policy the step starts from; the engine never serves a mixture
  of two versions; the draft is one whole checkpoint; training ends.
* train step: each output token contributes once, against its own record, and
  with the weight the correction promises, however the rollout is cut.

## Modules

| module | models | over |
|---|---|---|
| `BlockAllocator` | `kv/allocator.py`: state, one action per method, the accounting of `check()` | - |
| `BlockOwnership` | abstract: holders own disjoint sequences of blocks that change at the tail | - |
| `AllocatorClients` | the allocator under clients that call it in any order | `BlockAllocator`, implements `BlockOwnership` |
| `Scheduler` | `sched/scheduler.py`: queues, the request fields decisions depend on, `add`, admission, `finish`, `restart` | `BlockAllocator` |
| `BlockBudgets` | abstract: budgets granted only if the pool can honour all of them, use within budget | - |
| `Engine` | `engine/engine.py`: the life of requests through `step` and weight updates | `Scheduler`, implements `BlockBudgets` |
| `Trees` | `spec/tree.py` and `AttnMeta.mask`, `flat_mask`: children, ancestors, the batched masks, their flat layout and its padding | - |
| `Attention` | `model/attention.py`: the positions each row attends under either backend | - |
| `DraftTree` | the loop of `_draft_tree` growing one request's tree level by level | `Trees` |
| `Entries` | what a forward writes: cache entries named by the tokens they stand for, computed from the entries a row attends | `Trees` |
| `SpecCache` | what both caches hold under `Engine`'s steps: `kv/cache.py` `write`, `move`, `from_rows`, and the parts of `_run`, `_accept`, `_extend`, `_draft`, `_draft_tree` that move contents | `Engine`, `Entries`, `Attention` |
| `Sampling` | `spec/sampling.py` and `_score`: one request's tree and its distributions | `Trees` |
| `GraphRunner` | `engine/graphs.py` under a step, the captured extend of `_extend` included: host and device joined by the stream | - |
| `Trainer` | `main`, `rollout`, `evaluate` and `refresh`, versions of weights, the records and telemetry of a rollout | `Engine`, implements it |
| `TrainStep` | `Trainer.step`, `batch`, `token_weights`, `kl_to_ref` over the records of one rollout | - |
| `MC...` | instances for TLC, one per checked module | |
| `Engine_proofs` | lemmas about the allocator's methods and its theorems; queues as sequences without repetition, counting of blocks and budgets; the engine's invariant, its theorems and the refinement | `Engine`, `AllocatorClients` |
| `Trainer_proofs` | the training loop refines the engine; its safety theorems | `Trainer`, `Engine_proofs` |
| `SpecCache_proofs` | the contents' steps are the engine's, compaction, the texts, the rows of a forward, what both caches hold | `SpecCache`, `Engine_proofs`, `Trees_proofs` |
| `Trees_proofs` | induction, iteration, sums over sets, the pointers chased up a tree, the flat layout of masks; texts and entries, rows written one after another | `Entries` |
| `DraftTree_proofs` | theorems about drafted trees and their masks | `DraftTree`, `Trees_proofs` |
| `Sampling_proofs` | sums of weights, the tests at a row, uniforms counted; theorems about what is accepted, drawn, recorded and lost | `Sampling`, `Trees_proofs` |
| `GraphRunner_proofs` | rows in their places, the order of the stream, theorems about replays | `GraphRunner`, `Trees_proofs` |
| `TrainStep_proofs` | theorems about one training step and its corrections | `TrainStep`, `Trees_proofs` |

### How state and actions correspond to the code

`BlockAllocator`: `free` is `_free` (last element popped first), `live` the keys
of `_live`, `blocks[r]` and `seq_len[r]` the two fields of r's `BlockTable`; an
id without a table has the empty one. A method that may raise `PoolExhausted`
does so before it changes anything, so `FitsAlloc`/`FitsAppend` say when the
call is refused and `Alloc`/`AppendTokens` are the calls that succeed.

`Scheduler`: token lists are counted (`prompt`, `out`) because no decision in
the scheduler or the engine's bookkeeping reads a token; `tree[r]` is the number
of nodes of the request's tree, 0 for `None`. Sums of `_max_blocks` over running
requests are written as the size of a set of pairs (request, block number),
which is the same number and the form in which the budget argument is made.

`Engine`: `pc` says where in a call the engine is. A step is one action per loop
iteration: `BeginStep` (snapshot and headroom), `Admit`\*, `BeginRun`,
`Reserve`\*, `Forward`, then per request `AcceptDone`, `AcceptPlain` or
`AcceptSpec` followed by `Regrow`, and `Draft` or `EndStep`. `Raise` is
`PoolExhausted` escaping from a refused call; nothing in the repository catches it, so
the engine stops there. `UpdateWeights`, `RestartHead`\* and `EndUpdate` are
`update_weights` and `swap_drafter`. Calls by the user (`Add`, `UpdateWeights`)
happen between steps only, as in the single-threaded program. `asked` records
the submitted prompt length for the properties; no action reads it.

What the networks decide is nondeterministic: how many drafts are accepted (up
to the tree's depth) and whether an emitted token is eos. What follows from it
(truncation, commit, rollback, the next reservation) is as in the code.

`SpecCache` refines each action of `Engine` with the contents it moves
(`RunForward` is `Forward`, `SpecPath` is `AcceptSpec`, and so on; `Bookkeeping`
are the steps that move none). A cache entry is named by the token sequence it
is the K/V of under the current weights. A row computes such an entry only if
the slots it attends hold exactly one entry for each shorter prefix and its
rotary position is right; everything else is `Garbage`, and new weights make
every entry `Garbage`. Which slots a row attends is `Attention`'s: the masks the
request brings, or a causal triangle that four kernels align differently
(top-left for a prefill, bottom-right for an append, none for a single row);
`Backend` selects the torch or the FlashInfer rules. An extend is padded to depth + 1
rows when it is captured (`Padded`): every request fits, and `MaxBucket`, the largest
batch captured, takes them all; else it runs eagerly. The drafter's cache is one token ahead: its entry at
position p stands for the text up to p + 1. Token identities matter only up to
equality, so a drafted token is its place among its siblings and a token that
was not drafted is `Fresh`. The texts of a finished request are forgotten.

`DraftTree` lets any K of the K * K candidates win, in any order: the scores are
the networks'. `SpecCache` uses the trees `DraftTree` reaches (`TreesOf`).

`Sampling` writes a distribution as whole weights with sum `W` (a softmax) or
less (after top-k, top-p, or tested proposals), and a uniform as one of `G`
equally likely numbers, `G` divisible by every sum of weights up to `W`, so that
counting uniforms is exact probability. `(p / rest) ** alpha` is any of `Powers`
strictly between 0 and 1 per node. Temperature other than zero only changes the
softmax a row starts as, and every softmax on the grid is a start.

`GraphRunner` names a row by the call, the request and the index it belongs to; an
output row carries the name of the input row it was computed from. A row stands for its
id, position and slot: that a draft level's ids, on the device already, are copied apart
from the other two is left out. Host actions
write the staging buffer and enqueue; device actions take the head of the stream.
The host waits for the stream where it reads a result (`_score`'s and the draft's
`tolist`). Hidden rows are followed from the verify outputs through the extend and
level by level: an extend's are written straight into the runner's static buffer,
depth + 1 to a request whatever it has, a level's are copied from a view of the
output that the same level's replay overwrites, or gathered by parent in a tree.
Names are relative to a step: at its start everything in a buffer becomes `Old`,
which no property accepts, so that the states between two steps are one. The
engine's configuration is a variable fixed initially, so that one run covers
plain decoding, chains and trees. From outside `src/`, and marked external: FlashInfer's `plan` copies
its index lists from pageable memory and so returns after the stream has
drained; `copy_` with `non_blocking` from the whole pinned buffer reads it when
the device gets there, from a slice of it through a temporary made at once; the
static outputs of different buckets do not share memory.

`Trainer` extends `Engine`: `main` is the engine's only caller, so its actions are
`Engine`'s (`EngineStep`, `AddNext`, `Construct`), constrained to where `main` makes
the call, and `stage` is the statement `main` is at. A weight is the number of
optimizer updates its policy had had when it was copied. A push copies one tensor
per action (`CopyTensor`), into what the module registers under the name: with a
tied head `lm_head` has no name of its own (`named_parameters` lists shared memory
once), so a name that is not registered raises `KeyError`, which ends the run in
stage `failed`; `Storage` says which names share memory after loading, for a checkpoint with
a tied, an untied or a redundant head. `logprobs` keeps per `TokenInfo` the version
that scored it, `logged` counts the tokens in a request's telemetry rows. Whether
a batch has a training signal is nondeterministic, but false for groups of one,
whose standard deviation is NaN. The model needs no drafts' slots in the pool
formula when there is no drafter, where the code still adds them: its pool is the
tighter one.

`TrainStep` keeps of a training step which output token contributes, against which
record, with which weight, divided by what; gradients are the bag of these. A
column is numbered as in the code, where `old_lp[c]` is about the token at `c + 1`.
`Weight` gives w at each log w, in whole multiples of 1/`Unit`, and a multiplier is a
fraction, so that sums and means are exact: TLC uses powers of two, the proofs any
positive rising `Weight` that is 1 at log w = 0, as `exp` is;
`argsort`'s order among ties and `shuffle`'s permutation are nondeterministic.

Definitions marked `Slip` are not part of the model: each is a mapped
definition with a plausible programming error, and shows which property would
notice it.

## Runs

| run | question | bounds | states |
|---|---|---|---|
| `allocator` | does any order of calls lose, share or move a block? | 4 blocks of 2 slots, 3 clients (symmetric), lengths to 7: the pool runs dry and every block is reused | 1.3 k |
| `chain` | who is to blame when the pool is exhausted; is every block accounted for after a rollback and in a step an exception left half done; are both caches exact under chain speculation, row budget, recycled blocks and an update, with the torch backend? | 3 requests, depth 2 with a row budget of 2, 7 blocks of 2, prompts 1 or 2, 0 or 3 tokens, one update at any point | 585 k |
| `tree` | do tree rows and padded extends fit; are both caches exact after compaction, finishes inside the loop, rollback, an update, with FlashInfer; is every test made on its own row; is emission truncated? | 2 requests, depth 2, width 2, graphs, 10 blocks of 2, prompt 1, 2 or 5 tokens, one update; extends of one request captured, of two eager | 506 k |
| `plain` | is admission budgeted, pad block apart, and in order; do queues, states and tables agree; is every token drawn from the row of its own text; is every request answered? | `FairCacheSpec`, 3 requests, plain decoding with graphs, `max_running` 2, 5 blocks of 2 of which one is the pad block, one update | 50 k |
| `draft_tree` | do rows see exactly their paths, on half-filled trees and through the flat layout, padded or not? | 3 levels of 3 nodes, all parents; batches of 2 and 3 with unequal prefixes, 2 pad requests | 757 |
| `sampling` | is what is recorded the sampler's probability; is the exact rule lossless; has every draw mass and every accepted draft a probability, but where the relaxed rule leaves none? | 3 tokens, weights in thirds, 2 nodes (3 for the exact rule); exact, power, relaxed, greedy, top-k, top-p, sampled drafts | 3.6 k |
| `graphs` | does every replay see the rows and hidden states of its own call when nothing is read back between levels, and the step its own outputs? | plain decoding, chains of depth up to 3 sharing a row budget, trees of depth 3 and width 2; buckets 1 and 3, up to 4 requests, captured and eager extends | 149 k |
| `trainer` | is every batch on policy, does the engine serve one version, does nothing restart, is the draft a checkpoint, is the pool large enough, do telemetry rows tile the output, does training end? | `FairTrainerSpec`, 2 iterations of 1 prompt in 3 completions, 2 running at once, chain of depth 1 with graphs, evaluation and refresh at every second, the pool `main` computes; all three kinds of checkpoint | 297 k |
| `train_step` | is each token trained on once with its own record and the documented weight, however the rollout is cut? | 1 to 5 sequences of 3 shapes, 1 to 4 optimizer steps, micro-batches of 1 or 2; all log w in -2 .. 2 of 4 tokens, for each correction | 108 k |
| `two_updates`, `restart_starves`, `graphs_mixed` | the documented promises below | smallest that shows it | < 1 k |

An output of 0 or 1 tokens makes a request that finishes in the step that admits it,
one of 3 a request that lives through several. In `chain` the prompts are 1 or 2
tokens over blocks of 2 slots: a request for no token with a prompt of 2 is budgeted
2 blocks and reserves 5 slots, which are 3. Two of them beside another one exhaust
the pool, in the reservation of a new request or in that of a request which stays
within its own budget; with odd prompts only, the excess slot would vanish in
the rounding. In `plain` budgets are 1 to 3 blocks and 4 are usable, so that two requests
may not fit together, and would if the pad block were counted.

Three requests with a pool for two give waiting, admission in the same step in
which another finishes, and blocks that change owner inside a step. More
requests or blocks add nothing the bookkeeping tells apart, and for the
properties that are proved the bounds do not matter. Ids are handed out in order,
so requests are not symmetric and no symmetry is used for `Engine`.

Depth 2 and width 2 are the least with a path that is not a prefix of the
node order (so that compaction moves something), a level fed back to the drafter
and a sibling that is rejected; two requests give a finish before another's
compaction in the same loop. Weights in thirds over three tokens give ties, zeros
and every order of the tokens; two siblings give a residual after one rejection
and after two. A batch below its bucket gives pad rows, and one that fills the
largest bucket the copy that is made late; one above the largest bucket runs
eagerly; a tree of three levels is the least in which a level is fed by a level
that was itself chosen by parents.

Two iterations give a push before any rollout, one after a step that trained or
did not, and one that is followed by a refresh and an evaluation; three
completions with two places make a rollout wait for a finish. Five sequences
in one to four steps give every case of `ceil(N / opt_steps)`: exact, a short last
minibatch, and minibatches used up before the steps asked for. Exponents -2 .. 2
put tokens on both sides of every threshold.

`DraftTree`'s and `Sampling`'s states are inputs grown to a bound, and a
`TrainStep` ends, so deadlock is not checked in these three runs.

`CachesExact` is the target's and the drafter's cache; both are checked in `chain`
and in `tree`. What the theorems below show for all constants is not spent on a
run as well: `TypeOK` and `SlotsStable` of the allocator, `TrainerTypeOK`,
`ReservationExact` and `UpdateRestartsAll` are proved only.

### Where the code departs from what it says

* `two_updates`: `restart` sets `prompt_ids = prompt_ids + out_tokens` and keeps
  `out_tokens` (`sched/scheduler.py:132`), so the second restart of a request
  appends the first output again. One update is right (`CachesExact` in `chain`
  and `tree`, `RowsStandForPaths` in `plain`).
* `restart_starves`: `_max_blocks` adds `max_tokens` to a prompt that already
  contains the output; a request that filled its pool is never admitted again
  after an update and `generate()` spins. With room for the larger budget every
  request is answered (`Answered` in `plain`).
* `graphs_mixed`: `run` returns views of static outputs and `_run` reads the
  first forward's only after the second. If the admitted prompts all have the
  runner's row count and share the running batch's bucket, the running requests
  are sampled from the new requests' rows (`engine/graphs.py:210`,
  `engine/engine.py:227-230`). In `graphs` no prompt has that length.

Others are stated as exceptions inside properties that hold:

* An update re-queues the running requests youngest first, although admission is
  documented as FIFO: `AdmitsOldest` holds but for two requests restarted together. It
  does hold that they come before those never admitted.
* `max_tokens = 0` is accepted, budgets `prompt + num_draft` and reserves
  `prompt + num_draft + 1`, although `append()` is documented never to fail
  mid-decode: only while such a request runs can it fail (`OnlyZeroTokensExhaust`), and `chain`
  reaches the states where it does.
* Under the relaxed rule with the default `tau` of 1 the siblings at a row can be
  all the tokens inside top-k / top-p and all be rejected. The residual is zero, and
  `draw` clamps to the last vocabulary id, which has no probability
  (`spec/sampling.py:42`). A `tau` above 1 empties a greedy row
  too, which emits its argmax all the same. `DrawsHaveMass` excepts exactly that, and
  `BehaviorIsTheSampler` leaves such rows out; the exact and power rules always leave mass.
* With `accept_topk` of 2 or more at temperature 0, a draft of processed
  probability 0 is accepted by rank, as any draft is at a `tau` of 0, and `math.log` of it
  raises inside the step (`engine/engine.py:330`): the exceptions in `AcceptedHaveMass`.
* `--opt-steps` is documented as the "optimizer steps per rollout batch", but
  minibatches of `ceil(N / opt_steps)` sequences can use up the batch before (5
  sequences in 4 steps make 3 of 2), and the logged statistics are divided by the
  steps asked for (`rl/grpo.py:203`): `StepsAsAsked` states how many are taken.
* A telemetry row's "emitted" list is written before `_emit` cuts the step's tokens
  at eos or `max_tokens` (`engine/engine.py:338`), so that a finished request's last row
  may list tokens it never emitted, and `rl/kl.py:48` counts them:
  `RowsTileOutput` bounds them by the depth.
* With groups of one completion the rewards' standard deviation is NaN and no step
  is ever taken (`rl/grpo.py:305`); nothing is violated, so no property is about it.

### Fairness

`FairSpec` adds weak fairness to the actions of a step, of an update and of
graph capture: `generate()` calls `step` while `has_work`, and a call in a single
thread runs to its end. There is no fairness for `Add` or `UpdateWeights`:
nobody has to submit or update. `MaxRequests` and `MaxUpdates` bound both.
`plain` checks `Answered` under `FairCacheSpec`, the same fairness of the engine's
steps over `SpecCache`: contents never hold a step back. `trainer` checks
`TrainingEnds` under `FairTrainerSpec`, weak fairness of `MainAction`, the union of
everything `main` does: it is one thread, which runs until it ends or an exception
leaves it. That the engine's calls return is part of what the run shows, not
assumed. The other passing runs check safety only and use specifications without fairness.

## Proofs

The theorems hold for every value of the constants that meets the ASSUMEs; where one
needs more, it says so.

For every pool, block size and set of ids, `Engine_proofs` proves of the allocator
`TypeCorrect`, `AccountingExact`, `TablesExact`, `SlotsNeverMove` and
`ImplementsOwnership`. The inductive invariant is `PoolInv` (typing,
`EveryBlockOnce`, `TablesSized`); `TablesSized` is needed because `rollback`
cuts a table at a block count computed from the new length, and it is only
right if the table is as long as the old length needs. Its lemmas show that
each method preserves it: blocks taken off the free list and
appended to a table (`PopsKeepAccounting`), blocks cut off a table and appended
to the free list (`ReturnsKeepAccounting`), and that the ceiling division of
`blocks_for` is the least number of blocks that holds n slots
(`BlocksForCeiling`).

Of the engine it proves, for every pool, number of requests, depth, width, row
budget and admission limit, with and without graphs: `EngineTypeCorrect`,
`EngineAccounting`, `QueuesAgree`, `HeadroomSuffices`, `RowsAlwaysFit`,
`ReservationsExact` and `UpdatesComplete`. They follow from one inductive
invariant, `IInv`:

* `TypeOK` and `PoolInv`, which hold even after `PoolExhausted` has escaped;
* `InCall`, while it has not:
  * `Queued`: queues list each request once and agree with `state`; the pool
    serves the running requests and the pad id, nobody else;
  * `Locals`: the snapshots a call works on against the running list it changes
    meanwhile (in the accept loop, who is still to be visited and who drafts);
  * `Counted`: a running request has written less than its text and may still
    emit, which makes its next `rollback` and `append` legal;
  * `Treed`: a request about to be verified has a tree exactly under speculation;
  * `Reserved`: the exact reservation of every running request at every point of
    a step, in terms of `committed`, the step's `append`s and what is still due;
  * `Budgeted`: the promises to running requests together fit the pool, and
    `headroom` is what they leave.

Neither `ReservationExact` nor `OnlyZeroTokensExhaust` is inductive: the first
needs the reservation inside a step, the second that a refusal contradicts the
promises. The argument for the second (`PromiseIsKept`): if
every running request holds at most what it was promised, and all promises
together fit the pool, then one that grows within its promise finds the blocks
free. Its premises are `Reserved` with `Counted` (reservations stay within
`MaxBlocks`, unless the request asked for no token) and `Budgeted`. There is one
lemma per action (`...Keeps`), collected in `NextKeeps`.

From it follows what steps never do: `CommittedNeverMoves`,
`TokensBounded`, `AppendIsSafe` and `DraftRowsAlwaysFit` (which needs one more
invariant, that the extend list reaches back at most to position 0); that admission is
first in, first out, however often an update re-queues (`AdmissionIsFifo`); that
the cache of a request restarted at most once holds its prompt and its output but the
last token (`ContextKept`; `two_updates` shows why not more often); and the
refinement `ImplementsBudgets`, every step of the engine being a grant, a use within budget,
a release or a stutter.

`SpecCache_proofs` shows that every step of the model of cache contents is a step of
the engine (`CacheImplementsEngine`), so that its theorems hold there too
(`CacheIsSafe`, `CacheSlotsStay`): the contents never decide what the bookkeeping does.
It also proves `MovesOrdered`: compaction's moves, gathered over a batch and applied by one
`move`, never write a slot twice nor read one that an earlier of them has written. Within a
request the accepted path rises through the tree (`PathRises`, by induction up the
ancestors), so the i-th destination is at most the i-th source. Between requests it
is not enough that tables share no block: a request that finishes in the loop frees
blocks whose moves are already noted, and a later request of the loop may regrow into them. The
invariant `MoveInv` has therefore two parts: `Shaped` (every unfinished request's tree has
parents before children) and `Noted` (the moves so far are in order, and touch
no block of a request still to be visited, whose table does not change until its turn).

On these rest the theorems about what the slots hold, for every width, depth, pool, block
size, row budget and attention backend, with and without graphs, in whatever order requests
are admitted, accept, finish, compact, roll back, regrow and restart: `TargetCacheHolds`,
`RowsStand` and `CachesHold`. The invariant follows the data through a step:

* `Context`, `TextInv`: a request's texts are as long as the engine's counts say, its prompt
  is a beginning of its text, its tree grew level by level.
* `KvInv`: up to the forward, a running request's `committed` slots of the target's cache hold
  its text position by position (`Exact`). After the forward the requests the accept
  loop has still to visit have their rows in the cache (`Ran`: row k, node by node, stands for
  the text and the path down to the node, because the slots its mask admits are exactly
  that path's); those already visited are exact once the moves noted so far are made
  (`Moved`). Accepting a request appends its path to the text and its sources to the moves.
  That later requests' slots are not those the moves write is `MoveInv`'s business, that
  a regrown table keeps its old slots `SlotsNeverMove`'s.
* `DraftInv`: the drafter's cache has the text one token ahead; a request the loop has
  visited lacks the tokens it just accepted, and the rows noted for its extend stand for
  them (`Fed`), so that the batched extend, padded to depth + 1 rows or not, makes it whole.
  Levels of a new tree are written beyond `committed`, and an update, which makes all of it
  `Garbage`, leaves nobody running.

A forward writes its rows in one batch: `Trees_proofs` shows that the fold over a batch with
disjoint slots is each request's rows run alone, in turn, where row k may
attend what rows before it wrote. All three theorems are about `updates <= 1`: the second
restart of a request doubles its output, after which they are false (`two_updates`).

Assumed: the constants' ASSUMEs (positive pool and block size, asserted by the
constructor; prompts have at least one token, asserted by `from_rows`; the spare
is `num_draft`, as `Engine` passes it). `AppendIsSafe` and
`ImplementsBudgets` assume besides that no request asks for zero tokens
(`0 \notin MaxTokens`), without which they are false;
`TokensBounded` assumes it too: a request that asks for none emits one. For the
trainer, `TrainerAssumption`: prompts no longer than `--max-prompt`, at least one
token asked for, admission bounded by `--max-running`; for a training step,
`TrainStepAssumption`: every sequence has a prompt and an output, and as many
records as output tokens, which is what `OnPolicy` shows of a rollout; weights are positive,
rise with log w and are 1 at 0.

`Trainer_proofs` shows that the training loop is a caller the engine admits: every
step of it is an engine step or leaves the engine alone (`ImplementsEngine`,
`TrainerSpec => Spec`), so that the engine's theorems hold in a training run
(`TrainerQueuesAgree`, `TrainerNeverExhausts`). On top of that, for every number of
steps, prompts and completions, every interval and every kind of checkpoint:
`NeverRestarts`, `PolicyServed`, `DraftIsWhole`, `RolloutsAreOnPolicy` and
`TrainerTypeCorrect`. The inductive invariants follow the flow of a weight and of a
record: `Quiet` (outside rollouts and evaluations nothing is queued or running,
and no update restarts anybody), `Pushing` (a push names only registered
tensors, so none fails half-way), `Copied` (during a push each tensor is still to be
copied or has the policy's version), `Refreshed` (the draft is whole outside a
refresh, and none that is due is skipped), `Counting` (the policy is updated at
most once an iteration) and `Collected` (each request of the rollout has
one record per output token, all of the current policy). `OnPolicy` needs all of
them: the version recorded is the version served, and nothing changes it before the
batch is read.

Two more follow what a rollout needs. `RowsTile`: the telemetry rows of a request list as
many tokens as it emitted, and overrun a finished one by at most the depth (invariant
`Tiled`). `PoolSuffices`: with a pool of at least the blocks `main` computes
(`MainBlocks`) and one `max_tokens`, nobody who may run waits for blocks (invariant
`Served`: what is left of the pool covers everybody still to be admitted, each at
its maximum).

`Trees_proofs` and `DraftTree_proofs` are about data, for every width and depth and
every batch. `PathsForward`: a node comes after its parent. `MasksExact`: chasing
pointers for `depth` rounds, as `ancestors` does, gives exactly the ancestors; the
invariant is that after n rounds a row holds the ancestors at most n steps away. `FlatMasks`:
the flat mask, read back at the offsets the kernel computes, is each request's
ancestry and its whole prefix, with any committed lengths and any padding. What the
operators fold or iterate is reached by induction: `Induct` and `Recursion` state it over
sets of naturals (`NatLeast`: a set of naturals has a least member), because the library's
induction theorems take an operator as a parameter.

`Sampling_proofs` is about probabilities, as numbers of uniforms. The invariant is `Grown`
(`TreesGrow`): nodes come after their parents, siblings carry different tokens, every row
is a processed softmax and has some weight.

* `AcceptedHold`: a test passed says that u is below the acceptance probability, so the
  exact and power rules accept nothing without weight.
* `DrawsHold`: what k rejected siblings leave of a row is what the loop has as `rest`
  (`RestIs`), so the sibling that would exhaust the row is tested against its own
  weight and passes whatever its uniform (`WholePasses`).
* `BehaviorHolds`: the uniforms that reach a row and reject its first k drafts
  (`Rejecting`) are free in the uniforms of the drafts still to test, for neither an
  earlier test nor being reached reads them. So each test accepts its own share of them
  (`Sharing`), as does each draw (`DrawShare`, a token's uniforms being those between two partial
  sums). The products and differences that `behavior_logprob` forms over the rejected siblings
  are these shares multiplied out (`Balanced`, sibling by sibling). An outcome
  accepts one draft or rejects all, and no drawn token is drafted, so the outcomes that emit
  a token are one of these sets.
* `SampledHolds`: with a draft drawn with weight q, the outcomes that accept it are the
  lesser of p and q (`SampledShare`), the rest draw from max(0, p - q); over all drafts d the
  two add up to p (`Lossless`).

Shares are whole numbers where the uniforms divide the thresholds. The sums of one row, up to
`W`, are enough for argmax proposals, and `SamplingAssumption` says so. A drawn draft's
threshold is a quotient of two products of weights, so `SampledHolds` assumes finer uniforms,
divisible by everything up to `W * W` (`FineUniforms`); the run needs fewer, because
its few rows give fewer quotients. Both stand for the code's real-valued uniforms, which every
grid divides.

`GraphRunner_proofs` proves `GraphInvariant`, from which `ReplaysOwnBatch` follows for
every set of buckets, batch and configuration. The invariant `GInv` has four parts. `Sized`:
buffers have the size `capture` gave them. `Host`: what the host knows of the batch.
`Streamed`: the stream is at most one copy of rows, then hidden rows, one replay and one
reader, in this order, and whenever a replay is enqueued its rows are in the static inputs
or the copy ahead brings them (`InputsReady`), its hidden rows likewise (`HiddenReady`). This
is where `Planned` is needed: without the wait a second call's staging write would
reach the first one's copy. `Phases`: what each point of a step relies on, an output staying
as its replay left it until the operation that reads it. `AcceptsOwnRows` is proved under
`PromptsApart`, no prompt of exactly as many tokens as a verify runner has rows: the code
does not ensure it, and `graphs_mixed` shows the theorem false without it.

`TrainStep_proofs` proves `StepsTaken`, `TokensTrainOnce`, `MicroBatchesAgree` and
`CorrectionsHold` for every rollout, number of steps, micro-batch size and correction. The
invariants: `Counts` (how many minibatches precede, from `PerCovers`: minibatches of
`ceil(N / opt_steps)` reach the last sequence within the steps asked for), `Kept`
(what is kept of a minibatch are output tokens of its sequences, each with a
weight), `Given` (the contributions so far are those of the tokens before the
current slice, each once) and `Divided` (those of a finished step are divided by
their own number, by a bijection between kept tokens and contributions). `CorrectionsHold`
needs one more, `Weighed`: the contributions of each step taken carry, token by token, a
mask and multipliers that `token_weights` may return for its minibatch. What is said of a
correction then follows from the correction alone (`AllDocumented`). The weights and
deviations are summed over sets: `FoldSums` shows that a fold that picks members in any order
gives the one sum there is, `SumsRenamed` that a bijection carries it over (from tokens
to contributions, from a token to the one `shuffle` gave it), `SumsScaled` that a common factor
comes out (the mean of `snis` is 1). For `m2po` the tokens dropped are the beginning of a
falling order, and one fewer would leave the bound broken (`M2poStops`).

Model-checked only:

* `Answered` and `TrainingEnds`: liveness under fairness is out of TLAPS's reach.

Every other property of a passing run is stated by a theorem.

## Not modelled, and the plan

Not modelled: tensor arithmetic (model and draft head forwards, losses, gradients,
the optimizer), rewards and tasks, file input and output (reading checkpoints,
telemetry's format and its readers, logs, benchmarks, cloud scripts), the page
lists of the graph wrappers and the recording of a graph, profiling,
the draft-to-target vocabulary map. In the first three there is nothing to check but numbers
or formats; the benchmarks and cloud scripts keep no state.

What is left, in order:

1. The page lists: that the blocks of a padded bucket fit `kv_indices`
   (`num_blocks + max_bs` entries), which `BlocksAccounted` already makes plausible: tables
   share no block, and padding adds one entry per missing request.
2. The draft vocabulary: `_draft_ids` is computed for the first drafter only
   (`engine/engine.py:308`) and goes stale if a swapped drafter brings another map.
