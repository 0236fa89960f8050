------------------------------- MODULE Engine -------------------------------
(***************************************************************************)
(* The life of requests in engine/engine.py: Engine.add, step (next_batch, *)
(* _run, _accept, _draft or _draft_tree) and update_weights/swap_drafter,  *)
(* over the scheduler and the block pool. The engine is single threaded: a *)
(* caller's calls interleave between steps, never inside one, and a step   *)
(* is the sequence of its loop iterations, one action each, so that an     *)
(* exception between two of them is a state of its own.                    *)
(*                                                                         *)
(* What the model computes (which drafts are accepted, where eos falls) is *)
(* chosen nondeterministically; what depends on it is not.                 *)
(***************************************************************************)
EXTENDS Scheduler

CONSTANTS
    Depth,        \* spec_depth, 0 = no speculation
    TopK,         \* spec_topk, 1 = a chain
    RowBudget,    \* spec_row_budget, 0 = off
    Graphs,       \* CUDA graphs captured: one block is the pad block, extends are padded
    PromptLens,   \* prompt lengths a caller may submit
    MaxTokens,    \* max_tokens a caller may ask for
    MaxUpdates    \* bound: weight updates or drafter swaps

NumDraft == Depth * TopK     \* EngineConfig.num_draft

ASSUME EngineAssumption == /\ Depth \in Nat /\ TopK \in Nat \ {0} /\ RowBudget \in Nat
                           /\ Graphs \in BOOLEAN /\ MaxUpdates \in Nat
                           /\ PromptLens \subseteq Nat \ {0}
                           /\ MaxTokens \subseteq Nat
                           /\ Spare = NumDraft   \* Engine.__init__ passes config.num_draft

VARIABLES
    pc,           \* where in a call the engine is; "idle" between calls
    next_id,      \* _next_id
    updates,      \* weight updates so far
    asked,        \* the prompt length the caller submitted (never used by the code)
    batch,        \* _run's running: the snapshot next_batch took
    admitted,     \* _run's new
    headroom,     \* next_batch's local
    todo,         \* requests the current loop has still to visit
    alive,        \* _accept's alive
    ext           \* ext[r]: len(ext_ids), the tokens the draft cache is extended over

step  == <<pc, batch, admitted, headroom, todo, alive, ext>>
vars  == <<pool, sched, step, next_id, updates, asked>>

Phase == {"capture", "idle", "admit", "reserve", "accept", "regrow", "restart", "exhausted"}

TypeOK == /\ PoolTypeOK
          /\ SchedTypeOK
          /\ pc \in Phase
          /\ next_id \in Nat
          /\ updates \in 0 .. MaxUpdates
          /\ asked \in [Request -> Nat]
          /\ batch \in Seq(Request)
          /\ admitted \in Seq(Request)
          /\ headroom \in Int
          /\ todo \in Seq(Request)
          /\ alive \in Seq(Request)
          /\ ext \in [Request -> Nat]

Init == /\ PoolInit
        /\ SchedInit
        /\ pc = IF Graphs THEN "capture" ELSE "idle"
        /\ next_id = 0
        /\ updates = 0
        /\ asked = [r \in Request |-> 0]
        /\ batch = << >> /\ admitted = << >> /\ headroom = 0
        /\ todo = << >> /\ alive = << >>
        /\ ext = [r \in Request |-> 0]

\* The locals of a step are dead once it returns.
ReturnFromStep == /\ pc' = "idle"
                  /\ batch' = << >> /\ admitted' = << >> /\ headroom' = 0
                  /\ todo' = << >> /\ alive' = << >>

----------------------------------------------------------------------------
\* _capture_graphs: alloc(-1, 1), a block reserved forever for padded rows.
Capture ==
    /\ pc = "capture"
    /\ Alloc(Pad, 1)
    /\ pc' = "idle"
    /\ UNCHANGED <<sched, batch, admitted, headroom, todo, alive, ext, next_id, updates, asked>>

\* Engine.add: ids in order of arrival.
Add ==
    /\ pc = "idle"
    /\ next_id < MaxRequests
    /\ \E n \in PromptLens, m \in MaxTokens :
           /\ AddRequest(next_id, n, m)
           /\ asked' = [asked EXCEPT ![next_id] = n]
    /\ next_id' = next_id + 1
    /\ UNCHANGED <<pool, step, updates>>

----------------------------------------------------------------------------
\* step: next_batch takes its snapshot and computes the headroom.
BeginStep ==
    /\ pc = "idle"
    /\ HasWork
    /\ pc' = "admit"
    /\ batch' = running
    /\ headroom' = Headroom
    /\ UNCHANGED <<pool, sched, admitted, todo, alive, ext, next_id, updates, asked>>

HeadFits == MayAdmit(Len(admitted)) /\ MaxBlocks(Head(waiting)) <= headroom

\* One iteration of the admission loop.
Admit ==
    /\ pc = "admit"
    /\ HeadFits
    /\ AdmitRequest(Head(waiting))
    /\ headroom' = headroom - MaxBlocks(Head(waiting))
    /\ admitted' = Append(admitted, Head(waiting))
    /\ UNCHANGED <<pc, batch, todo, alive, ext, next_id, updates, asked>>

\* Nothing to run: step returns.
StepIsEmpty ==
    /\ pc = "admit"
    /\ ~HeadFits
    /\ batch = << >> /\ admitted = << >>
    /\ ReturnFromStep
    /\ UNCHANGED <<pool, sched, ext, next_id, updates, asked>>

\* _run builds its rows, reserving one slot per running request (plain decoding) or
\* num_draft + 1 per newly admitted one (speculation).
BeginRun ==
    /\ pc = "admit"
    /\ ~HeadFits
    /\ batch # << >> \/ admitted # << >>
    /\ pc' = "reserve"
    /\ todo' = IF Depth = 0 THEN batch ELSE admitted
    /\ UNCHANGED <<pool, sched, batch, admitted, headroom, alive, ext, next_id, updates, asked>>

\* Slip: no slot for the root row of a verify.
SlotsWithoutRoot == NumDraft

Slots == NumDraft + 1

Reserve ==
    /\ pc = "reserve"
    /\ todo # << >>
    /\ AppendTokens(Head(todo), Slots)
    /\ todo' = Tail(todo)
    /\ UNCHANGED <<sched, pc, batch, admitted, headroom, alive, ext, next_id, updates, asked>>

\* The forward over the verify or decode rows and the prompts, then _accept's loop.
Forward ==
    /\ pc = "reserve"
    /\ todo = << >>
    /\ pc' = "accept"
    /\ todo' = batch \o admitted
    /\ UNCHANGED <<pool, sched, batch, admitted, headroom, alive, ext, next_id, updates, asked>>

----------------------------------------------------------------------------
\* Rows r contributes: its prompt when newly admitted, else one decode row.
Span(r) == IF r \in ToSet(admitted) THEN prompt[r] ELSE 1

\* The accepted path is at most as long as the tree is deep (node i is at depth 1 + i \div TopK).
Deepest(r) == tree[r] \div TopK

\* Slip: max_tokens looked at after the last token only.
EmittedUnchecked(r, n, k, done) ==
    /\ k \in 1 .. n
    /\ ~done => k = n /\ out[r] + n < max_tokens[r]

\* _emit of n tokens: it stops after the first one that is eos or reaches max_tokens.
\* k tokens are appended; done tells whether it stopped there.
Emitted(r, n, k, done) ==
    /\ k \in 1 .. n
    /\ \A i \in 1 .. (k - 1) : out[r] + i < max_tokens[r]
    /\ ~done => k = n /\ out[r] + n < max_tokens[r]

\* One request of _accept's loop: a drafts accepted, k of the a + 1 tokens emitted.
AcceptTokens(r, a, k, done) ==
    /\ a \in 0 .. Deepest(r)
    /\ Emitted(r, a + 1, k, done)
    /\ out' = [out EXCEPT ![r] = @ + k]
    /\ committed' = [committed EXCEPT ![r] = @ + IF tree[r] # NoTree THEN a + 1 ELSE Span(r)]
    /\ UNCHANGED <<prompt, max_tokens, tree, waiting>>

InAccept == pc = "accept" /\ todo # << >>

\* The request is done: finish gives its blocks back.
AcceptDone ==
    /\ InAccept
    /\ \E a \in 0 .. Deepest(Head(todo)) : \E k \in 1 .. (a + 1) :
           AcceptTokens(Head(todo), a, k, TRUE)
    /\ Finish(Head(todo))
    /\ todo' = Tail(todo)
    /\ UNCHANGED <<pc, batch, admitted, headroom, alive, ext, next_id, updates, asked>>

\* Plain decoding, not done: the next step reserves its own slot.
AcceptPlain ==
    /\ InAccept
    /\ Depth = 0
    /\ AcceptTokens(Head(todo), 0, 1, FALSE)
    /\ todo' = Tail(todo)
    /\ UNCHANGED <<pool, running, state, pc, batch, admitted, headroom, alive, ext,
                   next_id, updates, asked>>

\* Slip: rolled back before committed is advanced.
AcceptSpecEarlyRollback ==
    /\ InAccept
    /\ Depth > 0
    /\ \E a \in 0 .. Deepest(Head(todo)) :
           /\ AcceptTokens(Head(todo), a, a + 1, FALSE)
           /\ ext' = [ext EXCEPT ![Head(todo)] =
                          IF tree[Head(todo)] = NoTree THEN prompt[Head(todo)] ELSE a + 1]
    /\ Rollback(Head(todo), committed[Head(todo)])
    /\ pc' = "regrow"
    /\ UNCHANGED <<running, state, batch, admitted, headroom, todo, alive,
                   next_id, updates, asked>>

\* Speculation, not done: the rejected rows are rolled back.
AcceptSpec ==
    /\ InAccept
    /\ Depth > 0
    /\ \E a \in 0 .. Deepest(Head(todo)) :
           /\ AcceptTokens(Head(todo), a, a + 1, FALSE)
           /\ ext' = [ext EXCEPT ![Head(todo)] =
                          IF tree[Head(todo)] = NoTree THEN prompt[Head(todo)] ELSE a + 1]
    /\ Rollback(Head(todo), committed'[Head(todo)])
    /\ pc' = "regrow"
    /\ UNCHANGED <<running, state, batch, admitted, headroom, todo, alive,
                   next_id, updates, asked>>

\* Slip: a tree's reservation counted as a chain's.
RegrowForChain ==
    /\ pc = "regrow"
    /\ AppendTokens(Head(todo), Depth + 1)
    /\ alive' = Append(alive, Head(todo))
    /\ todo' = Tail(todo)
    /\ pc' = "accept"
    /\ UNCHANGED <<sched, batch, admitted, headroom, ext, next_id, updates, asked>>

\* ... and the slots of the next verify reserved.
Regrow ==
    /\ pc = "regrow"
    /\ AppendTokens(Head(todo), Slots)
    /\ alive' = Append(alive, Head(todo))
    /\ todo' = Tail(todo)
    /\ pc' = "accept"
    /\ UNCHANGED <<sched, batch, admitted, headroom, ext, next_id, updates, asked>>

\* alloc or append raises PoolExhausted: the exception leaves the step where it is, and
\* a head being admitted is already off the queue. Nothing catches it: the engine stops.
Refused == \/ pc = "admit" /\ HeadFits /\ ~FitsAlloc(prompt[Head(waiting)])
           \/ pc = "reserve" /\ todo # << >> /\ ~FitsAppend(Head(todo), Slots)
           \/ pc = "regrow" /\ ~FitsAppend(Head(todo), Slots)

\* Slip: blocks taken one by one, and what was taken lost when the pool turns out too small.
RaiseTakesFree ==
    /\ Refused
    /\ pc' = "exhausted"
    /\ waiting' = IF pc = "admit" THEN Tail(waiting) ELSE waiting
    /\ free' = << >>
    /\ UNCHANGED <<live, blocks, seq_len, running, request, batch, admitted, headroom, todo,
                   alive, ext, next_id, updates, asked>>

\* Both methods count before they take: the pool is as it was.
Raise ==
    /\ Refused
    /\ pc' = "exhausted"
    /\ waiting' = IF pc = "admit" THEN Tail(waiting) ELSE waiting
    /\ UNCHANGED <<pool, running, request, batch, admitted, headroom, todo, alive, ext,
                   next_id, updates, asked>>

AcceptEnds == pc = "accept" /\ todo = << >>

\* Nobody left to draft for.
EndStep ==
    /\ AcceptEnds
    /\ alive = << >>
    /\ ReturnFromStep
    /\ UNCHANGED <<pool, sched, ext, next_id, updates, asked>>

\* D of _draft: a chain may be cut short by the row budget.
DraftDepth(b) ==
    IF TopK = 1 /\ RowBudget > 0
    THEN LET d == IF RowBudget \div b > 1 THEN RowBudget \div b ELSE 1
         IN  IF d < Depth THEN d ELSE Depth
    ELSE Depth

\* _draft or _draft_tree: extend the draft cache, grow every tree.
Draft ==
    /\ AcceptEnds
    /\ alive # << >>
    /\ tree' = [r \in Request |-> IF r \in ToSet(alive) THEN DraftDepth(Len(alive)) * TopK
                                  ELSE tree[r]]
    /\ ext' = [r \in Request |-> IF r \in ToSet(alive) THEN 0 ELSE ext[r]]
    /\ ReturnFromStep
    /\ UNCHANGED <<pool, waiting, running, state, prompt, out, max_tokens, committed,
                   next_id, updates, asked>>

----------------------------------------------------------------------------
\* update_weights and swap_drafter, once the weights are copied: every running request,
\* in the order of the list, restarts.
UpdateWeights ==
    /\ pc = "idle"
    /\ updates < MaxUpdates
    /\ running # << >>
    /\ updates' = updates + 1
    /\ pc' = "restart"
    /\ todo' = running
    /\ UNCHANGED <<pool, sched, batch, admitted, headroom, alive, ext, next_id, asked>>

\* Slip: iterating the running list while restart shrinks it.
RestartWhileIterating ==
    /\ pc = "restart"
    /\ todo # << >>
    /\ Restart(Head(todo))
    /\ todo' = SubSeq(todo, 3, Len(todo))
    /\ UNCHANGED <<pc, batch, admitted, headroom, alive, ext, next_id, updates, asked>>

RestartHead ==
    /\ pc = "restart"
    /\ todo # << >>
    /\ Restart(Head(todo))
    /\ todo' = Tail(todo)
    /\ UNCHANGED <<pc, batch, admitted, headroom, alive, ext, next_id, updates, asked>>

EndUpdate ==
    /\ pc = "restart"
    /\ todo = << >>
    /\ pc' = "idle"
    /\ UNCHANGED <<pool, sched, batch, admitted, headroom, todo, alive, ext,
                   next_id, updates, asked>>

----------------------------------------------------------------------------
StepAction == \/ BeginStep \/ Admit \/ StepIsEmpty \/ BeginRun \/ Reserve \/ Forward
              \/ AcceptDone \/ AcceptPlain \/ AcceptSpec \/ Regrow \/ EndStep \/ Draft
              \/ Raise

UpdateAction == RestartHead \/ EndUpdate

\* Every request answered, or an exception: the engine may rest.
Rest == /\ \/ pc = "idle" /\ ~HasWork /\ next_id = MaxRequests
           \/ pc = "exhausted"
        /\ UNCHANGED vars

Next == Capture \/ Add \/ StepAction \/ UpdateWeights \/ UpdateAction \/ Rest

Spec == Init /\ [][Next]_vars

(***************************************************************************)
(* generate() calls step while there is work, and a call that started runs *)
(* to its end; nobody has to submit requests or update weights.            *)
(***************************************************************************)
Fairness == WF_vars(Capture) /\ WF_vars(StepAction) /\ WF_vars(UpdateAction)

FairSpec == Spec /\ Fairness

----------------------------------------------------------------------------
(***************************************************************************)
(* Properties.                                                             *)
(***************************************************************************)
Running == ToSet(running)

\* usable_blocks: the pool without the graph runner's pad block.
Usable == NumBlocks - IF Graphs THEN 1 ELSE 0

\* No block is lost, shared or freed twice, whatever the order in which requests are
\* admitted, cut back, finished, restarted, or caught by an exception (check(), which the
\* tests call between steps, here inside a step too).
BlocksAccounted == EveryBlockOnce /\ TablesSized

\* A request is in the one queue its state names, once, and holds blocks exactly while it
\* runs (the pad block apart), so an idle engine has num_free = usable_blocks; the running
\* list respects max_running although the code compares with # rather than <.
QueuesConsistent ==
    pc # "exhausted" =>
        /\ IsInjective(waiting) /\ ToSet(waiting) = {r \in Request : state[r] = "waiting"}
        /\ IsInjective(running) /\ Running = {r \in Request : state[r] = "running"}
        /\ live = Running \cup IF Graphs /\ pc # "capture" THEN {Pad} ELSE {}
        /\ MaxRunning # NoLimit => Len(running) <= MaxRunning

\* "append() never fails mid-decode": no call to the pool is refused in a step unless some
\* running request may emit no token at all (max_tokens = 0; see AppendNeverFails).
OnlyZeroTokensExhaust == pc = "exhausted" => \E r \in Running : max_tokens[r] = 0

\* The Scheduler's promise as its docstring states it, without that exception.
AppendNeverFails == pc # "exhausted"

\* A step feeds rows only where slots are reserved (the assertion of AttnMeta.from_rows):
\* the verify rows of a running request, root and tree, its plain decode row, a prompt.
RowsFit ==
    pc = "reserve" /\ todo = << >> =>
        /\ \A r \in ToSet(batch) : /\ Depth > 0 <=> tree[r] # NoTree
                                   /\ committed[r] + 1 + tree[r] <= seq_len[r]
        /\ \A r \in ToSet(admitted) : tree[r] = NoTree /\ prompt[r] <= seq_len[r]

\* The draft rows fit as well: the tree levels, and the extend over the new tokens, which
\* a graph pads to Depth + 1 rows and which must end exactly at committed.
DraftRowsFit ==
    AcceptEnds =>
        \A r \in ToSet(alive) :
            /\ committed[r] + NumDraft <= seq_len[r]
            /\ ext[r] \in 1 .. committed[r]
            /\ ext[r] <= Depth + 1 => committed[r] - ext[r] + Depth + 1 <= seq_len[r]

\* Between steps a running request's reservation is what the engine's docstring says,
\* committed + num_draft + 1 under speculation, and committed without it.
ReservationExact ==
    pc = "idle" => \A r \in Running :
        seq_len[r] = committed[r] + IF Depth > 0 THEN NumDraft + 1 ELSE 0

\* Between steps the cache of a running request holds its prompt and output but the last
\* token, which is the next input: also for a request that restarted.
ContextExact ==
    pc = "idle" => \A r \in Running : committed[r] = asked[r] + out[r] - 1

\* A request that goes on has tokens left to emit, and none emits past max_tokens.
WithinMaxTokens ==
    \A r \in Request : /\ out[r] <= max_tokens[r]
                       /\ pc = "idle" /\ state[r] = "running" => out[r] < max_tokens[r]

\* Admission is FIFO: no request is admitted while an older one waits, but for two that an
\* update sent back together (it re-queues the running requests last one first).
Restarted(r) == prompt[r] # asked[r]

AdmitsOldest ==
    [][\A r, s \in Request :
           state[r] = "waiting" /\ state'[r] = "running" /\ s < r /\ state[s] = "waiting" =>
               Restarted(r) /\ Restarted(s)]_vars

\* The blocks under a running request's committed positions stay, in place, while it
\* runs: rolling back the rejected rows never gives one of them to another request.
CommittedStays ==
    [][\A r \in Request :
           state[r] = "running" /\ state'[r] = "running" =>
               /\ BlocksFor(committed'[r]) <= Len(blocks'[r])
               /\ \A i \in 1 .. BlocksFor(committed[r]) : blocks'[r][i] = blocks[r][i]]_vars

\* A weight update leaves no request running on KV of the old weights, although it
\* restarts them from a list the restarts shrink.
UpdateRestartsAll ==
    [][pc = "restart" /\ pc' = "idle" => running' = << >>]_vars

\* Every request submitted is answered, in particular one an update restarted.
Answered == \A r \in Request : state[r] = "waiting" ~> state[r] = "done"

(***************************************************************************)
(* What admission control promises: running requests are granted budgets   *)
(* that fit the pool together and never use more than they were granted.   *)
(***************************************************************************)
Budgets == INSTANCE BlockBudgets WITH
    Capacity <- Usable,
    Client   <- Request,
    granted  <- [r \in Request |-> IF state[r] = "running" THEN MaxBlocks(r) ELSE 0],
    used     <- [r \in Request |-> Len(blocks[r])]

BudgetsSpec == Budgets!Spec
=============================================================================
