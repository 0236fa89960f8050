------------------------------ MODULE Trainer ------------------------------
(***************************************************************************)
(* The training loop of rl/grpo.py over the engine: push the policy's      *)
(* weights into the engine, roll out a batch, train on it, push again,     *)
(* refresh the frozen draft and evaluate every so many steps. The trainer  *)
(* is the engine's only caller, so requests come in batches and the weights *)
(* change when it says; the engine's own actions are Engine's.             *)
(*                                                                         *)
(* Weights are versions: the number of optimizer updates the policy had    *)
(* had when a tensor was copied. A push copies tensor by tensor into what  *)
(* the module registers under each name, where a tied head has no name of  *)
(* its own. Which groups of completions differ in reward is chosen         *)
(* nondeterministically; gradients are left out (TrainStep has what a step *)
(* reads).                                                                 *)
(***************************************************************************)
EXTENDS Engine

CONSTANTS
    Steps,          \* --steps
    Prompts, Group, \* --prompts, --group
    MaxPrompt,      \* --max-prompt: the longest prompt a task encodes
    RunLimit,       \* --max-running
    EvalEvery,      \* --eval-every, 0 = never
    EvalPrompts,    \* len(task.test)
    DraftRefresh    \* --draft-refresh, 0 = never

NSeq == Prompts * Group

ASSUME TrainerAssumption ==
    /\ Steps \in Nat /\ Prompts \in Nat \ {0} /\ Group \in Nat \ {0}
    /\ EvalEvery \in Nat /\ EvalPrompts \in Nat /\ DraftRefresh \in Nat
    /\ RunLimit \in Nat \ {0} /\ MaxRunning = RunLimit /\ MaxAdmit = NSeq
    /\ MaxPrompt \in Nat /\ PromptLens \subseteq 1 .. MaxPrompt
    /\ MaxTokens # {} /\ MaxTokens \subseteq Nat \ {0}

VARIABLES
    stage,          \* where main is
    loaded,         \* which heads the checkpoint has and its config ties
    round,          \* iterations begun
    to_add,         \* prompt lengths rollout or evaluate has still to add
    first,          \* id of the first request of the current reqs
    policy,         \* optimizer updates so far
    target_w,       \* target_w[t]: version of the engine's tensor t
    draft_w,        \* the draft's
    to_copy,        \* names update_weights has still to copy
    logprobs,       \* logprobs[r]: per TokenInfo, the version that scored it (Mixed if torn)
    logged,         \* logged[r]: tokens in the "emitted" lists of r's telemetry rows
    refreshed       \* version of the policy at the last refresh that was due

train == <<stage, loaded, round, to_add, first, policy, target_w, draft_w, to_copy,
           logprobs, logged, refreshed>>
tvars == <<vars, train>>

Stage == {"load", "sync", "sample", "rollout", "train", "refresh", "eval", "end", "failed"}

\* The names of the policy's state_dict; a tied head is listed too.
Name  == {"embed", "layers", "lm_head"}
Mixed == -1

----------------------------------------------------------------------------
(***************************************************************************)
(* Weights.                                                                *)
(***************************************************************************)
\* load_model: without a head in the checkpoint, lm_head is embed_tokens' memory.
Storage(n) == IF loaded = "tied" /\ n = "lm_head" THEN "embed" ELSE n

\* named_parameters lists memory once, under its first name.
Registered == {n \in Name : Storage(n) = n}

\* Slip: nothing left out, the policy's tied head included.
StateKeysAll == Name

\* Slip: the head taken to be tied always.
StateKeysNoHead == Name \ {"lm_head"}

\* state_bf16(keys): the policy's tensors the engine has a name for.
StateKeys == Name \cap Registered

\* Slip: compared without the prefix, nothing matches.
RefreshKeysBare == {}

\* refresh: of those, the ones the draft has a name for under "model.". A frozen draft is
\* loaded from the same checkpoint as the target.
RefreshKeys == StateKeys \cap Registered

\* The version a module computes with, Mixed while its tensors differ.
Version(w) == IF \A n \in Name : w[Storage(n)] = w["embed"] THEN w["embed"] ELSE Mixed

\* (step + 1) % every == 0 at the end of an iteration; nothing is due before the first.
Due(every) == round > 0 /\ every > 0 /\ round % every = 0

NextIteration == IF round < Steps THEN "sample" ELSE "end"

AfterRefresh == IF Due(EvalEvery) THEN "eval" ELSE NextIteration
AfterSync    == IF Due(DraftRefresh) /\ Depth > 0 THEN "refresh" ELSE AfterRefresh

\* Slip: one sequence per prompt budgeted.
MainBlocksPerPrompt ==
    (IF Prompts < RunLimit THEN Prompts ELSE RunLimit)
        * BlocksFor(MaxPrompt + (CHOOSE m \in MaxTokens : TRUE) + NumDraft + 2) + 2

\* main: --kv-blocks 0, enough for every sequence that may run at full length, with two to spare.
MainBlocks ==
    (IF NSeq < RunLimit THEN NSeq ELSE RunLimit)
        * BlocksFor(MaxPrompt + (CHOOSE m \in MaxTokens : TRUE) + NumDraft + 2) + 2

----------------------------------------------------------------------------
\* The checkpoint is loaded into the engine's model and, again, into the draft. A head it
\* has although the config ties it need not equal the embedding; the policy's does.
TrainerInit ==
    /\ Init
    /\ stage = "load"
    /\ loaded \in {"tied", "untied", "redundant"}
    /\ round = 0 /\ to_add = << >> /\ first = 0
    /\ policy = 0
    /\ target_w = [n \in Name |-> IF loaded = "redundant" /\ n = "lm_head" THEN Mixed ELSE 0]
    /\ draft_w = target_w
    /\ to_copy = {}
    /\ logprobs = [r \in Request |-> << >>]
    /\ logged = [r \in Request |-> 0]
    /\ refreshed = Version(draft_w)

\* Engine's constructor captures its graphs.
Construct ==
    /\ stage = "load"
    /\ Capture
    /\ UNCHANGED train

\* update_weights before the loop: the engine serves the trainer's weights from step 0.
FirstPush ==
    /\ stage = "load"
    /\ pc = "idle"
    /\ stage' = "sync"
    /\ to_copy' = StateKeys
    /\ UNCHANGED <<vars, loaded, round, to_add, first, policy, target_w, draft_w,
                   logprobs, logged, refreshed>>

\* One tensor of update_weights, in the order of the dict, whatever it is, into the target
\* or (refresh) the draft. A name that is not
\* registered raises KeyError, which nothing catches.
CopyTensor ==
    /\ \E n \in to_copy :
           LET ok == n \in Registered IN
           /\ target_w' = IF ok /\ stage = "sync" THEN [target_w EXCEPT ![n] = policy] ELSE target_w
           /\ draft_w' = IF ok /\ stage = "refresh" THEN [draft_w EXCEPT ![n] = policy] ELSE draft_w
           /\ stage' = IF ok THEN stage ELSE "failed"
           /\ to_copy' = IF ok THEN to_copy \ {n} ELSE {}
    /\ UNCHANGED <<vars, loaded, round, to_add, first, policy, logprobs, logged, refreshed>>

\* The new requests' records are all that is kept of the old ones.
NewBatch(lens) ==
    /\ to_add' = lens
    /\ first' = next_id
    /\ logprobs' = [r \in Request |-> << >>]
    /\ logged' = [r \in Request |-> 0]

SameBatch == UNCHANGED <<to_add, first, logprobs, logged>>

\* The copies are made: update_weights restarts what runs and main goes on.
EndPush ==
    /\ stage \in {"sync", "refresh"}
    /\ to_copy = {}
    /\ pc = "idle"
    /\ IF running = << >> THEN UNCHANGED vars ELSE UpdateWeights
    /\ stage' = IF stage = "sync" THEN AfterSync ELSE AfterRefresh
    /\ to_copy' = IF stage' = "refresh" THEN RefreshKeys ELSE {}
    /\ refreshed' = IF stage = "refresh" THEN policy ELSE refreshed
    /\ IF stage' = "eval" THEN \E lens \in [1 .. EvalPrompts -> PromptLens] : NewBatch(lens)
                          ELSE SameBatch
    /\ UNCHANGED <<loaded, round, policy, target_w, draft_w>>

\* task.sample: Group completions of each of Prompts prompts, prompt-major.
Sample ==
    /\ stage = "sample"
    /\ pc = "idle"
    /\ stage' = "rollout"
    /\ round' = round + 1
    /\ \E lens \in [0 .. (Prompts - 1) -> PromptLens] :
           NewBatch([i \in 1 .. NSeq |-> lens[(i - 1) \div Group]])
    /\ UNCHANGED <<vars, loaded, policy, target_w, draft_w, to_copy, refreshed>>

\* engine.add for each prompt, before the first step.
AddNext ==
    /\ stage \in {"rollout", "eval"}
    /\ to_add # << >>
    /\ Add
    /\ asked'[next_id] = Head(to_add)
    /\ to_add' = Tail(to_add)
    /\ UNCHANGED <<stage, loaded, round, first, policy, target_w, draft_w, to_copy,
                   logprobs, logged, refreshed>>

\* Slip: the loop ends with the queue.
WorkingOnQueue == waiting # << >>

\* while engine.sched.has_work
Working == HasWork

\* Slip: the final token not in the row.
RowTokensPath(r) == committed'[r] - committed[r] - 1

\* Tokens in the "emitted" list of r's telemetry row: the path and the final token, cut or not.
RowTokens(r) == committed'[r] - committed[r]

\* What _accept records of its request: a TokenInfo per emitted token, and the row of a verify.
Recorded(r) ==
    /\ logprobs' = IF stage # "rollout" THEN logprobs
                   ELSE [logprobs EXCEPT ![r] = @ \o [i \in 1 .. (out'[r] - out[r]) |->
                                                         Version(target_w)]]
    /\ logged' = IF tree[r] = NoTree THEN logged ELSE [logged EXCEPT ![r] = @ + RowTokens(r)]

\* The calls of engine.step in rollout and evaluate, and the restarts a push would be in
\* the middle of, had it found something running.
EngineStep ==
    /\ pc # "restart" => /\ stage \in {"rollout", "eval"}
                         /\ to_add = << >>
                         /\ pc = "idle" => Working
    /\ StepAction \/ UpdateAction
    /\ IF InAccept THEN Recorded(Head(todo)) ELSE UNCHANGED <<logprobs, logged>>
    /\ UNCHANGED <<stage, loaded, round, to_add, first, policy, target_w, draft_w, to_copy, refreshed>>

RolloutEnds ==
    /\ stage \in {"rollout", "eval"}
    /\ to_add = << >>
    /\ pc = "idle" /\ ~Working
    /\ stage' = IF stage = "rollout" THEN "train" ELSE NextIteration
    /\ UNCHANGED <<vars, loaded, round, to_add, first, policy, target_w, draft_w, to_copy,
                   logprobs, logged, refreshed>>

\* Trainer.step when some group's rewards differ (a group of one has no standard deviation:
\* it is NaN, which is not above 0), then the push.
Train ==
    /\ stage = "train"
    /\ \E signal \in BOOLEAN : /\ signal => Group > 1
                               /\ policy' = policy + IF signal THEN 1 ELSE 0
    /\ stage' = "sync"
    /\ to_copy' = StateKeys
    /\ UNCHANGED <<vars, loaded, round, to_add, first, target_w, draft_w,
                   logprobs, logged, refreshed>>

MainAction == \/ Construct \/ FirstPush \/ CopyTensor \/ EndPush \/ Sample
              \/ AddNext \/ EngineStep \/ RolloutEnds \/ Train

Stopped == /\ stage \in {"end", "failed"} \/ pc = "exhausted"
           /\ UNCHANGED tvars

TrainerNext == MainAction \/ Stopped

TrainerSpec == TrainerInit /\ [][TrainerNext]_tvars

\* main is one thread: it runs until it ends or an exception leaves it.
FairTrainerSpec == TrainerSpec /\ WF_tvars(MainAction)

----------------------------------------------------------------------------
(***************************************************************************)
(* Properties.                                                             *)
(***************************************************************************)
TrainerTypeOK ==
    /\ TypeOK
    /\ stage \in Stage
    /\ round \in 0 .. Steps /\ policy \in 0 .. round
    /\ to_add \in Seq(PromptLens)
    /\ to_copy \subseteq Name
    /\ first \in 0 .. next_id
    /\ target_w \in [Name -> Mixed .. policy] /\ draft_w \in [Name -> Mixed .. policy]

\* The requests of the current rollout or evaluation.
Reqs == first .. (next_id - 1)

\* When the trainer reads a rollout every request of it is answered, its prompt is the one
\* submitted, it has one record per output token (what the slices of main align), and each
\* was made by exactly the policy the step starts from: log pi_old is the trainer's own.
OnPolicy ==
    stage = "train" =>
        /\ Cardinality(Reqs) = NSeq
        /\ \A r \in Reqs : /\ state[r] = "done"
                           /\ prompt[r] = asked[r]
                           /\ logprobs[r] = [i \in 1 .. out[r] |-> policy]

\* Weights change only while the engine is empty, so that the trainer never restarts a
\* request (a second restart would feed its output twice, and one can starve in its pool).
NothingRestarts ==
    /\ updates = 0
    /\ stage \in {"train", "sync", "refresh"} => ~HasWork

\* Whenever requests may be served, each tensor the engine computes with, a tied or a
\* redundant head included, is the policy's: no push stops half-way or misses one.
ServesPolicy ==
    stage \in {"sample", "rollout", "eval", "train", "end"} => Version(target_w) = policy

\* The frozen draft is always one whole checkpoint: the one it was loaded from, or the
\* policy's at the last refresh that was due, every DraftRefresh iterations.
DraftIsACheckpoint ==
    stage # "refresh" =>
        /\ Version(draft_w) = refreshed
        /\ stage = "sample" /\ Due(DraftRefresh) /\ Depth > 0 => refreshed = policy

\* "enough for max-running sequences at full length": in a rollout admission waits for a
\* place in the running list, never for blocks.
PoolNeverWaits ==
    stage = "rollout" /\ pc = "admit" /\ MayAdmit(Len(admitted)) =>
        MaxBlocks(Head(waiting)) <= headroom

\* A request's telemetry rows list each output token but the first (the prefill's) once and
\* in their order; the last row of a finished request may list tokens its answer was cut
\* before, fewer than Depth + 1 of them.
RowsTileOutput ==
    Depth > 0 /\ pc = "idle" => \A r \in Reqs :
        /\ state[r] = "running" => logged[r] = out[r] - 1
        /\ state[r] = "done" => logged[r] - (out[r] - 1) \in 0 .. Depth

\* Training ends: every rollout, evaluation and push does.
TrainingEnds == <>(stage = "end")
=============================================================================
