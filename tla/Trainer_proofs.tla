--------------------------- MODULE Trainer_proofs ---------------------------
(***************************************************************************)
(* Theorems about Trainer: the trainer is one of the callers Engine allows, *)
(* so what is proved of the engine holds under it; and what its order of   *)
(* pushes, rollouts and updates guarantees, for every number of steps,     *)
(* prompts and completions, with and without a draft.                      *)
(***************************************************************************)
EXTENDS Trainer, Engine_proofs

----------------------------------------------------------------------------
(***************************************************************************)
(* The trainer as a caller of the engine.                                  *)
(***************************************************************************)
LEMMA CallsTheEngine == [TrainerNext]_tvars => [Next]_vars
<1> SUFFICES ASSUME [TrainerNext]_tvars PROVE [Next]_vars
  OBVIOUS
<1>1. CASE Construct
  BY <1>1 DEF Construct, Next
<1>2. CASE AddNext
  BY <1>2 DEF AddNext, Next
<1>3. CASE EngineStep
  BY <1>3 DEF EngineStep, Next
<1>4. CASE EndPush
  BY <1>4 DEF EndPush, Next
<1>5. CASE FirstPush \/ CopyTensor \/ Sample \/ RolloutEnds \/ Train
  BY <1>5 DEF FirstPush, CopyTensor, Sample, RolloutEnds, Train
<1>6. CASE Stopped \/ UNCHANGED tvars
  BY <1>6 DEF Stopped, tvars
<1> QED
  BY <1>1, <1>2, <1>3, <1>4, <1>5, <1>6 DEF TrainerNext, MainAction

\* Every run of the trainer is a run of the engine: its calls come between steps, and what
\* it does besides (copying weights, training) changes nothing of a request. What is proved
\* of the engine therefore holds while it trains.
THEOREM ImplementsEngine == TrainerSpec => Spec
<1>1. TrainerInit => Init
  BY DEF TrainerInit
<1> QED
  BY <1>1, CallsTheEngine, PTL DEF TrainerSpec, Spec

----------------------------------------------------------------------------
(***************************************************************************)
(* Outside rollouts and evaluations the engine is empty and between calls, *)
(* so a push never finds anything to restart.                              *)
(***************************************************************************)
\* A push copies only names the engine has, so that no push fails half-way.
Pushing == /\ stage \in Stage \ {"failed"}
           /\ to_copy \subseteq Registered
           /\ to_copy # {} => stage \in {"sync", "refresh"}

LEMMA PushingInit == TrainerInit => Pushing
  BY DEF TrainerInit, Pushing, Stage

LEMMA PushingKept == Pushing /\ [TrainerNext]_tvars => Pushing'
<1> SUFFICES ASSUME Pushing, [TrainerNext]_tvars PROVE Pushing'
  OBVIOUS
<1> USE DEF Pushing, Stage, Registered, Storage
<1>1. CASE Construct
  BY <1>1 DEF Construct, train
<1>2. CASE FirstPush \/ Train
  BY <1>2 DEF FirstPush, Train, StateKeys
<1>3. CASE CopyTensor
  BY <1>3 DEF CopyTensor
<1>4. CASE EndPush
  <2>1. AfterSync \in {"refresh", "eval", "sample", "end"}
        /\ AfterRefresh \in {"eval", "sample", "end"}
    BY DEF AfterSync, AfterRefresh, NextIteration
  <2> QED
    BY <1>4, <2>1 DEF EndPush, RefreshKeys, StateKeys
<1>5. CASE Sample \/ AddNext
  BY <1>5 DEF Sample, AddNext
<1>6. CASE EngineStep \/ RolloutEnds
  BY <1>6 DEF EngineStep, RolloutEnds, NextIteration
<1>7. CASE Stopped \/ UNCHANGED tvars
  BY <1>7 DEF Stopped, tvars, train
<1> QED
  BY <1>1, <1>2, <1>3, <1>4, <1>5, <1>6, <1>7 DEF TrainerNext, MainAction

Quiet == /\ updates = 0
         /\ pc # "restart"
         /\ stage \notin {"rollout", "eval"} => pc \in {"capture", "idle"} /\ ~HasWork

LEMMA StepsDoNotUpdate == StepAction => updates' = updates /\ pc' # "restart"
<1>1. BeginStep \/ Admit \/ StepIsEmpty \/ BeginRun \/ Reserve \/ Forward
      => updates' = updates /\ pc' # "restart"
  BY DEF BeginStep, Admit, StepIsEmpty, BeginRun, Reserve, Forward, ReturnFromStep
<1>2. AcceptDone \/ AcceptPlain \/ AcceptSpec => updates' = updates /\ pc' # "restart"
  BY DEF AcceptDone, AcceptPlain, AcceptSpec, InAccept
<1>3. Regrow \/ EndStep \/ Draft \/ Raise => updates' = updates /\ pc' # "restart"
  BY DEF Regrow, EndStep, Draft, Raise, ReturnFromStep
<1> QED
  BY <1>1, <1>2, <1>3 DEF StepAction

LEMMA QuietInit == TrainerInit => Quiet
  BY DEF TrainerInit, Init, SchedInit, Quiet, HasWork

LEMMA QuietKept == Quiet /\ Pushing /\ [TrainerNext]_tvars => Quiet'
<1> SUFFICES ASSUME Quiet, Pushing, [TrainerNext]_tvars PROVE Quiet'
  OBVIOUS
<1> USE DEF Quiet
<1>1. CASE Construct
  BY <1>1 DEF Construct, Capture, sched, train, HasWork
<1>2. CASE FirstPush
  BY <1>2 DEF FirstPush, vars, step, sched, HasWork
<1>3. CASE CopyTensor
  BY <1>3 DEF CopyTensor, Pushing, vars, step, sched, HasWork
<1>4. CASE EndPush
  <2>1. running = << >>
    BY <1>4 DEF EndPush, HasWork
  <2>2. UNCHANGED vars
    BY <1>4, <2>1 DEF EndPush
  <2> QED
    BY <1>4, <2>2 DEF EndPush, vars, step, sched, HasWork
<1>5. CASE Sample \/ Train
  BY <1>5 DEF Sample, Train, vars, step, sched, HasWork
<1>6. CASE AddNext
  BY <1>6 DEF AddNext, Add, step
<1>7. CASE EngineStep
  <2>1. stage \in {"rollout", "eval"} /\ stage' = stage
    BY <1>7 DEF EngineStep
  <2>2. StepAction
    BY <1>7 DEF EngineStep, UpdateAction, RestartHead, EndUpdate
  <2> QED
    BY <2>1, <2>2, StepsDoNotUpdate
<1>8. CASE RolloutEnds
  BY <1>8 DEF RolloutEnds, Working, vars, step, sched, HasWork
<1>9. CASE Stopped \/ UNCHANGED tvars
  BY <1>9 DEF Stopped, tvars, train, vars, step, sched, HasWork
<1> QED
  BY <1>1, <1>2, <1>3, <1>4, <1>5, <1>6, <1>7, <1>8, <1>9 DEF TrainerNext, MainAction

LEMMA AlwaysQuiet == TrainerSpec => [](Quiet /\ Pushing)
  BY QuietInit, QuietKept, PushingInit, PushingKept, PTL DEF TrainerSpec

\* A push never meets a request: the loop around engine.step ends only when nothing waits or
\* runs, and nothing is added before the next batch.
THEOREM NeverRestarts == TrainerSpec => []NothingRestarts
<1>1. Quiet => NothingRestarts
  BY DEF Quiet, NothingRestarts
<1> QED
  BY <1>1, AlwaysQuiet, PTL

----------------------------------------------------------------------------
(***************************************************************************)
(* Rounds and versions.                                                    *)
(***************************************************************************)
Counting == /\ round \in 0 .. Steps /\ policy \in 0 .. round
            /\ stage = "sample" => round < Steps
            /\ stage = "load" => round = 0
            /\ stage \in {"rollout", "train"} => policy < round
            /\ target_w \in [Name -> Mixed .. policy]
            /\ draft_w \in [Name -> Mixed .. policy]

LEMMA CountingInit == TrainerInit => Counting
  BY TrainerAssumption DEF TrainerInit, Counting, Mixed

LEMMA CountingKept == Counting /\ Pushing /\ [TrainerNext]_tvars => Counting'
<1> SUFFICES ASSUME Counting, Pushing, [TrainerNext]_tvars PROVE Counting'
  OBVIOUS
<1> USE TrainerAssumption DEF Counting
<1>1. CASE Construct
  BY <1>1 DEF Construct, train
<1>2. CASE FirstPush
  BY <1>2 DEF FirstPush
<1>3. CASE CopyTensor
  <2>1. /\ target_w' \in [Name -> Mixed .. policy] /\ draft_w' \in [Name -> Mixed .. policy]
        /\ stage' \in {stage, "failed"}
    BY <1>3 DEF CopyTensor, Mixed, Pushing, Registered
  <2> QED
    BY <1>3, <2>1 DEF CopyTensor
<1>4. CASE EndPush
  <2>1. stage' \in {"refresh", "eval", NextIteration}
    BY <1>4 DEF EndPush, AfterSync, AfterRefresh
  <2>2. stage' \notin {"load", "rollout", "train"} /\ (stage' = "sample" => round < Steps)
    BY <2>1 DEF NextIteration
  <2> QED
    BY <1>4, <2>2 DEF EndPush
<1>5. CASE Sample
  BY <1>5 DEF Sample
<1>6. CASE AddNext \/ EngineStep
  BY <1>6 DEF AddNext, EngineStep
<1>7. CASE RolloutEnds
  BY <1>7 DEF RolloutEnds, NextIteration
<1>8. CASE Train
  <2>1. policy' \in 0 .. round' /\ policy <= policy'
    BY <1>8 DEF Train
  <2>2. /\ target_w' \in [Name -> Mixed .. policy'] /\ draft_w' \in [Name -> Mixed .. policy']
    BY <1>8, <2>1 DEF Train, Mixed
  <2> QED
    BY <1>8, <2>1, <2>2 DEF Train
<1>9. CASE Stopped \/ UNCHANGED tvars
  BY <1>9 DEF Stopped, tvars, train
<1> QED
  BY <1>1, <1>2, <1>3, <1>4, <1>5, <1>6, <1>7, <1>8, <1>9 DEF TrainerNext, MainAction

----------------------------------------------------------------------------
(***************************************************************************)
(* What has been copied.                                                   *)
(***************************************************************************)
\* w holds version v in the memory of every name but those of S.
Holds(w, v, S) == \A n \in Registered \ S : w[n] = v

LEMMA HoldsVersion ==
    ASSUME NEW w, NEW v, Holds(w, v, {})
    PROVE  Version(w) = v
<1>1. \A n \in Name : Storage(n) \in Registered
  BY DEF Registered, Storage, Name
<1>2. "embed" \in Registered
  BY DEF Registered, Storage, Name
<1> QED
  BY <1>1, <1>2 DEF Holds, Version

Copied == /\ stage = "sync" => Holds(target_w, policy, to_copy)
          /\ stage \notin {"load", "sync"} => Holds(target_w, policy, {})
          /\ stage = "refresh" => Holds(draft_w, policy, to_copy)

\* The draft between refreshes, and that no due refresh is skipped.
Refreshed == /\ stage # "refresh" => Version(draft_w) = refreshed
             /\ stage \in {"eval", "sample", "end"} /\ Due(DraftRefresh) /\ Depth > 0 =>
                    refreshed = policy

LEMMA CopiedInit == TrainerInit => Copied /\ Refreshed
  BY DEF TrainerInit, Copied, Refreshed

\* One copy of a push or of a refresh.
LEMMA CopyKeeps ==
    ASSUME Counting, Pushing, Copied, Refreshed, CopyTensor
    PROVE  Copied' /\ Refreshed'
<1>1. PICK n \in to_copy :
          /\ target_w' = IF stage = "sync" THEN [target_w EXCEPT ![n] = policy] ELSE target_w
          /\ draft_w' = IF stage = "refresh" THEN [draft_w EXCEPT ![n] = policy] ELSE draft_w
          /\ stage' = stage
          /\ to_copy' = to_copy \ {n}
  BY DEF CopyTensor, Pushing
<1>2. Registered' = Registered /\ Registered \subseteq Name /\ policy' = policy
      /\ refreshed' = refreshed /\ round' = round
  BY DEF CopyTensor, Registered, Storage
<1>3. stage \in {"sync", "refresh"}
  BY <1>1 DEF Pushing
<1>4. CASE stage = "sync"
  <2>1. Holds(target_w, policy, to_copy)'
    BY <1>1, <1>2, <1>4 DEF Copied, Holds, Counting
  <2>2. Version(draft_w)' = Version(draft_w)
    BY <1>1, <1>4 DEF CopyTensor, Version, Storage
  <2> QED
    BY <1>1, <1>2, <1>4, <2>1, <2>2 DEF Copied, Refreshed
<1>5. CASE stage = "refresh"
  <2>1. Holds(draft_w, policy, to_copy)'
    BY <1>1, <1>2, <1>5 DEF Copied, Holds, Counting
  <2>2. Holds(target_w, policy, {})'
    BY <1>1, <1>2, <1>5 DEF Copied, Holds
  <2> QED
    BY <1>1, <1>5, <2>1, <2>2 DEF Copied, Refreshed
<1> QED
  BY <1>3, <1>4, <1>5

\* Nothing of this changes while the weights and the stage stay.
LEMMA SameCopies ==
    ASSUME Copied, Refreshed,
           UNCHANGED <<loaded, round, policy, target_w, draft_w, to_copy, refreshed>>,
           \/ stage' = stage
           \/ /\ stage \notin {"load", "sync", "refresh"}
              /\ stage' \notin {"load", "sync", "refresh"}
              /\ stage' \in {"eval", "sample", "end"} => stage = "eval"
    PROVE  Copied' /\ Refreshed'
  BY DEF Copied, Refreshed, Holds, Registered, Storage, Version, Due

LEMMA CopiedKept ==
    Copied /\ Refreshed /\ Counting /\ Pushing /\ [TrainerNext]_tvars => Copied' /\ Refreshed'
<1> SUFFICES ASSUME Copied, Refreshed, Counting, Pushing, [TrainerNext]_tvars
             PROVE  Copied' /\ Refreshed'
  OBVIOUS
<1>1. CASE Construct
  BY <1>1, SameCopies DEF Construct, train
<1>2. CASE FirstPush
  <2>1. Holds(target_w, policy, to_copy)'
    BY <1>2 DEF FirstPush, Holds, StateKeys, Registered, Storage
  <2> QED
    BY <1>2, <2>1 DEF FirstPush, Copied, Refreshed, Version, Storage
<1>3. CASE CopyTensor
  BY <1>3, CopyKeeps
<1>4. CASE EndPush /\ stage = "sync"
  <2>1. Holds(target_w, policy, {})'
    BY <1>4 DEF EndPush, Copied, Holds, Registered, Storage
  <2>2. stage' = "refresh" => Holds(draft_w, policy, to_copy)'
    BY <1>4 DEF EndPush, Holds, RefreshKeys, StateKeys, Registered, Storage
  <2>3. stage' # "refresh" => ~(Due(DraftRefresh) /\ Depth > 0)
    BY <1>4 DEF EndPush, AfterSync
  <2>4. /\ Version(draft_w)' = Version(draft_w) /\ refreshed' = refreshed
        /\ Due(DraftRefresh)' = Due(DraftRefresh)
    BY <1>4 DEF EndPush, Version, Storage, Due
  <2>5. stage' # "sync"
    BY <1>4 DEF EndPush, AfterSync, AfterRefresh, NextIteration
  <2> QED
    BY <1>4, <2>1, <2>2, <2>3, <2>4, <2>5 DEF Copied, Refreshed
<1>5. CASE EndPush /\ stage = "refresh"
  <2>1. Holds(target_w, policy, {})' /\ Holds(draft_w, policy, {})'
    BY <1>5 DEF EndPush, Copied, Holds, Registered, Storage
  <2>2. stage' \notin {"sync", "refresh"}
    BY <1>5 DEF EndPush, AfterRefresh, NextIteration
  <2>3. Version(draft_w)' = policy' /\ refreshed' = policy'
    <3>1. Version(draft_w) = policy
      BY <1>5, HoldsVersion DEF EndPush, Copied
    <3>2. Version(draft_w)' = Version(draft_w) /\ policy' = policy /\ refreshed' = policy
      BY <1>5 DEF EndPush, Version, Storage
    <3> QED
      BY <3>1, <3>2
  <2> QED
    BY <2>1, <2>2, <2>3 DEF Copied, Refreshed
<1>6. CASE Sample
  BY <1>6 DEF Sample, Copied, Refreshed, Holds, Registered, Storage, Version
<1>7. CASE AddNext \/ EngineStep
  BY <1>7, SameCopies DEF AddNext, EngineStep
<1>8. CASE RolloutEnds
  <2>1. \/ stage = "rollout" /\ stage' = "train"
        \/ stage = "eval" /\ stage' \in {"sample", "end"}
    BY <1>8 DEF RolloutEnds, NextIteration
  <2> QED
    BY <1>8, <2>1, SameCopies DEF RolloutEnds
<1>9. CASE Train
  <2>1. Holds(target_w, policy, to_copy)'
    BY <1>9 DEF Train, Holds, StateKeys, Registered, Storage
  <2> QED
    BY <1>9, <2>1 DEF Train, Copied, Refreshed, Version, Storage
<1>10. CASE Stopped \/ UNCHANGED tvars
  BY <1>10, SameCopies DEF Stopped, tvars, train
<1> QED
  BY <1>1, <1>2, <1>3, <1>4, <1>5, <1>6, <1>7, <1>8, <1>9, <1>10
     DEF TrainerNext, MainAction, EndPush

WeightsInv == Pushing /\ Counting /\ Copied /\ Refreshed

LEMMA WeightsHold == TrainerSpec => []WeightsInv
<1>1. TrainerInit => WeightsInv
  BY PushingInit, CountingInit, CopiedInit DEF WeightsInv
<1>2. WeightsInv /\ [TrainerNext]_tvars => WeightsInv'
  BY PushingKept, CountingKept, CopiedKept DEF WeightsInv
<1> QED
  BY <1>1, <1>2, PTL DEF TrainerSpec

\* Whenever requests may be served the engine computes with the policy's weights, every
\* tensor of them, whether the head is tied, untied or stored although it is tied.
THEOREM PolicyServed == TrainerSpec => []ServesPolicy
<1>1. WeightsInv => ServesPolicy
  BY HoldsVersion DEF WeightsInv, Copied, ServesPolicy
<1> QED
  BY <1>1, WeightsHold, PTL

\* A draft is never half-refreshed when it proposes, and no due refresh is skipped.
THEOREM DraftIsWhole == TrainerSpec => []DraftIsACheckpoint
<1>1. WeightsInv => DraftIsACheckpoint
  BY DEF WeightsInv, Refreshed, DraftIsACheckpoint
<1> QED
  BY <1>1, WeightsHold, PTL

----------------------------------------------------------------------------
(***************************************************************************)
(* What a rollout collects.                                                *)
(***************************************************************************)
\* What a step of the engine may do to what the records depend on.
LEMMA StepCollects ==
    ASSUME TypeOK, StepAction
    PROVE  /\ UNCHANGED <<prompt, asked, next_id>>
           /\ \A r \in Request : state'[r] = "new" => state[r] = "new"
           /\ ~InAccept => out' = out
           /\ InAccept => \E k \in Nat : out' = [out EXCEPT ![Head(todo)] = @ + k]
<1>0. InAccept => Head(todo) \in Request
  BY DEF TypeOK, InAccept
<1>1. CASE BeginStep \/ StepIsEmpty \/ BeginRun \/ Reserve \/ Forward
  BY <1>1 DEF BeginStep, StepIsEmpty, BeginRun, Reserve, Forward, InAccept, sched, request
<1>2. CASE Admit
  BY <1>2 DEF Admit, AdmitRequest, InAccept
<1>3. CASE AcceptDone
  <2>1. PICK a \in 0 .. Deepest(Head(todo)) : \E k \in 1 .. (a + 1) :
            AcceptTokens(Head(todo), a, k, TRUE)
    BY <1>3 DEF AcceptDone
  <2>2. PICK k \in 1 .. (a + 1) : AcceptTokens(Head(todo), a, k, TRUE)
    BY <2>1
  <2>3. k \in Nat
    BY <1>0, <1>3, <2>2, AcceptCounts DEF AcceptDone
  <2>4. /\ state' = [state EXCEPT ![Head(todo)] = "done"] /\ UNCHANGED <<asked, next_id>> /\ InAccept
    BY <1>3 DEF AcceptDone, Finish
  <2>5. \A r \in Request : state'[r] = "new" => state[r] = "new"
    BY <2>4 DEF TypeOK, SchedTypeOK
  <2>6. prompt' = prompt /\ out' = [out EXCEPT ![Head(todo)] = @ + k]
    BY <2>2 DEF AcceptTokens
  <2> QED
    BY <2>3, <2>4, <2>5, <2>6
<1>4. CASE AcceptPlain
  BY <1>4 DEF AcceptPlain, AcceptTokens
<1>5. CASE AcceptSpec
  <2>1. PICK a \in 0 .. Deepest(Head(todo)) : AcceptTokens(Head(todo), a, a + 1, FALSE)
    BY <1>5 DEF AcceptSpec
  <2>2. a + 1 \in Nat
    <3>1. Deepest(Head(todo)) \in Nat
      <4>1. tree[Head(todo)] \in Nat /\ TopK \in Nat \ {0}
        BY <1>0, <1>5, EngineAssumption DEF AcceptSpec, TypeOK, SchedTypeOK
      <4>2. tree[Head(todo)] \div TopK \in Nat
        BY <4>1
      <4> QED
        BY <4>2 DEF Deepest
    <3> QED
      BY <3>1
  <2> QED
    BY <1>5, <2>1, <2>2 DEF AcceptSpec, AcceptTokens
<1>6. CASE Regrow \/ EndStep \/ Draft \/ Raise
  BY <1>6 DEF Regrow, EndStep, Draft, Raise, Refused, AcceptEnds, InAccept, sched, request
<1> QED
  BY <1>1, <1>2, <1>3, <1>4, <1>5, <1>6 DEF StepAction

\* n records of version v.
Scored(n, v) == [i \in 1 .. n |-> v]

LEMMA ScoredAppend ==
    ASSUME NEW n \in Nat, NEW k \in Nat, NEW v
    PROVE  Scored(n, v) \o [i \in 1 .. ((n + k) - n) |-> v] = Scored(n + k, v)
<1> DEFINE s == Scored(n, v)
           t == [i \in 1 .. ((n + k) - n) |-> v]
<1>1. s \in Seq({v}) /\ t \in Seq({v}) /\ Len(s) = n /\ Len(t) = k
  BY DEF Scored
<1>2. /\ s \o t \in Seq({v}) /\ Len(s \o t) = n + k
      /\ \A i \in 1 .. (n + k) : (s \o t)[i] = v
  BY <1>1 DEF Scored
<1>3. Scored(n + k, v) \in Seq({v}) /\ Len(Scored(n + k, v)) = n + k
  BY DEF Scored
<1>4. \A i \in 1 .. (n + k) : (s \o t)[i] = Scored(n + k, v)[i]
  BY <1>2 DEF Scored
<1> QED
  BY <1>2, <1>3, <1>4, SeqEqual

\* Ids are handed out in order and every prompt is the one submitted; the batch is added
\* from first on; and the records of its requests are the current policy's, one per token.
Collected ==
    /\ next_id <= MaxRequests /\ first \in 0 .. next_id
    /\ \A r \in Request : /\ prompt[r] = asked[r]
                          /\ r < next_id => state[r] # "new"
    /\ to_add \in Seq(PromptLens)
    /\ stage \notin {"rollout", "eval"} => to_add = << >>
    /\ stage = "rollout" => (next_id - first) + Len(to_add) = NSeq
    /\ stage = "train" => /\ next_id - first = NSeq
                          /\ \A r \in Reqs : state[r] = "done"
    /\ stage \in {"rollout", "train"} =>
           \A r \in Request : r >= first => logprobs[r] = Scored(out[r], policy)
    /\ logprobs \in [Request -> Seq(Int)]

LEMMA NSeqPositive == NSeq \in Nat \ {0}
<1>1. \A a, b \in Nat \ {0} : a * b \in Nat \ {0}
  BY SMT
<1> QED
  BY <1>1, TrainerAssumption DEF NSeq

LEMMA CollectedInit == TrainerInit => Collected
  BY SchedulerAssumption DEF TrainerInit, Init, SchedInit, Collected

\* A request added: the next id, with no output and no records yet.
LEMMA AddCollects ==
    ASSUME IInv, Collected, AddNext
    PROVE  Collected'
<1>1. TypeOK /\ Queued
  BY DEF AddNext, Add, IInv, InCall
<1>2. PICK n \in PromptLens, m \in MaxTokens :
          AddRequest(next_id, n, m) /\ asked' = [asked EXCEPT ![next_id] = n]
  BY DEF AddNext, Add
<1>3. /\ next_id < MaxRequests /\ next_id' = next_id + 1 /\ next_id \in Request
      /\ next_id \in Nat
  BY <1>1, SchedulerAssumption DEF AddNext, Add, TypeOK, Request
<1>4. /\ UNCHANGED <<out, policy, first, stage, logprobs>>
      /\ stage \in {"rollout", "eval"} /\ to_add # << >> /\ to_add' = Tail(to_add)
  BY <1>2 DEF AddNext, AddRequest
<1>5. \A r \in Request : prompt'[r] = asked'[r] /\ (r < next_id' => state'[r] # "new")
  <2>1. /\ prompt' = [prompt EXCEPT ![next_id] = n] /\ asked' = [asked EXCEPT ![next_id] = n]
        /\ state' = [state EXCEPT ![next_id] = "waiting"]
    BY <1>2 DEF AddRequest
  <2>2. /\ prompt \in [Request -> Nat] /\ asked \in [Request -> Nat] /\ state \in [Request -> State]
    BY <1>1 DEF TypeOK, SchedTypeOK
  <2>3. \A r \in Request : r \in Int /\ (r < next_id + 1 => r = next_id \/ r < next_id)
    BY <1>3, SchedulerAssumption DEF Request
  <2>4. \A r \in Request : prompt[r] = asked[r] /\ (r < next_id => state[r] # "new")
    BY DEF Collected
  <2>5. \A r \in Request : prompt'[r] = asked'[r]
    BY <2>1, <2>2, <2>4
  <2>6. \A r \in Request : r < next_id + 1 => state'[r] # "new"
    BY <2>1, <2>2, <2>3, <2>4
  <2> QED
    BY <1>3, <2>5, <2>6
<1>6. to_add' \in Seq(PromptLens) /\ Len(to_add') = Len(to_add) - 1 /\ Len(to_add) \in Nat
  BY <1>4 DEF Collected
<1>7. /\ next_id' <= MaxRequests /\ first' \in 0 .. next_id'
      /\ stage' = "rollout" => (next_id' - first') + Len(to_add') = NSeq
  <2>1. next_id \in Int /\ first \in Int /\ MaxRequests \in Int /\ first \in 0 .. next_id
        /\ (stage = "rollout" => (next_id - first) + Len(to_add) = NSeq)
    BY <1>3, SchedulerAssumption DEF Collected
  <2> QED
    BY <1>3, <1>4, <1>6, <2>1
<1>8. stage' # "train"
  BY <1>4
<1>9. /\ logprobs' \in [Request -> Seq(Int)]
      /\ stage' = "rollout" => \A r \in Request : r >= first' => logprobs'[r] = Scored(out'[r], policy')
  BY <1>4 DEF Collected
<1> QED
  BY <1>4, <1>5, <1>6, <1>7, <1>8, <1>9 DEF Collected

\* The records of an accept are as many as the tokens it emits.
LEMMA StepRecords ==
    ASSUME TypeOK, Collected, Counting, Version(target_w) = policy, EngineStep, StepAction
    PROVE  /\ logprobs' \in [Request -> Seq(Int)]
           /\ stage = "rollout" =>
                  \A r \in Request : r >= first => logprobs'[r] = Scored(out'[r], policy)
<1>1. CASE ~InAccept
  BY <1>1, StepCollects DEF EngineStep, Collected
<1>2. CASE InAccept
  <2> DEFINE h == Head(todo)
  <2>1. h \in Request /\ out \in [Request -> Nat]
    <3>1. todo \in Seq(Request) /\ todo # << >>
      BY <1>2 DEF InAccept, TypeOK
    <3>2. Head(todo) \in Request
      BY <3>1
    <3> QED
      BY <3>2 DEF TypeOK, SchedTypeOK
  <2>2. PICK k \in Nat : out' = [out EXCEPT ![h] = @ + k]
    BY <1>2, StepCollects
  <2>3. out'[h] = out[h] + k
    BY <2>1, <2>2
  <2>4. CASE stage # "rollout"
    BY <1>2, <2>4 DEF EngineStep, Recorded, Collected
  <2>5. CASE stage = "rollout"
    <3> DEFINE new == [i \in 1 .. (out'[h] - out[h]) |-> Version(target_w)]
    <3>1. logprobs' = [logprobs EXCEPT ![h] = @ \o new]
      BY <1>2, <2>5 DEF EngineStep, Recorded
    <3>2. new = [i \in 1 .. ((out[h] + k) - out[h]) |-> policy] /\ policy \in Int
      BY <2>3 DEF Counting
    <3>3. new \in Seq(Int)
      <4>1. out[h] \in Nat /\ (out[h] + k) - out[h] \in Nat
        BY <2>1
      <4>2. \A n \in Nat, v \in Int : [i \in 1 .. n |-> v] \in Seq(Int)
        OBVIOUS
      <4> HIDE DEF h, new
      <4> QED
        BY <3>2, <4>1, <4>2
    <3>4. logprobs[h] \in Seq(Int) /\ logprobs[h] \o new \in Seq(Int)
      BY <2>1, <3>3 DEF Collected
    <3> HIDE DEF new
    <3>5. logprobs' \in [Request -> Seq(Int)]
      BY <2>1, <3>1, <3>4 DEF Collected
    <3>6. ASSUME NEW r \in Request, r >= first
          PROVE  logprobs'[r] = Scored(out'[r], policy)
      <4>1. logprobs[r] = Scored(out[r], policy)
        BY <2>5, <3>6 DEF Collected
      <4>2. CASE r # h
        <5>1. logprobs'[r] = logprobs[r] /\ out'[r] = out[r]
          BY <2>1, <2>2, <3>1, <4>2 DEF Collected
        <5> QED
          BY <4>1, <5>1
      <4>3. CASE r = h
        <5>1. logprobs'[h] = Scored(out[h], policy) \o new
          BY <2>1, <3>1, <4>1, <4>3 DEF Collected
        <5>2. out[h] \in Nat
          BY <2>1
        <5> QED
          BY <2>3, <3>2, <4>3, <5>1, <5>2, ScoredAppend
      <4> QED
        BY <4>2, <4>3
    <3> QED
      BY <3>5, <3>6
  <2> QED
    BY <2>4, <2>5
<1> QED
  BY <1>1, <1>2

\* A rollout that ends has every request answered.
LEMMA EndCollects ==
    ASSUME IInv, Collected, RolloutEnds
    PROVE  Collected'
<1>1. TypeOK /\ Queued /\ waiting = << >> /\ running = << >>
  BY DEF RolloutEnds, Working, HasWork, IInv, InCall
<1>2. UNCHANGED <<next_id, first, prompt, asked, state, to_add, out, logprobs, policy>>
  BY DEF RolloutEnds, vars, sched, request
<1>3. \A r \in Request : r < next_id => state[r] = "done"
  <2>1. \A r \in Request : state[r] \notin {"waiting", "running"}
    BY <1>1, EmptyQueue DEF Queued, Running
  <2>2. \A r \in Request : state[r] \in {"new", "waiting", "running", "done"}
    BY <1>1 DEF TypeOK, SchedTypeOK, State
  <2>3. \A r \in Request : r < next_id => state[r] # "new"
    BY DEF Collected
  <2> QED
    BY <2>1, <2>2, <2>3
<1>4. \A r \in Reqs : r \in Request /\ r < next_id
  BY <1>1, SchedulerAssumption DEF Collected, Reqs, Request, TypeOK
<1>5. stage' = "train" => stage = "rollout"
  BY DEF RolloutEnds, NextIteration
<1>6. stage' # "rollout" /\ to_add = << >>
  BY DEF RolloutEnds, NextIteration
<1>7. Reqs' = Reqs
  BY <1>2 DEF Reqs
<1>8. stage' = "train" => next_id - first = NSeq
  BY <1>1, <1>5, <1>6, NSeqPositive DEF Collected, TypeOK
<1> QED
  BY <1>2, <1>3, <1>4, <1>5, <1>6, <1>7, <1>8 DEF Collected

\* A batch begins with no records and ids nobody used.
LEMMA SampleCollects ==
    ASSUME IInv, Collected, Sample
    PROVE  Collected'
<1>1. PICK lens \in [0 .. (Prompts - 1) -> PromptLens] :
          NewBatch([i \in 1 .. NSeq |-> lens[(i - 1) \div Group]])
  BY DEF Sample
<1> DEFINE s == [i \in 1 .. NSeq |-> lens[(i - 1) \div Group]]
<1>2. TypeOK /\ Counted /\ Queued
  BY DEF Sample, IInv, InCall
<1>3. s \in Seq(PromptLens) /\ Len(s) = NSeq
  <2>1. ASSUME NEW i \in 1 .. NSeq
        PROVE  (i - 1) \div Group \in 0 .. (Prompts - 1)
    <3>1. /\ i - 1 \in Nat /\ Group \in Nat \ {0} /\ Prompts \in Nat \ {0}
          /\ i - 1 < Prompts * Group /\ i - 1 \in Int
      BY NSeqPositive, TrainerAssumption DEF NSeq
    <3> DEFINE q == (i - 1) \div Group
    <3>2. q \in Nat /\ Group * q <= i - 1
      BY <3>1, FloorDiv
    <3>3. ASSUME Prompts <= q PROVE FALSE
      <4>1. Group * Prompts <= Group * q
        <5>1. \A g, a, b \in Nat : a <= b => g * a <= g * b
          BY SMT
        <5> QED
          BY <3>1, <3>2, <3>3, <5>1
      <4>2. Group * Prompts = Prompts * Group
        BY <3>1
      <4> QED
        BY <3>1, <3>2, <4>1, <4>2
    <3> QED
      BY <3>1, <3>2, <3>3
  <2>2. \A i \in 1 .. NSeq : s[i] \in PromptLens
    BY <2>1
  <2> QED
    BY <2>2, NSeqPositive
<1> HIDE DEF s
<1>4. /\ to_add' = s /\ first' = next_id /\ logprobs' = [r \in Request |-> << >>]
  BY <1>1 DEF NewBatch, s
<1>5. UNCHANGED <<next_id, prompt, asked, state, out, policy>> /\ stage' = "rollout"
  BY DEF Sample, vars, sched, request
<1>6. \A r \in Request : r >= next_id => out[r] = 0
  BY <1>2 DEF Queued, Counted, CountedFor
<1>7. << >> = Scored(0, policy)
  BY DEF Scored
<1>8. \A r \in Request : r >= first' => logprobs'[r] = Scored(out'[r], policy')
  BY <1>4, <1>5, <1>6, <1>7
<1>9. next_id \in Nat
  BY <1>2 DEF TypeOK
<1> QED
  BY <1>3, <1>4, <1>5, <1>8, <1>9, NSeqPositive DEF Collected

\* The end of a push: the engine is empty, and an evaluation may begin.
LEMMA PushCollects ==
    ASSUME TypeOK, Collected, Quiet, EndPush
    PROVE  Collected'
<1>1. UNCHANGED vars
  <2>1. running = << >>
    BY DEF EndPush, Quiet, HasWork
  <2> QED
    BY <2>1 DEF EndPush
<1>2. UNCHANGED <<next_id, prompt, asked, state, out>> /\ next_id \in Nat
  BY <1>1 DEF vars, sched, request, TypeOK
<1>3. stage' \in {"refresh", "eval", "sample", "end"} /\ to_add = << >>
  BY DEF EndPush, AfterSync, AfterRefresh, NextIteration, Collected
<1>4. CASE stage' = "eval"
  <2>1. PICK lens \in [1 .. EvalPrompts -> PromptLens] : NewBatch(lens)
    BY <1>4 DEF EndPush
  <2>2. lens \in Seq(PromptLens)
    BY TrainerAssumption
  <2> QED
    BY <1>2, <1>4, <2>1, <2>2 DEF NewBatch, Collected
<1>5. CASE stage' # "eval"
  BY <1>2, <1>3, <1>5 DEF EndPush, SameBatch, Collected
<1> QED
  BY <1>4, <1>5

LEMMA CollectedKept ==
    ASSUME IInv, Collected, WeightsInv, Quiet, [TrainerNext]_tvars
    PROVE  Collected'
<1>0. TypeOK
  BY DEF IInv
<1>1. CASE Construct
  BY <1>1 DEF Construct, Capture, sched, request, train, Collected, Reqs
<1>2. CASE FirstPush \/ Train
  <2>1. /\ UNCHANGED <<next_id, first, prompt, asked, state, to_add, out, logprobs>>
        /\ stage' = "sync" /\ stage \notin {"rollout", "eval"}
    BY <1>2 DEF FirstPush, Train, vars, sched, request
  <2> QED
    BY <2>1 DEF Collected
<1>3. CASE CopyTensor
  <2>1. /\ UNCHANGED <<next_id, first, prompt, asked, state, to_add, out, logprobs>>
        /\ stage \in {"sync", "refresh"} /\ stage' = stage
    BY <1>3 DEF CopyTensor, WeightsInv, Pushing, vars, sched, request
  <2> QED
    BY <2>1 DEF Collected
<1>4. CASE EndPush
  BY <1>0, <1>4, PushCollects
<1>5. CASE Sample
  BY <1>5, SampleCollects
<1>6. CASE AddNext
  BY <1>6, AddCollects
<1>7. CASE EngineStep
  <2>1. /\ stage \in {"rollout", "eval"} /\ to_add = << >>
        /\ UNCHANGED <<stage, first, to_add, policy>>
    BY <1>7 DEF EngineStep, Quiet
  <2>2. StepAction
    BY <1>7 DEF EngineStep, UpdateAction, RestartHead, EndUpdate, Quiet
  <2>3. Version(target_w) = policy
    BY <2>1, HoldsVersion DEF WeightsInv, Copied
  <2>4. /\ UNCHANGED <<prompt, asked, next_id>>
        /\ \A r \in Request : state'[r] = "new" => state[r] = "new"
    BY <1>0, <2>2, StepCollects
  <2>5. /\ logprobs' \in [Request -> Seq(Int)]
        /\ stage = "rollout" =>
               \A r \in Request : r >= first => logprobs'[r] = Scored(out'[r], policy)
    BY <1>0, <1>7, <2>2, <2>3, StepRecords DEF WeightsInv
  <2> QED
    BY <2>1, <2>4, <2>5 DEF Collected
<1>8. CASE RolloutEnds
  BY <1>8, EndCollects
<1>9. CASE Stopped \/ UNCHANGED tvars
  BY <1>9 DEF Stopped, tvars, train, vars, sched, request, Collected, Reqs
<1> QED
  BY <1>1, <1>2, <1>3, <1>4, <1>5, <1>6, <1>7, <1>8, <1>9 DEF TrainerNext, MainAction

LEMMA TrainerInvariant == TrainerSpec => [](IInv /\ WeightsInv /\ Quiet /\ Collected)
<1>1. TrainerSpec => []IInv
  BY ImplementsEngine, Invariant, PTL
<1>2. IInv /\ WeightsInv /\ Quiet /\ Collected /\ [TrainerNext]_tvars => Collected'
  BY CollectedKept
<1> QED
  BY <1>1, <1>2, CollectedInit, AlwaysQuiet, WeightsHold, PTL DEF TrainerSpec

\* What the trainer reads of a rollout is whole and its own: a batch of Prompts * Group
\* answered requests on the prompts it submitted, with one record per output token, each by
\* the very policy the step starts from, so that the importance ratio starts at 1.
THEOREM RolloutsAreOnPolicy == TrainerSpec => []OnPolicy
<1>1. IInv /\ Collected => OnPolicy
  <2> SUFFICES ASSUME IInv, Collected, stage = "train"
               PROVE  /\ Cardinality(Reqs) = NSeq
                      /\ \A r \in Reqs : /\ state[r] = "done"
                                         /\ prompt[r] = asked[r]
                                         /\ logprobs[r] = [i \in 1 .. out[r] |-> policy]
    BY DEF OnPolicy
  <2>1. next_id \in Nat /\ first \in 0 .. next_id /\ next_id - first = NSeq /\ NSeq \in Nat \ {0}
        /\ next_id <= MaxRequests
    BY NSeqPositive DEF IInv, TypeOK, Collected
  <2>2. Cardinality(Reqs) = NSeq
    <3>1. first \in Int /\ next_id - 1 \in Int /\ ~(first > next_id - 1)
          /\ ((next_id - 1) - first) + 1 = NSeq
      BY <2>1
    <3> QED
      BY <3>1, FS_Interval DEF Reqs
  <2>3. ASSUME NEW r \in Reqs
        PROVE  r \in Request /\ r >= first
    BY <2>1, SchedulerAssumption DEF Reqs, Request
  <2> QED
    BY <2>2, <2>3 DEF Collected, Scored
<1> QED
  BY <1>1, TrainerInvariant, PTL

\* Every variable of the trainer keeps its type; in particular there are as many updates at
\* most as iterations, and iterations at most as --steps.
THEOREM TrainerTypeCorrect == TrainerSpec => []TrainerTypeOK
<1>1. IInv /\ WeightsInv /\ Collected => TrainerTypeOK
  BY DEF IInv, WeightsInv, Pushing, Counting, Collected, TrainerTypeOK, Registered
<1> QED
  BY <1>1, TrainerInvariant, PTL

\* The queues of the engine agree with the requests' states throughout training.
THEOREM TrainerQueuesAgree == TrainerSpec => []QueuesConsistent
  BY ImplementsEngine, QueuesAgree, PTL

\* No step of training fails for want of a block, whatever the pool: nobody asks for zero
\* tokens.
THEOREM TrainerNeverExhausts == TrainerSpec => []AppendNeverFails
<1>1. 0 \notin MaxTokens
  BY TrainerAssumption
<1>2. Spec => []AppendNeverFails
  BY <1>1, AppendIsSafe
<1> QED
  BY <1>2, ImplementsEngine, PTL


----------------------------------------------------------------------------
(***************************************************************************)
(* What the telemetry rows of a rollout add up to, under speculation.      *)
(***************************************************************************)
Fresh(r) == out[r] = 0 /\ logged[r] = 0
Level(r) == logged[r] = out[r] - 1
Over(r)  == logged[r] - (out[r] - 1) \in 0 .. Depth

\* A request has no rows before its prefill; after it its rows are a token behind its output;
\* and they may go past a finished request's.
Tiled ==
    /\ logged \in [Request -> Int]
    /\ \A r \in Request : r >= first =>
           /\ state[r] \in {"new", "waiting"} \/ r \in Newly => Fresh(r)
           /\ r \in Running \ Newly => Level(r)
           /\ state[r] = "done" => Over(r)

LEMMA TiledInit == TrainerInit => Tiled
<1> SUFFICES ASSUME TrainerInit PROVE Tiled
  OBVIOUS
<1>1. Running = {} /\ Newly = {}
  BY EmptyQueue DEF TrainerInit, Init, SchedInit, Running, Newly, Pending
<1> QED
  BY <1>1 DEF TrainerInit, Init, SchedInit, Tiled, Fresh

\* A step that moves no request past its prefill or its end and logs nothing.
LEMMA TilesStay ==
    ASSUME Tiled, UNCHANGED <<out, logged>>, first' = first,
           \A r \in Request :
               /\ state'[r] \in {"new", "waiting"} \/ r \in Newly' =>
                      state[r] \in {"new", "waiting"} \/ r \in Newly
               /\ r \in (Running \ Newly)' => r \in Running \ Newly
               /\ state'[r] = "done" => state[r] = "done"
    PROVE  Tiled'
<1>1. \A r : Fresh(r)' = Fresh(r) /\ Level(r)' = Level(r) /\ Over(r)' = Over(r)
  BY DEF Fresh, Level, Over
<1> QED
  BY <1>1 DEF Tiled

\* A tree's accepted path is no longer than the tree is deep.
LEMMA PathIsShort ==
    ASSUME TypeOK, NEW h \in Request, tree[h] <= NumDraft
    PROVE  Deepest(h) \in Nat /\ Deepest(h) <= Depth
<1>1. tree[h] \in Nat /\ TopK \in Nat \ {0} /\ Depth \in Nat
  BY EngineAssumption DEF TypeOK, SchedTypeOK
<1> DEFINE q == tree[h] \div TopK
<1>2. q \in Nat /\ TopK * q <= tree[h]
  <2>1. TopK * q <= tree[h]
    BY <1>1, FloorDiv
  <2>2. q \in Nat
    BY <1>1
  <2> QED
    BY <2>1, <2>2
<1>3. ASSUME Depth < q PROVE FALSE
  <2>1. TopK * Depth + TopK <= TopK * q
    BY <1>1, <1>2, <1>3, MulStep
  <2>2. TopK * Depth = Depth * TopK /\ Depth * TopK \in Nat
    BY <1>1
  <2>3. tree[h] <= Depth * TopK
    BY DEF NumDraft
  <2> HIDE DEF q
  <2> QED
    BY <1>1, <1>2, <2>1, <2>2, <2>3
<1> QED
  BY <1>1, <1>2, <1>3 DEF Deepest

\* A prefill is a request's first token and has no row; a verify's row has the path and the
\* final token, of which the answer may keep fewer.
LEMMA AcceptTiles ==
    ASSUME IInv, IInv', pc' # "exhausted", Tiled, Depth > 0,
           AcceptDone \/ AcceptPlain \/ AcceptSpec, EngineStep
    PROVE  Tiled'
<1>0. PICK h : h = Head(todo)
  OBVIOUS
<1>1. /\ pc = "accept" /\ todo # << >> /\ UNCHANGED admitted
      /\ h \in Request /\ h \in Running /\ h \in Todo
      /\ \A r \in Request \ {h} : out'[r] = out[r] /\ committed'[r] = committed[r]
      /\ \/ pc' = "accept" /\ todo' = Tail(todo)
         \/ pc' = "regrow" /\ todo' = todo
  BY <1>0, Accepts
<1> DEFINE Outcome(a, k) ==
          \/ /\ Running' = Running \ {h} /\ state' = [state EXCEPT ![h] = "done"]
             /\ AcceptTokens(h, a, k, TRUE)
          \/ /\ Running' = Running /\ state' = state /\ k = a + 1
             /\ AcceptTokens(h, a, k, FALSE)
<1>A. PICK a \in 0 .. Deepest(h) : \E k \in 1 .. (a + 1) : Outcome(a, k)
  BY <1>0, Accepts
<1>2. PICK k \in 1 .. (a + 1) : Outcome(a, k)
  BY <1>A
<1>3. TypeOK /\ Counted /\ Treed /\ Queued
  BY <1>1 DEF IInv, InCall
<1>4. Newly' = Newly \ {h}
  BY <1>0, <1>1, AcceptedOne
<1>5. PICK done : AcceptTokens(h, a, k, done)
  BY <1>2
<1>6. /\ a \in Nat /\ k \in Nat /\ (tree[h] = NoTree => a = 0)
      /\ out'[h] = out[h] + k
      /\ committed'[h] = committed[h] + IF tree[h] # NoTree THEN a + 1 ELSE Span(h)
  BY <1>1, <1>3, <1>5, AcceptCounts
<1>7. out[h] \in Nat /\ committed[h] \in Nat /\ state \in [Request -> State]
      /\ logged \in [Request -> Int]
  BY <1>1, <1>3 DEF TypeOK, SchedTypeOK, Tiled
<1>8. logged' = IF tree[h] = NoTree THEN logged ELSE [logged EXCEPT ![h] = @ + RowTokens(h)]
  BY <1>0, <1>1 DEF EngineStep, InAccept, Recorded
<1>9. /\ logged'[h] = IF tree[h] = NoTree THEN logged[h] ELSE logged[h] + (a + 1)
      /\ \A r \in Request \ {h} : logged'[r] = logged[r]
      /\ logged' \in [Request -> Int]
  <2>1. CASE tree[h] = NoTree
    BY <1>7, <1>8, <2>1
  <2>2. CASE tree[h] # NoTree
    <3>1. RowTokens(h) = a + 1
      BY <1>6, <1>7, <2>2 DEF RowTokens
    <3>2. logged' = [logged EXCEPT ![h] = @ + (a + 1)] /\ a + 1 \in Int
      BY <1>6, <1>8, <2>2, <3>1
    <3> QED
      BY <1>1, <1>7, <2>2, <3>2
  <2> QED
    BY <2>1, <2>2
<1>10. first' = first
  BY DEF EngineStep
<1>11. ASSUME NEW r \in Request \ {h}, r >= first
       PROVE  /\ state'[r] \in {"new", "waiting"} \/ r \in Newly' => Fresh(r)'
              /\ r \in Running' \ Newly' => Level(r)'
              /\ state'[r] = "done" => Over(r)'
  <2>1. Fresh(r)' = Fresh(r) /\ Level(r)' = Level(r) /\ Over(r)' = Over(r)
    BY <1>1, <1>9 DEF Fresh, Level, Over
  <2>2. state'[r] = state[r] /\ (r \in Running' <=> r \in Running) /\ (r \in Newly' <=> r \in Newly)
    BY <1>2, <1>4, <1>7
  <2> QED
    BY <1>11, <2>1, <2>2 DEF Tiled
<1>12. tree[h] <= NumDraft /\ Deepest(h) <= Depth /\ Deepest(h) \in Nat
  BY <1>1, <1>3, PathIsShort DEF Treed
<1>13. (h \in Newly => tree[h] = NoTree) /\ (h \notin Newly => tree[h] # NoTree)
  BY <1>1, <1>3 DEF Counted, CountedFor, Treed, Pending
<1>14. h >= first => IF h \in Newly THEN Fresh(h) ELSE Level(h)
  BY <1>1 DEF Tiled
<1>15. h >= first => logged'[h] = (out[h] + a) /\ (h \in Newly => out[h] = 0 /\ a = 0)
  BY <1>6, <1>7, <1>9, <1>13, <1>14 DEF Fresh, Level
<1>16. h >= first => Over(h)'
  BY <1>6, <1>7, <1>12, <1>15, EngineAssumption DEF Over
<1>17. h >= first /\ k = a + 1 => Level(h)'
  BY <1>6, <1>7, <1>15 DEF Level
<1>18. h >= first =>
           /\ state'[h] \in {"new", "waiting"} \/ h \in Newly' => Fresh(h)'
           /\ h \in Running' \ Newly' => Level(h)'
           /\ state'[h] = "done" => Over(h)'
  <2>1. state[h] = "running"
    BY <1>1, <1>3 DEF Queued
  <2> QED
    BY <1>2, <1>4, <1>7, <1>16, <1>17, <2>1
<1> QED
  BY <1>9, <1>10, <1>11, <1>18 DEF Tiled

LEMMA StepTiles ==
    ASSUME IInv, IInv', pc' # "exhausted", Tiled, Depth > 0, EngineStep, StepAction
    PROVE  Tiled'
<1>0. first' = first
  BY DEF EngineStep
<1>1. CASE AcceptDone \/ AcceptPlain \/ AcceptSpec
  BY <1>1, AcceptTiles
<1>2. CASE Admit
  <2>0. PICK h : h = Head(waiting)
    OBVIOUS
  <2>1. /\ TypeOK /\ Queued /\ Locals /\ pc = "admit" /\ pc' = "admit" /\ waiting # << >>
        /\ waiting \in Seq(Request) /\ running \in Seq(Request) /\ admitted \in Seq(Request)
    BY <1>2 DEF IInv, InCall, Admit, HeadFits, MayAdmit, TypeOK, SchedTypeOK
  <2>2. /\ running' = Append(running, h) /\ admitted' = Append(admitted, h)
        /\ state' = [state EXCEPT ![h] = "running"] /\ out' = out
    BY <1>2, <2>0 DEF Admit, AdmitRequest
  <2>3. h \in ToSet(waiting) /\ h \in Request
    BY <2>0, <2>1, TailQueue DEF Queued
  <2>4. Running' = Running \cup {h} /\ Admitted' = Admitted \cup {h}
    BY <2>1, <2>2, <2>3, AppendQueue DEF Running, Admitted
  <2>5. Newly' = Newly \cup {h}
    BY <2>1, <2>4 DEF Newly, Pending, Running, Admitted
  <2>6. state[h] = "waiting" /\ state \in [Request -> State]
    BY <2>1, <2>3 DEF Queued, TypeOK, SchedTypeOK
  <2>7. logged' = logged
    BY <2>1 DEF EngineStep, InAccept
  <2> QED
    BY <1>0, <2>2, <2>4, <2>5, <2>6, <2>7, TilesStay
<1>3. CASE \/ BeginStep \/ StepIsEmpty \/ BeginRun \/ Reserve \/ Forward
           \/ Regrow \/ EndStep \/ Draft
  <2>1. UNCHANGED <<running, state, out>> /\ Newly' = Newly /\ Running' = Running
    BY <1>3, NewlyStays DEF Running
  <2>2. ~InAccept
    BY <1>3 DEF InAccept, BeginStep, StepIsEmpty, BeginRun, Reserve, Forward, Regrow, EndStep,
       Draft, AcceptEnds
  <2>3. logged' = logged
    BY <2>2 DEF EngineStep
  <2> QED
    BY <1>0, <2>1, <2>3, TilesStay
<1>4. CASE Raise
  BY <1>4 DEF Raise
<1> QED
  BY <1>1, <1>2, <1>3, <1>4 DEF StepAction

\* A new batch has no request yet.
LEMMA BatchTiles ==
    ASSUME IInv, Quiet, pc = "idle", UNCHANGED vars, first' = next_id,
           logged' = [r \in Request |-> 0]
    PROVE  Tiled'
<1>1. /\ TypeOK /\ Queued /\ Counted
      /\ UNCHANGED <<state, out, running, pc, admitted, todo, next_id>>
  BY DEF IInv, InCall, vars, sched, request, step
<1>2. \A r \in Request : r >= next_id => state[r] = "new" /\ out[r] = 0
  BY <1>1 DEF Queued, Counted, CountedFor
<1>3. Newly' = {} /\ Running' = Running
  BY <1>1 DEF Newly, Pending, Running
<1>4. \A r \in Request : r >= first' =>
          /\ Fresh(r)' /\ state'[r] = "new" /\ r \notin Running'
  BY <1>1, <1>2, <1>3 DEF Fresh, Queued
<1> QED
  BY <1>3, <1>4 DEF Tiled

LEMMA TiledKept ==
    ASSUME IInv, IInv', pc' # "exhausted", Tiled, Depth > 0, Quiet, [TrainerNext]_tvars
    PROVE  Tiled'
<1>1. CASE EngineStep
  <2>1. StepAction
    BY <1>1 DEF EngineStep, UpdateAction, RestartHead, EndUpdate, Quiet
  <2> QED
    BY <1>1, <2>1, StepTiles
<1>2. CASE Sample \/ (EndPush /\ stage' = "eval")
  <2>1. UNCHANGED vars
    BY <1>2 DEF Sample, EndPush, Quiet, HasWork
  <2>2. pc = "idle" /\ first' = next_id /\ logged' = [r \in Request |-> 0]
    BY <1>2 DEF Sample, EndPush, NewBatch
  <2> QED
    BY <2>1, <2>2, BatchTiles
<1>3. CASE AddNext
  <2>1. PICK n \in PromptLens, m \in MaxTokens : AddRequest(next_id, n, m)
    BY <1>3 DEF AddNext, Add
  <2>2. /\ UNCHANGED <<first, logged, out, running, pc, admitted, todo>> /\ pc = "idle"
        /\ state' = [state EXCEPT ![next_id] = "waiting"]
    BY <1>3, <2>1 DEF AddNext, Add, AddRequest, step
  <2>3. TypeOK /\ Queued
    BY <2>2 DEF IInv, InCall
  <2>4. next_id \in Request /\ state[next_id] = "new" /\ state \in [Request -> State]
    <3>1. next_id \in Nat /\ next_id < MaxRequests /\ state \in [Request -> State]
      BY <1>3, <2>3 DEF AddNext, Add, TypeOK, SchedTypeOK
    <3>2. next_id \in Request /\ next_id >= next_id
      BY <3>1, SchedulerAssumption DEF Request
    <3> QED
      BY <2>3, <3>1, <3>2 DEF Queued
  <2>5. Running' = Running /\ Newly' = Newly
    BY <2>2 DEF Running, Newly, Pending
  <2> QED
    BY <2>2, <2>4, <2>5, TilesStay
<1>4. CASE Construct
  <2>1. UNCHANGED <<first, logged, out, running, state>> /\ pc = "capture" /\ pc' = "idle"
    BY <1>4 DEF Construct, Capture, train, sched, request
  <2>2. Running' = Running /\ Newly' = Newly
    BY <2>1 DEF Running, Newly, Pending
  <2> QED
    BY <2>1, <2>2, TilesStay
<1>5. CASE \/ FirstPush \/ CopyTensor \/ RolloutEnds \/ Train \/ Stopped
           \/ (EndPush /\ stage' # "eval") \/ UNCHANGED tvars
  <2>1. UNCHANGED vars /\ first' = first /\ logged' = logged
    BY <1>5 DEF FirstPush, CopyTensor, RolloutEnds, Train, Stopped, EndPush, Quiet, HasWork,
       SameBatch, tvars, train
  <2>2. UNCHANGED <<out, running, state, pc, admitted, todo>>
    BY <2>1 DEF vars, sched, request, step
  <2>3. Running' = Running /\ Newly' = Newly
    BY <2>2 DEF Running, Newly, Pending, Todo, Admitted
  <2> QED
    BY <2>1, <2>2, <2>3, TilesStay
<1> QED
  BY <1>1, <1>2, <1>3, <1>4, <1>5 DEF TrainerNext, MainAction

\* Under speculation the rows a request leaves in the telemetry file list its output after
\* the first token, each token once and in order; those of a finished request may go on past
\* its end by at most Depth tokens, the ones its last path was cut by (engine.py:339-361).
THEOREM RowsTile == TrainerSpec => []RowsTileOutput
<1> DEFINE Upheld == Depth > 0 => Tiled
<1>1. IInv /\ IInv' /\ AppendNeverFails' /\ Quiet /\ Upheld /\ [TrainerNext]_tvars => Upheld'
  BY TiledKept DEF AppendNeverFails
<1>2. IInv /\ Collected /\ Upheld => RowsTileOutput
  <2> SUFFICES ASSUME IInv, Collected, Tiled, pc = "idle", NEW r \in Reqs
               PROVE  /\ state[r] = "running" => logged[r] = out[r] - 1
                      /\ state[r] = "done" => logged[r] - (out[r] - 1) \in 0 .. Depth
    BY DEF RowsTileOutput
  <2>1. TypeOK /\ Queued
    BY DEF IInv, InCall
  <2>2. r \in Request /\ r >= first
    BY <2>1, SchedulerAssumption DEF Reqs, Request, Collected, TypeOK
  <2>3. Newly = {}
    BY DEF Newly, Pending
  <2>4. state[r] = "running" => r \in Running
    BY <2>1, <2>2 DEF Queued
  <2> QED
    BY <2>2, <2>3, <2>4 DEF Tiled, Level, Over
<1> QED
  BY <1>1, <1>2, TiledInit, TrainerInvariant, TrainerNeverExhausts, PTL DEF TrainerSpec

----------------------------------------------------------------------------
(***************************************************************************)
(* The pool main computes.                                                 *)
(***************************************************************************)
\* The requests the engine has are the current batch's, on prompts a task encodes.
Served == \A r \in Request : /\ state[r] \in {"waiting", "running"} => r >= first
                             /\ state[r] # "new" => prompt[r] \in PromptLens

\* Requests wait, run and finish, in this order.
LEMMA StepServes ==
    ASSUME IInv, StepAction
    PROVE  \A r \in Request : /\ state'[r] \in {"waiting", "running"} => state[r] \in {"waiting", "running"}
                              /\ state[r] = "new" => state'[r] = "new"
<1>1. state \in [Request -> State]
  BY DEF IInv, TypeOK, SchedTypeOK
<1>2. CASE AcceptDone \/ AcceptPlain \/ AcceptSpec
  <2> DEFINE h == Head(todo)
  <2>1. h \in Request /\ h \in Running /\ (state' = state \/ state' = [state EXCEPT ![h] = "done"])
    BY <1>2, Accepts
  <2>2. state[h] = "running"
    <3>1. Queued
      BY <1>2 DEF IInv, InCall, AcceptDone, AcceptPlain, AcceptSpec, InAccept
    <3> QED
      BY <2>1, <3>1 DEF Queued
  <2> HIDE DEF h
  <2> QED
    BY <1>1, <2>1, <2>2
<1>3. CASE Admit
  <2> DEFINE h == Head(waiting)
  <2>1. Queued /\ waiting \in Seq(Request) /\ waiting # << >>
        /\ state' = [state EXCEPT ![h] = "running"]
    BY <1>3 DEF Admit, AdmitRequest, HeadFits, MayAdmit, IInv, InCall, TypeOK, SchedTypeOK
  <2>2. h \in ToSet(waiting) /\ h \in Request
    BY <2>1, TailQueue DEF Queued
  <2>3. state[h] = "waiting"
    BY <2>1, <2>2 DEF Queued
  <2> HIDE DEF h
  <2> QED
    BY <1>1, <2>1, <2>2, <2>3
<1>4. CASE \/ BeginStep \/ StepIsEmpty \/ BeginRun \/ Reserve \/ Forward
           \/ Regrow \/ EndStep \/ Draft
  BY <1>4, NewlyStays
<1>5. CASE Raise
  BY <1>5 DEF Raise, request
<1> QED
  BY <1>2, <1>3, <1>4, <1>5 DEF StepAction

LEMMA ServedKept ==
    ASSUME IInv, Served, Collected, Quiet, [TrainerNext]_tvars
    PROVE  Served'
<1>0. TypeOK /\ state \in [Request -> State]
  BY DEF IInv, TypeOK, SchedTypeOK
<1>1. CASE EngineStep
  <2>1. StepAction
    BY <1>1 DEF EngineStep, UpdateAction, RestartHead, EndUpdate, Quiet
  <2>2. first' = first /\ prompt' = prompt
    BY <1>0, <1>1, <2>1, StepCollects DEF EngineStep
  <2> QED
    BY <2>1, <2>2, StepServes DEF Served
<1>2. CASE Sample \/ (EndPush /\ stage' = "eval")
  <2>1. UNCHANGED vars /\ pc = "idle" /\ ~HasWork
    BY <1>2 DEF Sample, EndPush, Quiet, HasWork
  <2>2. \A r \in Request : state[r] \notin {"waiting", "running"}
    BY <2>1, EmptyQueue DEF IInv, InCall, Queued, HasWork, Running
  <2> QED
    BY <2>1, <2>2 DEF Served, vars, sched, request
<1>3. CASE AddNext
  <2>1. PICK n \in PromptLens : \E m \in MaxTokens : AddRequest(next_id, n, m)
    BY <1>3 DEF AddNext, Add
  <2>2. /\ first' = first /\ state' = [state EXCEPT ![next_id] = "waiting"]
        /\ prompt' = [prompt EXCEPT ![next_id] = n]
    BY <1>3, <2>1 DEF AddNext, AddRequest
  <2>3. next_id >= first /\ prompt \in [Request -> Nat]
    BY <1>0 DEF Collected, TypeOK, SchedTypeOK
  <2> QED
    BY <1>0, <2>2, <2>3 DEF Served
<1>4. CASE \/ Construct \/ FirstPush \/ CopyTensor \/ RolloutEnds \/ Train \/ Stopped
           \/ (EndPush /\ stage' # "eval") \/ UNCHANGED tvars
  <2>1. first' = first /\ prompt' = prompt /\ state' = state
    BY <1>4 DEF Construct, Capture, FirstPush, CopyTensor, RolloutEnds, Train, Stopped, EndPush,
       Quiet, HasWork, SameBatch, tvars, train, vars, sched, request
  <2> QED
    BY <2>1 DEF Served
<1> QED
  BY <1>1, <1>2, <1>3, <1>4 DEF TrainerNext, MainAction

\* A list names no more requests than it is long.
LEMMA FewerThanListed ==
    ASSUME NEW s \in Seq(Request)
    PROVE  Cardinality(ToSet(s)) <= Len(s)
<1>1. Len(s) \in Nat /\ s \in [1 .. Len(s) -> ToSet(s)] /\ s \in Surjection(1 .. Len(s), ToSet(s))
  BY InToSet DEF Surjection
<1>2. IsFiniteSet(1 .. Len(s)) /\ Cardinality(1 .. Len(s)) = Len(s)
  BY <1>1, FS_Interval
<1> QED
  BY <1>1, <1>2, FS_Surjection

\* With a place in the running list free and a request of the batch waiting, the others that
\* run are fewer than may run and fewer than the batch has.
LEMMA FewerRun ==
    ASSUME IInv, Collected, Served, stage = "rollout", pc = "admit", MayAdmit(Len(admitted))
    PROVE  /\ Cardinality(Running) \in Nat
           /\ Cardinality(Running) + 1 <= RunLimit
           /\ Cardinality(Running) + 1 <= NSeq
           /\ Head(waiting) \in Request /\ Head(waiting) \notin Running
           /\ state[Head(waiting)] = "waiting"
<1> DEFINE w == Head(waiting)
<1>1. /\ TypeOK /\ Queued /\ waiting \in Seq(Request) /\ running \in Seq(Request)
      /\ waiting # << >> /\ Len(running) # MaxRunning
  BY DEF IInv, InCall, TypeOK, SchedTypeOK, MayAdmit
<1>2. w \in ToSet(waiting) /\ w \in Request /\ state[w] = "waiting" /\ w \notin Running
  <2>1. w \in ToSet(waiting) /\ w \in Request
    BY <1>1, TailQueue DEF Queued
  <2> QED
    BY <1>1, <2>1 DEF Queued
<1> HIDE DEF w
<1>3. IsFiniteSet(Running) /\ Cardinality(Running) \in Nat /\ Running \subseteq Request
  BY <1>1, Members, FS_CardinalityType
<1>4. Cardinality(Running) + 1 <= RunLimit
  <2>1. Cardinality(Running) <= Len(running) /\ Len(running) \in Nat
    BY <1>1, FewerThanListed DEF Running
  <2>2. Len(running) <= RunLimit /\ Len(running) # RunLimit /\ RunLimit \in Nat
    BY <1>1, TrainerAssumption DEF Queued, NoLimit
  <2> QED
    BY <1>3, <2>1, <2>2
<1>5. first \in Nat /\ next_id \in Nat /\ next_id - first <= NSeq /\ NSeq \in Nat
  BY <1>1, NSeqPositive DEF TypeOK, Collected
<1>6. Running \cup {w} \subseteq Reqs
  <2>1. ASSUME NEW r \in Request, state[r] \in {"waiting", "running"}
        PROVE  r \in Reqs
    <3>1. r \in Int /\ r >= first /\ ~(r >= next_id)
      BY <1>1, <2>1, SchedulerAssumption DEF Served, Queued, Request
    <3> QED
      BY <1>5, <3>1 DEF Reqs
  <2> QED
    BY <1>1, <1>2, <1>3, <2>1 DEF Queued
<1>7. IsFiniteSet(Reqs) /\ (Cardinality(Reqs) <= NSeq \/ Reqs = {})
  <2>1. first \in Int /\ next_id - 1 \in Int
    BY <1>5
  <2>2. /\ IsFiniteSet(Reqs)
        /\ Cardinality(Reqs) = IF first > next_id - 1 THEN 0 ELSE ((next_id - 1) - first) + 1
    BY <2>1, FS_Interval DEF Reqs
  <2> QED
    BY <1>5, <2>1, <2>2
<1>8. /\ Cardinality(Running \cup {w}) = Cardinality(Running) + 1
      /\ Cardinality(Running \cup {w}) <= Cardinality(Reqs)
  BY <1>2, <1>3, <1>6, <1>7, FS_AddElement, FS_Subset
<1> QED
  BY <1>2, <1>3, <1>4, <1>5, <1>6, <1>7, <1>8, FS_CardinalityType DEF w

\* R clients with shares of at most B.
LEMMA SharesBounded ==
    ASSUME NEW S \in SUBSET Request, NEW f, NEW B \in Nat, \A r \in S : f[r] \in Nat /\ f[r] <= B
    PROVE  Cardinality(Pairs(S, f)) <= Cardinality(S) * B
<1>1. IsFiniteSet(S) /\ Cardinality(S) \in Nat
  BY IdFinite, FS_Subset, FS_CardinalityType
<1> DEFINE g == [r \in S |-> B]
<1>2. \A r \in S : f[r] \in Nat /\ g[r] \in Nat /\ f[r] <= g[r]
  OBVIOUS
<1>3. Pairs(S, g) = S \X (1 .. B)
  <2>1. \A p : p \in Pairs(S, g) <=> \E r \in S : \E i \in 1 .. B : p = <<r, i>>
    BY PairsMember
  <2> QED
    BY <2>1
<1> HIDE DEF g
<1>4. Cardinality(Pairs(S, f)) <= Cardinality(Pairs(S, g))
  BY <1>1, <1>2, PairsMonotone
<1>5. IsFiniteSet(1 .. B) /\ Cardinality(1 .. B) = B
  BY FS_Interval
<1>6. Cardinality(S \X (1 .. B)) = Cardinality(S) * Cardinality(1 .. B)
  BY <1>1, <1>5, FS_Product
<1> QED
  BY <1>3, <1>4, <1>5, <1>6

\* In a pool of at least the blocks main computes for --kv-blocks 0 (grpo.py:261-264), with
\* the one max_tokens main asks for, a rollout never waits for blocks: whenever there is a
\* place in the running list and a request in the queue, the headroom has its blocks.
THEOREM PoolSuffices ==
    ASSUME NumBlocks >= MainBlocks, \A m, n \in MaxTokens : m = n
    PROVE  TrainerSpec => []PoolNeverWaits
<1> DEFINE c == CHOOSE m \in MaxTokens : TRUE
           n == MaxPrompt + c + NumDraft + 2
           B == BlocksFor(n)
           M == IF NSeq < RunLimit THEN NSeq ELSE RunLimit
<1>1. c \in MaxTokens /\ c \in Nat /\ \A m \in MaxTokens : m = c
  BY TrainerAssumption
<1>2. n \in Nat /\ MaxPrompt \in Nat /\ NumDraft \in Nat
  BY <1>1, SlotsType, TrainerAssumption
<1>3. B \in Nat
  BY <1>2, BlocksForCeiling
<1>4. M \in Nat /\ MainBlocks = M * B + 2 /\ M * B \in Nat
  <2>1. M \in Nat
    BY NSeqPositive, TrainerAssumption
  <2>2. MainBlocks = M * B + 2
    BY DEF MainBlocks
  <2>3. \A x, y \in Nat : x * y \in Nat
    BY SMT
  <2> HIDE DEF M, B
  <2> QED
    BY <1>3, <2>1, <2>2, <2>3
<1> HIDE DEF c
<1>5. ASSUME IInv, Collected, Served PROVE PoolNeverWaits
  <2> SUFFICES ASSUME stage = "rollout", pc = "admit", MayAdmit(Len(admitted))
               PROVE  MaxBlocks(Head(waiting)) <= headroom
    BY DEF PoolNeverWaits
  <2>1. TypeOK /\ Queued /\ Counted /\ Budgeted
    BY <1>5 DEF IInv, InCall
  <2>2. ASSUME NEW r \in Request, state[r] # "new" PROVE MaxBlocks(r) <= B
    <3>1. prompt[r] \in 1 .. MaxPrompt /\ max_tokens[r] = c
      BY <1>1, <1>5, <2>1, <2>2, TrainerAssumption DEF Served, Counted, CountedFor
    <3> DEFINE m == prompt[r] + max_tokens[r] + Spare
    <3>2. m \in Nat /\ m <= n
      BY SMTT(30), <1>1, <1>2, <3>1, EngineAssumption
    <3>3. BlocksFor(m) <= BlocksFor(n)
      <4> HIDE DEF m, n
      <4> QED
        BY <1>2, <3>2, BlocksForMonotone
    <3> QED
      BY <3>3 DEF MaxBlocks
  <2> HIDE DEF n, B, M
  <2> DEFINE R == Cardinality(Running)
  <2>3. /\ R \in Nat /\ R + 1 <= M
        /\ Head(waiting) \in Request /\ state[Head(waiting)] # "new"
    BY <1>5, FewerRun, TrainerAssumption, NSeqPositive DEF M
  <2>4. Running \in SUBSET Request /\ \A r \in Running : state[r] # "new"
    BY <2>1, Members DEF Queued
  <2>5. \A r \in Running : Promises[r] \in Nat /\ Promises[r] <= B
    BY <2>1, <2>2, <2>4, PromisesType DEF TypeOK
  <2>6. Cardinality(Pairs(Running, Promises)) <= R * B
    BY <1>3, <2>4, <2>5, SharesBounded
  <2>7. headroom = Usable - Cardinality(Pairs(Running, Promises))
        /\ Cardinality(Pairs(Running, Promises)) \in Nat
    BY <2>1, <2>4, PromisesFinite DEF Budgeted
  <2>8. Usable \in Int /\ Usable >= NumBlocks - 1
    BY PoolAssumption DEF Usable
  <2> DEFINE p == Cardinality(Pairs(Running, Promises))
  <2> HIDE DEF R, p
  <2>9. R * B + B <= M * B
    <3>1. \A x, y, b \in Nat : x + 1 <= y => x * b + b <= y * b
      <4>1. ASSUME NEW x \in Nat, NEW y \in Nat, NEW b \in Nat, x + 1 <= y
            PROVE  x * b + b <= y * b
        <5>1. PICK d \in Nat : y = x + 1 + d
          <6>1. y - (x + 1) \in Nat /\ y = x + 1 + (y - (x + 1))
            BY <4>1
          <6> QED
            BY <6>1
        <5>2. y * b = x * b + b + d * b /\ d * b \in Nat /\ x * b \in Nat
          BY <5>1
        <5> QED
          BY <5>2
      <4> QED
        BY <4>1
    <3> QED
      BY <1>3, <1>4, <2>3, <3>1
  <2>10. R * B \in Nat
    BY <1>3, <2>3
  <2>11. B <= headroom
    <3>1. PICK x \in Nat : x = R * B
      BY <2>10
    <3>2. PICK y \in Nat : y = M * B
      BY <1>4
    <3>3. p \in Nat /\ p <= x /\ x + B <= y /\ NumBlocks >= y + 2 /\ headroom = Usable - p
      BY <1>4, <2>6, <2>7, <2>9, <3>1, <3>2 DEF p
    <3> QED
      BY <1>3, <2>8, <3>3, PoolAssumption
  <2>12. MaxBlocks(Head(waiting)) <= B /\ MaxBlocks(Head(waiting)) \in Nat
    BY <2>1, <2>2, <2>3, PromisesType DEF TypeOK
  <2>13. headroom \in Int
    BY <2>1 DEF TypeOK
  <2> QED
    BY <1>3, <2>11, <2>12, <2>13
<1>6. TrainerInit => Served
  BY DEF TrainerInit, Init, SchedInit, Served
<1>7. IInv /\ Served /\ Collected /\ Quiet /\ [TrainerNext]_tvars => Served'
  BY ServedKept
<1>8. IInv /\ Collected /\ Served => PoolNeverWaits
  BY <1>5
<1> QED
  BY <1>6, <1>7, <1>8, TrainerInvariant, PTL DEF TrainerSpec
=============================================================================
