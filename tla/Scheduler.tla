----------------------------- MODULE Scheduler -----------------------------
(***************************************************************************)
(* The request lifecycle of sched/scheduler.py over the block pool: the    *)
(* waiting deque, the running list, the fields of a Request the scheduler  *)
(* and the engine decide on, and the operations next_batch is made of.     *)
(* Token lists are counted: prompt and out are len(prompt_ids) and         *)
(* len(out_tokens), because no decision here reads a token.                *)
(***************************************************************************)
EXTENDS BlockAllocator, SequencesExt

CONSTANTS
    MaxRequests,  \* bound: ids handed out (Engine._next_id starts at 0)
    MaxAdmit,     \* max_admit
    MaxRunning,   \* max_running, or NoLimit
    Spare         \* spare: slots a step may reserve past prompt + max_tokens

Request == 0 .. (MaxRequests - 1)
Pad     == -1       \* the id the graph runner's pad block is allocated to
NoLimit == -1       \* max_running=None
NoTree  == 0        \* req.tree is None; otherwise tree[r] is the number of its nodes

ASSUME SchedulerAssumption == /\ MaxRequests \in Nat /\ MaxAdmit \in Nat /\ Spare \in Nat
                              /\ MaxRunning \in Nat \cup {NoLimit}
                              /\ Id = Request \cup {Pad}

VARIABLES
    waiting,      \* the deque, head first
    running,      \* the list, in admission order
    state,        \* "new" before Engine.add, then waiting | running | done
    prompt,       \* len(prompt_ids)
    out,          \* len(out_tokens)
    max_tokens,   \* params.max_tokens
    committed,    \* KV positions written
    tree          \* NoTree, or the number of nodes of req.tree

request == <<state, prompt, out, max_tokens, committed, tree>>
sched   == <<waiting, running, request>>

State == {"new", "waiting", "running", "done"}

SchedTypeOK == /\ waiting \in Seq(Request)
               /\ running \in Seq(Request)
               /\ state      \in [Request -> State]
               /\ prompt     \in [Request -> Nat]
               /\ out        \in [Request -> Nat]
               /\ max_tokens \in [Request -> Nat]
               /\ committed  \in [Request -> Nat]
               /\ tree       \in [Request -> Nat]

SchedInit == /\ waiting = << >>
             /\ running = << >>
             /\ state = [r \in Request |-> "new"]
             /\ prompt = [r \in Request |-> 0]
             /\ out = [r \in Request |-> 0]
             /\ max_tokens = [r \in Request |-> 0]
             /\ committed = [r \in Request |-> 0]
             /\ tree = [r \in Request |-> NoTree]

HasWork == waiting # << >> \/ running # << >>

----------------------------------------------------------------------------
\* Slip: speculation's extra slots not budgeted.
MaxBlocksNoSpare(r) == BlocksFor(prompt[r] + max_tokens[r])

\* Blocks r can ever need.
MaxBlocks(r) == BlocksFor(prompt[r] + max_tokens[r] + Spare)

\* One pair per block promised to, and per block held by, a request of S.
Promised(S) == UNION {{r} \X (1 .. MaxBlocks(r)) : r \in S}
Held(S)     == UNION {{r} \X (1 .. Len(blocks[r])) : r \in S}

\* Slip: free blocks running requests still have to claim counted as headroom.
HeadroomNow == NumFree

\* Slip: counted from the size of the pool, the pad block with it.
HeadroomOfPool == NumBlocks - Cardinality(Promised(ToSet(running)))

\* num_free - sum(_max_blocks(r) - len(r.table.blocks) for r in running)
Headroom == LET S == ToSet(running) IN
            NumFree - (Cardinality(Promised(S)) - Cardinality(Held(S)))

\* The while condition of next_batch, after n admissions.
MayAdmit(n) == waiting # << >> /\ n < MaxAdmit /\ Len(running) # MaxRunning

\* The list without r, which it holds once.
Without(s, r) == RemoveAt(s, CHOOSE i \in DOMAIN s : s[i] = r)

\* Slip: a new request put before the queue.
AddAtHead(r, n, m) ==
    /\ state' = [state EXCEPT ![r] = "waiting"]
    /\ prompt' = [prompt EXCEPT ![r] = n]
    /\ max_tokens' = [max_tokens EXCEPT ![r] = m]
    /\ waiting' = <<r>> \o waiting
    /\ UNCHANGED <<running, out, committed, tree>>

\* add(req), for a request of n prompt tokens that may emit m.
AddRequest(r, n, m) ==
    /\ state' = [state EXCEPT ![r] = "waiting"]
    /\ prompt' = [prompt EXCEPT ![r] = n]
    /\ max_tokens' = [max_tokens EXCEPT ![r] = m]
    /\ waiting' = Append(waiting, r)
    /\ UNCHANGED <<running, out, committed, tree>>

\* The body of the admission loop for the head of the queue, its table allocated.
AdmitRequest(r) ==
    /\ waiting' = Tail(waiting)
    /\ Alloc(r, prompt[r])
    /\ state' = [state EXCEPT ![r] = "running"]
    /\ running' = Append(running, r)
    /\ UNCHANGED <<prompt, out, max_tokens, committed, tree>>

\* Slip: a finished request left in the running list.
FinishStaysListed(r) ==
    /\ UNCHANGED running
    /\ FreeTable(r)
    /\ state' = [state EXCEPT ![r] = "done"]

\* Slip: the blocks of a finished request leaked.
FinishKeepsTable(r) ==
    /\ running' = Without(running, r)
    /\ UNCHANGED pool
    /\ state' = [state EXCEPT ![r] = "done"]

\* finish(req); the caller says what becomes of its tokens.
Finish(r) ==
    /\ running' = Without(running, r)
    /\ FreeTable(r)
    /\ state' = [state EXCEPT ![r] = "done"]

\* Slip: back to the end of the queue.
RestartAtBack(r) ==
    /\ running' = Without(running, r)
    /\ FreeTable(r)
    /\ prompt' = [prompt EXCEPT ![r] = @ + out[r]]
    /\ state' = [state EXCEPT ![r] = "waiting"]
    /\ committed' = [committed EXCEPT ![r] = 0]
    /\ tree' = [tree EXCEPT ![r] = NoTree]
    /\ waiting' = Append(waiting, r)
    /\ UNCHANGED <<out, max_tokens>>

\* Slip: committed not reset.
RestartKeepsCommitted(r) ==
    /\ running' = Without(running, r)
    /\ FreeTable(r)
    /\ prompt' = [prompt EXCEPT ![r] = @ + out[r]]
    /\ state' = [state EXCEPT ![r] = "waiting"]
    /\ tree' = [tree EXCEPT ![r] = NoTree]
    /\ waiting' = <<r>> \o waiting
    /\ UNCHANGED <<out, max_tokens, committed>>

\* restart(req): finish, then back to the head of the queue with prompt + output as prompt.
Restart(r) ==
    /\ running' = Without(running, r)
    /\ FreeTable(r)
    /\ prompt' = [prompt EXCEPT ![r] = @ + out[r]]
    /\ state' = [state EXCEPT ![r] = "waiting"]
    /\ committed' = [committed EXCEPT ![r] = 0]
    /\ tree' = [tree EXCEPT ![r] = NoTree]
    /\ waiting' = <<r>> \o waiting
    /\ UNCHANGED <<out, max_tokens>>
=============================================================================
