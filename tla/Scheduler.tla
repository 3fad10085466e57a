----------------------------- MODULE Scheduler -----------------------------
(***************************************************************************)
(* The engine core: Scheduler with its admission policy and the chunked    *)
(* prefill helper, driven by InferenceEngine.run_step through the worker   *)
(* and its model runner.  A step is schedule, execute_model and            *)
(* update_from_output; each iteration of a loop inside them is an action   *)
(* and pc says where the step is.  The engine is single-threaded: requests *)
(* are added, and the engine reset, between steps only.                    *)
(*                                                                         *)
(* The KV cache is seen through its callbacks: an allocation finds a       *)
(* cached prefix that ends at a block boundary, or fails; with nothing     *)
(* running every block is free, so it then finds no prefix and succeeds.   *)
(***************************************************************************)
EXTENDS Integers, Sequences, FiniteSets, Functions

CONSTANTS
    Requests,               \* request identifiers
    PromptLength,           \* Request.prompt_length
    MaxNewTokens,           \* Request.max_new_tokens
    Priority,               \* Request.priority, lower is more urgent
    MaxNumScheduledTokens,  \* token budget of one step
    ChunkedPrefill,         \* whether prompts are computed in chunks
    PrefillChunkSize,       \* tokens of a chunk
    MemoryBudget,           \* MemoryBudgetPolicy.memory_budget
    MaxNumSeqs,             \* PriorityPolicy.max_num_seqs
    MaxPerPriority,         \* PriorityPolicy.max_per_priority
    BlockSize               \* tokens per KV block

ASSUME RequestsAssumption == IsFiniteSet(Requests)
ASSUME ShapesAssumption ==
    /\ PromptLength \in [Requests -> Nat]
    /\ MaxNewTokens \in [Requests -> Nat]
    /\ Priority \in [Requests -> Int]
ASSUME BudgetAssumption == MaxNumScheduledTokens \in Nat \ {0}
ASSUME ChunkAssumption == ChunkedPrefill \in BOOLEAN /\ PrefillChunkSize \in Nat \ {0}
ASSUME PolicyAssumption ==
    MemoryBudget \in Nat /\ MaxNumSeqs \in Nat /\ MaxPerPriority \in Nat
ASSUME BlockSizeAssumption == BlockSize \in Nat \ {0}

VARIABLES
    (* The scheduler's queues, and its requests. *)
    waiting,          \* waiting_queue
    running,          \* running_queue, in the order of admission
    finished,         \* finished_queue
    status,           \* Request.status, "absent" for an id not in _requests
    cached,           \* Request.cached_prompt_tokens
    computed,         \* Request.num_computed_tokens
    generated,        \* the length of Request.output_token_ids
    sent,             \* requests with has_been_scheduled
    finished_since,   \* _finished_since_last_schedule
    (* The admission policy and the chunk helper. *)
    current_memory,   \* MemoryBudgetPolicy._current_memory
    total_running,    \* PriorityPolicy._total_running
    priority_counts,  \* PriorityPolicy._priority_counts
    tracked,          \* the keys of ChunkedPrefillHelper._progress
    processed,        \* PrefillChunkInfo.processed_tokens
    (* The model runner. *)
    runner_cache,     \* the keys of ModelRunner._request_cache
    (* The step in progress. *)
    pc,               \* "idle" between steps
    skipped,          \* waiting requests passed over for want of KV blocks
    cursor,           \* position in running of the next request to schedule
    budget,           \* tokens of the step not given out yet
    scheduled,        \* scheduled_request_ids, while updating those left
    tokens,           \* num_scheduled_tokens, 0 for a request not scheduled
    finished_ids,     \* SchedulerOutput.finished_request_ids
    sampled           \* requests the runner sampled a token for

queues == <<waiting, running, finished>>
requests == <<status, cached, computed, generated, sent>>
policy == <<current_memory, total_running, priority_counts>>
helper == <<tracked, processed>>
output == <<scheduled, tokens, finished_ids>>
vars == <<waiting, running, finished, status, cached, computed, generated, sent,
          finished_since, current_memory, total_running, priority_counts, tracked,
          processed, runner_cache, pc, skipped, cursor, budget, scheduled, tokens,
          finished_ids, sampled>>

Priorities == Range(Priority)
Steps == {"idle", "admitting", "selecting", "executing", "updating"}

-----------------------------------------------------------------------------
(* Requests. *)

Smaller(m, n) == IF m <= n THEN m ELSE n
Larger(m, n) == IF m >= n THEN m ELSE n

(* Request.estimated_kv_size *)
EstimatedKvSize(r) == PromptLength[r] + MaxNewTokens[r]

(* Request.remaining_prefill_tokens *)
RemainingPrefill(r) == Larger(0, PromptLength[r] - Larger(cached[r], computed[r]))

(* Request.is_finished with n tokens generated. *)
FaultyIsFinishedWith(r, n) == n > MaxNewTokens[r]
IsFinishedWith(r, n) == n >= MaxNewTokens[r]

(* Scheduler.is_done *)
IsDone == waiting = <<>> /\ running = <<>>

(* Lengths of a cached prefix of r's prompt: find_longest_prefix scans block *)
(* boundaries only, and an entry is usable while some request holds it.      *)
CachedLengths(r) ==
    {l \in 0 .. PromptLength[r] : l % BlockSize = 0 /\ (l > 0 => running # <<>>)}

(* CompositePolicy of a MemoryBudgetPolicy and a PriorityPolicy; MaxSeqPolicy *)
(* is the latter with no limit per priority level.                            *)
FaultyCanAdmit(r) == current_memory <= MemoryBudget   \* r itself is not counted
CanAdmit(r) ==
    /\ current_memory + EstimatedKvSize(r) <= MemoryBudget
    /\ total_running < MaxNumSeqs
    /\ priority_counts[Priority[r]] < MaxPerPriority

-----------------------------------------------------------------------------
(* Choosing the tokens of a step. *)

Prefilling(r) == status[r] = "prefill" /\ RemainingPrefill(r) > 0

(* The tokens the scheduler would like to compute for r in this step. *)
DesiredTokens(r) ==
    IF ~Prefilling(r) THEN 1
    ELSE IF ChunkedPrefill THEN Smaller(RemainingPrefill(r), PrefillChunkSize)
    ELSE RemainingPrefill(r)

(* A whole prompt that no step can hold, and one this step cannot hold. *)
Whole(r) == ~ChunkedPrefill /\ status[r] = "prefill"
TooLarge(r) == Whole(r) /\ DesiredTokens(r) > MaxNumScheduledTokens
FaultyMustWait(r) == Whole(r) /\ ~TooLarge(r) /\ DesiredTokens(r) >= budget   \* off by one
MustWait(r) == Whole(r) /\ ~TooLarge(r) /\ DesiredTokens(r) > budget

Grant(r) == Smaller(DesiredTokens(r), budget)
BudgetAfter(r) == budget - Grant(r)

(* ModelInput.reaches_sampling_point *)
FaultyReachesSamplingPoint(r) == computed[r] + tokens[r] > PromptLength[r]
ReachesSamplingPoint(r) == computed[r] + tokens[r] >= PromptLength[r]

(* The prompt tokens among those just computed for r. *)
PrefillComputed(r) == Smaller(RemainingPrefill(r), tokens[r])

(* list.remove *)
RemoveAt(s, i) == SubSeq(s, 1, i - 1) \o SubSeq(s, i + 1, Len(s))
IndexOf(s, r) == CHOOSE i \in DOMAIN s : s[i] = r
FaultyWithout(s, r) == IF r \in Range(s) THEN Tail(s) ELSE s   \* the oldest goes
Without(s, r) == IF r \in Range(s) THEN RemoveAt(s, IndexOf(s, r)) ELSE s
-----------------------------------------------------------------------------
Idle ==
    /\ pc = "idle"
    /\ skipped = <<>>
    /\ cursor = 0
    /\ budget = 0
    /\ scheduled = <<>>
    /\ tokens = [r \in Requests |-> 0]
    /\ finished_ids = {}
    /\ sampled = {}

(* The locals of the step go out of scope. *)
StepEnds ==
    /\ pc' = "idle"
    /\ skipped' = <<>>
    /\ cursor' = 0
    /\ budget' = 0
    /\ scheduled' = <<>>
    /\ tokens' = [r \in Requests |-> 0]
    /\ finished_ids' = {}
    /\ sampled' = {}

Init ==
    /\ waiting = <<>> /\ running = <<>> /\ finished = <<>>
    /\ status = [r \in Requests |-> "absent"]
    /\ cached = [r \in Requests |-> 0]
    /\ computed = [r \in Requests |-> 0]
    /\ generated = [r \in Requests |-> 0]
    /\ sent = {}
    /\ finished_since = {}
    /\ current_memory = 0
    /\ total_running = 0
    /\ priority_counts = [p \in Priorities |-> 0]
    /\ tracked = {}
    /\ processed = [r \in Requests |-> 0]
    /\ runner_cache = {}
    /\ Idle

(* Scheduler.add_request; ids are handed out in some order, without check of *)
(* the request's size.                                                       *)
AddRequest(r) ==
    /\ pc = "idle"
    /\ status[r] = "absent"
    /\ status' = [status EXCEPT ![r] = "waiting"]
    /\ waiting' = Append(waiting, r)
    /\ UNCHANGED <<running, finished, cached, computed, generated, sent, finished_since,
                   policy, helper, runner_cache, pc, skipped, cursor, budget, output,
                   sampled>>

(* run_step: schedule takes the ids finished since the last step. *)
BeginStep ==
    /\ pc = "idle"
    /\ pc' = "admitting"
    /\ finished_ids' = finished_since
    /\ finished_since' = {}
    /\ UNCHANGED <<queues, requests, policy, helper, runner_cache, skipped, cursor,
                   budget, scheduled, tokens, sampled>>

(* _admit_new_requests: the policy and the KV cache take the next waiting    *)
(* request, l tokens of whose prompt are cached.                             *)
AdmitRequest(r, l) ==
    /\ pc = "admitting"
    /\ waiting # <<>> /\ r = Head(waiting)
    /\ CanAdmit(r)
    /\ l \in CachedLengths(r)
    /\ waiting' = Tail(waiting)
    /\ running' = Append(running, r)
    /\ status' = [status EXCEPT ![r] = "prefill"]
    /\ cached' = [cached EXCEPT ![r] = l]
    /\ computed' = [computed EXCEPT ![r] = l]
    /\ current_memory' = current_memory + EstimatedKvSize(r)
    /\ total_running' = total_running + 1
    /\ priority_counts' = [priority_counts EXCEPT ![Priority[r]] = @ + 1]
    /\ tracked' = IF ChunkedPrefill THEN tracked \cup {r} ELSE tracked
    /\ UNCHANGED <<finished, generated, sent, finished_since, processed, runner_cache,
                   pc, skipped, cursor, budget, output, sampled>>

(* The policy agrees but the KV cache has no blocks: the scan goes on. *)
SkipRequest(r) ==
    /\ pc = "admitting"
    /\ waiting # <<>> /\ r = Head(waiting)
    /\ CanAdmit(r)
    /\ running # <<>>
    /\ waiting' = Tail(waiting)
    /\ skipped' = Append(skipped, r)
    /\ UNCHANGED <<running, finished, requests, finished_since, policy, helper,
                   runner_cache, pc, cursor, budget, output, sampled>>

(* The queue is exhausted, or the policy refuses its next request: the scan  *)
(* stops, and what was not admitted keeps its place.                         *)
FaultyBackToWaiting == waiting   \* the requests passed over are dropped
BackToWaiting == skipped \o waiting

EndAdmission ==
    /\ pc = "admitting"
    /\ waiting # <<>> => ~CanAdmit(Head(waiting))
    /\ pc' = "selecting"
    /\ waiting' = BackToWaiting
    /\ skipped' = <<>>
    /\ cursor' = 1
    /\ budget' = MaxNumScheduledTokens
    /\ UNCHANGED <<running, finished, requests, finished_since, policy, helper,
                   runner_cache, output, sampled>>

(* _select_scheduled_requests visits the running requests, those admitted in *)
(* this step last: the order of running.                                     *)
Selecting(r) ==
    /\ pc = "selecting"
    /\ budget > 0
    /\ cursor \in DOMAIN running
    /\ r = running[cursor]

SelectRequest(r) ==
    /\ Selecting(r)
    /\ ~TooLarge(r) /\ ~MustWait(r)
    /\ scheduled' = Append(scheduled, r)
    /\ tokens' = [tokens EXCEPT ![r] = Grant(r)]
    /\ budget' = BudgetAfter(r)
    /\ cursor' = cursor + 1
    /\ UNCHANGED <<queues, requests, finished_since, policy, helper, runner_cache, pc,
                   skipped, finished_ids, sampled>>

PassOver(r) ==
    /\ Selecting(r)
    /\ MustWait(r)
    /\ cursor' = cursor + 1
    /\ UNCHANGED <<queues, requests, finished_since, policy, helper, runner_cache, pc,
                   skipped, budget, output, sampled>>

(* The ValueError leaves schedule and run_step: the step ends here, with the *)
(* admissions made and the finished ids taken.                               *)
SelectRaises(r) ==
    /\ Selecting(r)
    /\ TooLarge(r)
    /\ StepEnds
    /\ UNCHANGED <<queues, requests, finished_since, policy, helper, runner_cache>>

(* schedule returns its output; new requests are sent in full, once. *)
EndSelection ==
    /\ pc = "selecting"
    /\ budget = 0 \/ cursor \notin DOMAIN running
    /\ pc' = "executing"
    /\ sent' = sent \cup Range(scheduled)
    /\ UNCHANGED <<queues, status, cached, computed, generated, finished_since, policy,
                   helper, runner_cache, skipped, cursor, budget, output, sampled>>

(* ModelRunner.execute_model: the request cache takes the scheduled requests *)
(* and drops the finished ones, and a token is sampled for every request     *)
(* whose computed tokens reach the end of its prompt.                        *)
FaultyRunnerCacheAfterStep == runner_cache \cup Range(scheduled)
RunnerCacheAfterStep == (runner_cache \cup Range(scheduled)) \ finished_ids

ExecuteModel ==
    /\ pc = "executing"
    /\ pc' = "updating"
    /\ runner_cache' = RunnerCacheAfterStep
    /\ sampled' = {r \in Range(scheduled) : ReachesSamplingPoint(r)}
    /\ UNCHANGED <<queues, requests, finished_since, policy, helper, skipped, cursor,
                   budget, output>>

(* update_from_output, the part common to every request: the computed tokens *)
(* are added up, the chunk helper is told of the prompt tokens among them,   *)
(* and n is the number of output tokens with the one sampled.                *)
TotalPrefill(r) == PromptLength[r] - cached[r]

FaultyProcessedAfter(r) ==   \* a chunk the budget clipped counted as a whole one
    IF ChunkedPrefill /\ PrefillComputed(r) > 0
    THEN Smaller(TotalPrefill(r), processed[r] + PrefillChunkSize)
    ELSE processed[r]

ProcessedAfter(r) ==
    IF ChunkedPrefill /\ PrefillComputed(r) > 0
    THEN Smaller(TotalPrefill(r), processed[r] + PrefillComputed(r))
    ELSE processed[r]

GeneratedAfter(r) == IF r \in sampled THEN generated[r] + 1 ELSE generated[r]

Updating(r) ==
    /\ pc = "updating"
    /\ scheduled # <<>> /\ r = Head(scheduled)
    /\ scheduled' = Tail(scheduled)
    /\ computed' = [computed EXCEPT ![r] = @ + tokens[r]]
    /\ generated' = [generated EXCEPT ![r] = GeneratedAfter(r)]
    /\ UNCHANGED <<waiting, cached, sent, runner_cache, pc, skipped, cursor, budget,
                   tokens, finished_ids, sampled>>

UpdateUnfinished(r) ==
    /\ Updating(r)
    /\ ~IsFinishedWith(r, GeneratedAfter(r))
    /\ status' = IF r \in sampled THEN [status EXCEPT ![r] = "decode"] ELSE status
    /\ processed' = [processed EXCEPT ![r] = ProcessedAfter(r)]
    /\ UNCHANGED <<running, finished, finished_since, policy, tracked>>

(* _finish_request *)
FaultyMemoryAfter(r) == Larger(0, current_memory - PromptLength[r])   \* not the output
MemoryAfter(r) == Larger(0, current_memory - EstimatedKvSize(r))

FinishRequest(r) ==
    /\ status' = [status EXCEPT ![r] = "finished"]
    /\ running' = Without(running, r)
    /\ finished' = IF r \in Range(finished) THEN finished ELSE Append(finished, r)
    /\ current_memory' = MemoryAfter(r)
    /\ total_running' = Larger(0, total_running - 1)
    /\ priority_counts' = [priority_counts EXCEPT ![Priority[r]] = Larger(0, @ - 1)]
    /\ finished_since' = finished_since \cup {r}
    /\ tracked' = tracked \ {r}
    /\ processed' = [processed EXCEPT ![r] = 0]

UpdateFinished(r) ==
    /\ Updating(r)
    /\ IsFinishedWith(r, GeneratedAfter(r))
    /\ FinishRequest(r)

EndUpdate ==
    /\ pc = "updating"
    /\ scheduled = <<>>
    /\ StepEnds
    /\ UNCHANGED <<queues, requests, finished_since, policy, helper, runner_cache>>

(* InferenceEngine.reset *)
Reset ==
    /\ pc = "idle"
    /\ waiting' = <<>> /\ running' = <<>> /\ finished' = <<>>
    /\ status' = [r \in Requests |-> "absent"]
    /\ cached' = [r \in Requests |-> 0]
    /\ computed' = [r \in Requests |-> 0]
    /\ generated' = [r \in Requests |-> 0]
    /\ sent' = {}
    /\ finished_since' = {}
    /\ current_memory' = 0
    /\ total_running' = 0
    /\ priority_counts' = [p \in Priorities |-> 0]
    /\ tracked' = {}
    /\ processed' = [r \in Requests |-> 0]
    /\ runner_cache' = {}
    /\ UNCHANGED <<pc, skipped, cursor, budget, output, sampled>>

(* What follows once a step has begun; nothing interrupts it. *)
Advance ==
    \/ \E r \in Requests : \E l \in 0 .. PromptLength[r] : AdmitRequest(r, l)
    \/ \E r \in Requests : SkipRequest(r)
    \/ EndAdmission
    \/ \E r \in Requests : SelectRequest(r) \/ PassOver(r) \/ SelectRaises(r)
    \/ EndSelection
    \/ ExecuteModel
    \/ \E r \in Requests : UpdateUnfinished(r) \/ UpdateFinished(r)
    \/ EndUpdate

Next ==
    \/ \E r \in Requests : AddRequest(r)
    \/ BeginStep
    \/ Advance
    \/ Reset

(* InferenceEngine.run steps while there is work, and a step runs to its end. *)
Fairness ==
    /\ WF_vars(BeginStep /\ ~IsDone)
    /\ WF_vars(Advance)

Spec == Init /\ [][Next]_vars /\ Fairness

-----------------------------------------------------------------------------
(* Type correctness. *)

TypeOK ==
    /\ waiting \in Seq(Requests)
    /\ running \in Seq(Requests)
    /\ finished \in Seq(Requests)
    /\ status \in [Requests -> {"absent", "waiting", "prefill", "decode", "finished"}]
    /\ cached \in [Requests -> Nat]
    /\ computed \in [Requests -> Nat]
    /\ generated \in [Requests -> Nat]
    /\ sent \subseteq Requests
    /\ finished_since \subseteq Requests
    /\ current_memory \in Nat
    /\ total_running \in Nat
    /\ priority_counts \in [Priorities -> Nat]
    /\ tracked \subseteq Requests
    /\ processed \in [Requests -> Nat]
    /\ runner_cache \subseteq Requests
    /\ pc \in Steps
    /\ skipped \in Seq(Requests)
    /\ cursor \in Nat
    /\ budget \in Nat
    /\ scheduled \in Seq(Requests)
    /\ tokens \in [Requests -> Nat]
    /\ finished_ids \subseteq Requests
    /\ sampled \subseteq Requests

(* Safety. *)

Absent == {r \in Requests : status[r] = "absent"}
Waiting == {r \in Requests : status[r] = "waiting"}
Running == {r \in Requests : status[r] \in {"prefill", "decode"}}
Finished == {r \in Requests : status[r] = "finished"}

(* Scheduler: the queues and the statuses tell the same story.  Every request *)
(* stands once in the queue its status names, so admission, the requests it   *)
(* passes over and removal on completion never lose or duplicate one.         *)
QueuesMatchStatus ==
    /\ IsInjective(skipped \o waiting) /\ Range(skipped \o waiting) = Waiting
    /\ IsInjective(running) /\ Range(running) = Running
    /\ IsInjective(finished) /\ Range(finished) = Finished

(* The policy objects keep their own books, updated by record_admission and   *)
(* record_completion only: the counts agree with the running queue, so what   *)
(* runs stays within the limits, in all and per priority level, and the       *)
(* clamps at zero never hide an imbalance.                                    *)
CountsMatchRunning ==
    /\ total_running = Len(running) /\ total_running <= MaxNumSeqs
    /\ \A p \in Priorities :
        /\ priority_counts[p] = Cardinality({r \in Running : Priority[r] = p})
        /\ priority_counts[p] <= MaxPerPriority

(* So does the memory: it is what the running requests were estimated to need *)
(* and stays within the budget.                                               *)
MemoryMatchesRunning ==
    /\ current_memory = SumFunctionOnSet([r \in Requests |-> EstimatedKvSize(r)], Running)
    /\ current_memory <= MemoryBudget

(* _select_scheduled_requests: the oldest running request is served in every  *)
(* step that is not abandoned, and with chunked prefill nobody overtakes.     *)
OldestServedFirst ==
    pc = "executing" =>
        /\ running # <<>> => scheduled # <<>> /\ Head(scheduled) = Head(running)
        /\ ChunkedPrefill => scheduled = SubSeq(running, 1, Len(scheduled))

CountsAgree(r) ==
    /\ status[r] \in {"absent", "waiting"} => computed[r] = 0 /\ generated[r] = 0
    /\ status[r] = "prefill" =>
           /\ generated[r] = 0
           /\ computed[r] < PromptLength[r] \/ computed[r] = cached[r]
    /\ status[r] = "decode" =>
           /\ 0 < generated[r] /\ generated[r] < MaxNewTokens[r]
           /\ computed[r] = PromptLength[r] + generated[r]
                                - (IF cached[r] = PromptLength[r] THEN 0 ELSE 1)

(* num_computed_tokens against output_token_ids: no token is sampled before   *)
(* the prompt is computed, and from then on every step of the request computes *)
(* one position and emits one token.  A prompt found whole in the cache is    *)
(* one position ahead, for its last token is computed again.                  *)
ComputedMatchesGenerated == \A r \in Requests : CountsAgree(r)

(* Without chunked prefill a prompt is computed in one step or not at all,    *)
(* also when the budget is short or a step is abandoned.                      *)
PromptsComputedWhole ==
    ~ChunkedPrefill => \A r \in Requests : status[r] = "prefill" => computed[r] = cached[r]

(* ChunkedPrefillHelper: progress is kept for the running requests only, and  *)
(* agrees with num_computed_tokens: is_complete exactly when no prompt token  *)
(* remains.                                                                   *)
ChunkProgressAgrees ==
    /\ ChunkedPrefill => tracked = Running
    /\ \A r \in tracked : processed[r] + RemainingPrefill(r) = TotalPrefill(r)

(* "finished_request_ids notifies the Worker to clean its request cache":     *)
(* between steps the model runner holds no request the scheduler is done with *)
(* unless its notice is still to come, and it knows every request it was sent. *)
RunnerCacheCurrent ==
    pc = "idle" =>
        /\ runner_cache \cap Finished \subseteq finished_since
        /\ Range(running) \cap sent \subseteq runner_cache

(* Liveness. *)

(* Every request that is added finishes, unless the engine is reset: whatever *)
(* the others do, it is not passed over forever.                              *)
EveryRequestFinishes ==
    \A r \in Requests :
        status[r] = "waiting" ~> status[r] \in {"finished", "absent"}

-----------------------------------------------------------------------------
(* Refinement: the queues, the policy and the steps keep the promise made to  *)
(* a request, tokens in sequence up to the number asked for, and the bound on *)
(* how many run.                                                              *)
Phase == [r \in Requests |-> IF status[r] \in {"prefill", "decode"} THEN "running"
                             ELSE status[r]]

Lifecycle == INSTANCE RequestLifecycle
    WITH phase <- Phase, emitted <- generated, Capacity <- MaxNumSeqs

RefinesRequestLifecycle == Lifecycle!Spec
=============================================================================
