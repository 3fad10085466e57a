----------------------------- MODULE EngineCore -----------------------------
(***************************************************************************)
(* InferenceEngine: the scheduler with the KV cache behind its callbacks.  *)
(* Scheduler sees the cache as an allocation that may succeed or fail;     *)
(* here the answers are those of KVCache, and every token the scheduler    *)
(* accepts is appended to the cache.  An action is an action of Scheduler, *)
(* joined by what it makes the cache do; the append of a sampled token is  *)
(* a step of its own, before the rest of the update.                       *)
(***************************************************************************)
EXTENDS Integers, Sequences, FiniteSets, Functions

CONSTANTS
    (* The requests and the configuration of the scheduler. *)
    Requests, Prompt, MaxNewTokens, Priority, MaxNumScheduledTokens, ChunkedPrefill,
    PrefillChunkSize, MemoryBudget, MaxNumSeqs, MaxPerPriority,
    (* The configuration of the cache. *)
    NumBlocks, BlockSize, EnablePrefixSharing, Generated

ASSUME RequestsAssumption == IsFiniteSet(Requests)
ASSUME PromptAssumption ==
    /\ DOMAIN Prompt = Requests
    /\ Range(Prompt) \subseteq Seq(UNION {Range(p) : p \in Range(Prompt)})
ASSUME ShapesAssumption == MaxNewTokens \in [Requests -> Nat] /\ Priority \in [Requests -> Int]
ASSUME SchedulerAssumption ==
    /\ MaxNumScheduledTokens \in Nat \ {0}
    /\ ChunkedPrefill \in BOOLEAN /\ PrefillChunkSize \in Nat \ {0}
    /\ MemoryBudget \in Nat /\ MaxNumSeqs \in Nat /\ MaxPerPriority \in Nat
ASSUME CacheAssumption ==
    NumBlocks \in Nat /\ BlockSize \in Nat \ {0} /\ EnablePrefixSharing \in BOOLEAN

VARIABLES
    (* Scheduler *)
    waiting, running, finished, status, cached, computed, generated, sent,
    finished_since, current_memory, total_running, priority_counts, tracked,
    processed, runner_cache, pc, skipped, cursor, budget, scheduled, tokens,
    finished_ids, sampled,
    (* KVCache *)
    free_list, state, ref_count, token_num, tabled, tables, cache, cached_tokens,
    live, content, prompt_of, stored, lapsed, misled,
    (* The update in progress. *)
    appended,   \* the token of the request being updated went to the cache
    (* History. *)
    dropped,    \* requests with a token the cache had no slot for
    filled      \* blocks whose prompt tokens the model has computed

PromptLengths == [r \in Requests |-> Len(Prompt[r])]

(* The most tokens the cache stores for r: the last one is stored too, and a *)
(* request for none gets one.                                                *)
TokensOf(r) == Len(Prompt[r]) + (IF MaxNewTokens[r] = 0 THEN 1 ELSE MaxNewTokens[r])

S == INSTANCE Scheduler WITH PromptLength <- PromptLengths
KV == INSTANCE KVCache
    WITH Prompts <- Range(Prompt),
         MaxTokens <- SumFunctionOnSet([r \in Requests |-> TokensOf(r)], Requests)

ASSUME GeneratedAssumption == Generated \notin KV!Keys

scheduler == <<waiting, running, finished, status, cached, computed, generated, sent,
               finished_since, current_memory, total_running, priority_counts, tracked,
               processed, runner_cache, pc, skipped, cursor, budget, scheduled, tokens,
               finished_ids, sampled>>
kv_cache == <<free_list, state, ref_count, token_num, tabled, tables, cache,
              cached_tokens, live, content, prompt_of, stored, lapsed, misled>>
own == <<appended, dropped, filled>>
vars == <<scheduler, kv_cache, own>>

-----------------------------------------------------------------------------
Init ==
    /\ S!Init
    /\ KV!Init
    /\ appended = FALSE
    /\ dropped = {}
    /\ filled = {}

(* What the scheduler does without its cache. *)
AddRequest(r) == S!AddRequest(r) /\ UNCHANGED <<kv_cache, own>>
BeginStep == S!BeginStep /\ UNCHANGED <<kv_cache, own>>

Select ==
    /\ \/ S!EndAdmission
       \/ \E r \in Requests : S!SelectRequest(r) \/ S!PassOver(r) \/ S!SelectRaises(r)
       \/ S!EndSelection
    /\ UNCHANGED <<kv_cache, own>>

EndUpdate == S!EndUpdate /\ UNCHANGED <<kv_cache, own>>

(* kv_alloc_fn and kv_cached_tokens_fn: blocks for the whole prompt, l tokens *)
(* of which are found in the prefix cache.                                    *)
AdmitRequest(r, l) ==
    /\ S!AdmitRequest(r, l)
    /\ KV!AllocateBlocks(r, Prompt[r], l)
    /\ UNCHANGED own

(* kv_alloc_fn returns None. *)
SkipRequest(r, l) ==
    /\ S!SkipRequest(r)
    /\ KV!AllocateBlocksFails(r, Prompt[r], l)
    /\ UNCHANGED own

(* Blocks of r's prompt that were not found in the cache and that its first n *)
(* computed tokens fill.                                                      *)
FilledBy(r, n) ==
    {tables[r][i] : i \in {j \in DOMAIN tables[r] :
        /\ cached[r] < KV!EndOfBlock(j, Len(Prompt[r]))
        /\ KV!EndOfBlock(j, Len(Prompt[r])) <= n}}

ExecuteModel ==
    /\ S!ExecuteModel
    /\ filled' = filled \cup UNION {FilledBy(r, computed[r] + tokens[r]) : r \in Range(scheduled)}
    /\ UNCHANGED <<kv_cache, appended, dropped>>

(* kv_append_fn, called for the token sampled for the request the update has *)
(* come to.  Its None is not looked at.                                      *)
FaultyNeedsSlot(r) == r \in sampled /\ status[r] = "decode"   \* not for the first token
NeedsSlot(r) == r \in sampled

AppendToken(r) ==
    /\ pc = "updating"
    /\ scheduled # <<>> /\ r = Head(scheduled)
    /\ NeedsSlot(r) /\ ~appended
    /\ \/ (KV!AppendInPlace(r) \/ KV!AppendInNewBlock(r)) /\ dropped' = dropped
       \/ /\ KV!LastBlockFull(r) /\ free_list = <<>>
          /\ dropped' = dropped \cup {r}
          /\ UNCHANGED kv_cache
    /\ appended' = TRUE
    /\ UNCHANGED <<scheduler, filled>>

UpdateUnfinished(r) ==
    /\ S!UpdateUnfinished(r)
    /\ NeedsSlot(r) => appended
    /\ appended' = FALSE
    /\ UNCHANGED <<kv_cache, dropped, filled>>

(* kv_free_fn *)
FaultyReleaseBlocks(r) == UNCHANGED kv_cache   \* a finished request keeps its blocks
ReleaseBlocks(r) == KV!FreeRequest(r)

UpdateFinished(r) ==
    /\ S!UpdateFinished(r)
    /\ NeedsSlot(r) => appended
    /\ ReleaseBlocks(r)
    /\ appended' = FALSE
    /\ filled' = {b \in filled : state'[b] # "free"}
    /\ UNCHANGED dropped

(* InferenceEngine.reset *)
Reset ==
    /\ S!Reset
    /\ KV!Reset
    /\ dropped' = {}
    /\ filled' = {}
    /\ UNCHANGED appended

Advance ==
    \/ \E r \in Requests : \E l \in 0 .. Len(Prompt[r]) : AdmitRequest(r, l) \/ SkipRequest(r, l)
    \/ Select
    \/ ExecuteModel
    \/ \E r \in Requests : AppendToken(r) \/ UpdateUnfinished(r) \/ UpdateFinished(r)
    \/ EndUpdate

Next ==
    \/ \E r \in Requests : AddRequest(r)
    \/ BeginStep
    \/ Advance
    \/ Reset

(* InferenceEngine.run steps while there is work, and a step runs to its end. *)
Fairness ==
    /\ WF_vars(BeginStep /\ ~S!IsDone)
    /\ WF_vars(Advance)

Spec == Init /\ [][Next]_vars /\ Fairness

-----------------------------------------------------------------------------
(* Type correctness. *)

TypeOK ==
    /\ S!TypeOK
    /\ KV!TypeOK
    /\ appended \in BOOLEAN
    /\ dropped \subseteq Requests
    /\ filled \subseteq KV!Blocks

(* Safety. *)

(* Scheduler._finish_request frees what _admit_new_requests allocated: the    *)
(* requests that hold blocks are the running ones, at every moment, so an     *)
(* engine that is done has every block back on the free list.                 *)
BlocksHeldByRunning ==
    /\ live = S!Running
    /\ S!IsDone => Range(free_list) = KV!Blocks

(* The cache keeps the promises Scheduler makes on its behalf: whenever the   *)
(* next waiting request may be admitted, a cached prefix ends at a block      *)
(* boundary and exists only while something runs, and with nothing running    *)
(* the allocation succeeds if the pool can hold the prompt at all.            *)
CallbacksAsAssumed ==
    pc = "admitting" /\ waiting # <<>> =>
        LET r == Head(waiting)
        IN \A l \in 0 .. Len(Prompt[r]) : KV!IsLongestHit(Prompt[r], l) =>
               /\ l \in S!CachedLengths(r)
               /\ running = <<>> /\ KV!BlocksFor(Len(Prompt[r])) <= NumBlocks =>
                      KV!BlocksFor(Len(Prompt[r]) - l) <= Len(free_list)

(* Slots the block table of r accounts for. *)
SlotsUsed(r) ==
    LET t == tables[r]
    IN IF t = <<>> THEN 0 ELSE (Len(t) - 1) * BlockSize + token_num[t[Len(t)]]

BeingUpdated(r) == pc = "updating" /\ scheduled # <<>> /\ r = Head(scheduled)

(* update_from_output and append_token: a running request has a slot for each *)
(* prompt token and each token it emitted, and no more than that many         *)
(* positions are computed, unless the pool once had no slot for a token of    *)
(* its, or a stale cache entry gave it another prompt's blocks.               *)
SlotsMatchProgress ==
    ~misled => \A r \in S!Running \ dropped :
        /\ SlotsUsed(r) = Len(Prompt[r]) + generated[r]
                              + (IF BeingUpdated(r) /\ appended THEN 1 ELSE 0)
        /\ computed[r] <= SlotsUsed(r)

(* Action properties. *)

(* Blocks r may come to need, all tokens stored and none of them shared. *)
BlocksEventually(r) == KV!BlocksFor(TokensOf(r))
Demand(R) == SumFunctionOnSet([r \in Requests |-> BlocksEventually(r)], R)

(* The pool turns a request or a token away only when what runs may outgrow   *)
(* it, together with the prompt turned away if there is one: no block leaks,  *)
(* whatever was shared, recycled, passed over and released before, as long as *)
(* no stale cache entry was handed out.                                       *)
FailuresMeanOverload ==
    [][~misled =>
           /\ Len(skipped') > Len(skipped) =>
                  Demand(S!Running) + KV!BlocksFor(Len(Prompt[Head(waiting)])) > NumBlocks
           /\ dropped' # dropped /\ dropped' # {} => Demand(S!Running) > NumBlocks]_vars

(* "Prompt tokens whose KV state was reused": a model step of a request comes *)
(* after, or with, the computation of the prefix it was told to reuse.        *)
ReusedPrefixComputed ==
    [][pc = "executing" /\ pc' = "updating" /\ ~misled =>
           \A r \in Range(scheduled) :
               \A i \in 1 .. cached[r] \div BlockSize : tables[r][i] \in filled']_vars

(* Liveness. *)

(* Every request that is added finishes, unless the engine is reset, however  *)
(* often the pool turns it away and although a full pool costs others tokens. *)
EveryRequestFinishes ==
    \A r \in Requests : status[r] = "waiting" ~> status[r] \in {"finished", "absent"}
=============================================================================
