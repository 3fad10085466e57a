--------------------------- MODULE EngineCoreProofs ---------------------------
(***************************************************************************)
(* Proofs about EngineCore, for every set of requests, prompts, limits and *)
(* pool size.  A step of the engine is a step of Scheduler and of KVCache, *)
(* so their own invariants hold here as they were proved; what is new is   *)
(* how they fit: who holds blocks, how many slots a request has, what the  *)
(* cache answers, and what it means when it has no block.                  *)
(***************************************************************************)
EXTENDS EngineCore, CollectionLemmas

SP == INSTANCE SchedulerProofs WITH PromptLength <- PromptLengths
KP == INSTANCE KVCacheProofs
    WITH Prompts <- Range(Prompt),
         MaxTokens <- SumFunctionOnSet([r \in Requests |-> TokensOf(r)], Requests)

(* The assumptions of the components follow from those of EngineCore. *)
LEMMA PromptsTyped ==
    /\ \A r \in Requests : Prompt[r] \in Range(Prompt) /\ Len(Prompt[r]) \in Nat
    /\ PromptLengths \in [Requests -> Nat]
    /\ \A r \in Requests : TokensOf(r) \in Nat \ {0} /\ Len(Prompt[r]) <= TokensOf(r)
<1>1. \A r \in Requests : Prompt[r] \in Range(Prompt)
  BY PromptAssumption DEF Range
<1>2. \A r \in Requests : Len(Prompt[r]) \in Nat
  BY <1>1, PromptAssumption, LenProperties
<1>3. PromptLengths \in [Requests -> Nat]
  BY <1>2 DEF PromptLengths
<1>4. ASSUME NEW r \in Requests
      PROVE  TokensOf(r) \in Nat \ {0} /\ Len(Prompt[r]) <= TokensOf(r)
  BY <1>2, ShapesAssumption DEF TokensOf
<1> QED BY <1>1, <1>2, <1>3, <1>4

LEMMA SchedulerAssumptions ==
    /\ SP!IsFiniteSet(Requests)
    /\ PromptLengths \in [Requests -> Nat] /\ MaxNewTokens \in [Requests -> Nat]
    /\ Priority \in [Requests -> Int]
    /\ MaxNumScheduledTokens \in Nat \ {0}
    /\ ChunkedPrefill \in BOOLEAN /\ PrefillChunkSize \in Nat \ {0}
    /\ MemoryBudget \in Nat /\ MaxNumSeqs \in Nat /\ MaxPerPriority \in Nat
    /\ BlockSize \in Nat \ {0}
<1>1. SP!IsFiniteSet(Requests)
  BY RequestsAssumption DEF IsFiniteSet, SP!IsFiniteSet
<1> QED BY <1>1, PromptsTyped, ShapesAssumption, SchedulerAssumption, CacheAssumption

LEMMA CacheAssumptions ==
    /\ KP!IsFiniteSet(Requests)
    /\ Range(Prompt) \subseteq Seq(UNION {KP!Range(p) : p \in Range(Prompt)})
    /\ Generated \notin KP!Keys
    /\ NumBlocks \in Nat /\ BlockSize \in Nat \ {0} /\ EnablePrefixSharing \in BOOLEAN
    /\ SumFunctionOnSet([r \in Requests |-> TokensOf(r)], Requests) \in Nat
<1>1. KP!IsFiniteSet(Requests)
  BY RequestsAssumption DEF IsFiniteSet, KP!IsFiniteSet
<1>2. Range(Prompt) \subseteq Seq(UNION {KP!Range(p) : p \in Range(Prompt)})
  BY PromptAssumption DEF Range, KP!Range
<1>3. Generated \notin KP!Keys
  BY GeneratedAssumption DEF KV!Keys, KP!Keys, KV!Prefix, KP!Prefix
<1>4. SumFunctionOnSet([r \in Requests |-> TokensOf(r)], Requests) \in Nat
  <2>1. [r \in Requests |-> TokensOf(r)] \in [Requests -> Nat]
    BY PromptsTyped
  <2> QED BY <2>1, RequestsAssumption, SumNat
<1> QED BY <1>1, <1>2, <1>3, <1>4, CacheAssumption

-----------------------------------------------------------------------------
(* The components as EngineCore instantiates them, and as their proofs do:    *)
(* the same formulas.                                                         *)

LEMMA SameScheduler ==
    /\ S!Init <=> SP!Init
    /\ S!Next <=> SP!Next
    /\ S!vars = SP!vars /\ S!vars' = SP!vars'
    /\ \A r \in Requests : S!Updating(r) <=> SP!Updating(r)
    /\ \A r \in Requests : S!CachedLengths(r) = SP!CachedLengths(r)
    /\ S!Running = SP!Running /\ S!Running' = SP!Running'
    /\ S!IsDone <=> SP!IsDone
    /\ S!TypeOK <=> SP!TypeOK
BY
   DEF S!queues, SP!queues, S!requests, SP!requests, S!policy, SP!policy, S!helper,
       SP!helper, S!output, SP!output, S!vars, SP!vars, S!Priorities, SP!Priorities,
       S!Smaller, SP!Smaller, S!Larger, SP!Larger, S!EstimatedKvSize,
       SP!EstimatedKvSize, S!RemainingPrefill, SP!RemainingPrefill, S!IsFinishedWith,
       SP!IsFinishedWith, S!IsDone, SP!IsDone, S!CachedLengths, SP!CachedLengths,
       S!CanAdmit, SP!CanAdmit, S!Prefilling, SP!Prefilling, S!DesiredTokens,
       SP!DesiredTokens, S!Whole, SP!Whole, S!TooLarge, SP!TooLarge, S!MustWait,
       SP!MustWait, S!Grant, SP!Grant, S!BudgetAfter, SP!BudgetAfter,
       S!ReachesSamplingPoint, SP!ReachesSamplingPoint, S!PrefillComputed,
       SP!PrefillComputed, S!RemoveAt, SP!RemoveAt, S!IndexOf, SP!IndexOf, S!Without,
       SP!Without, S!Idle, SP!Idle, S!StepEnds, SP!StepEnds, S!Init, SP!Init,
       S!AddRequest, SP!AddRequest, S!BeginStep, SP!BeginStep, S!AdmitRequest,
       SP!AdmitRequest, S!SkipRequest, SP!SkipRequest, S!BackToWaiting,
       SP!BackToWaiting, S!EndAdmission, SP!EndAdmission, S!Selecting, SP!Selecting,
       S!SelectRequest, SP!SelectRequest, S!PassOver, SP!PassOver, S!SelectRaises,
       SP!SelectRaises, S!EndSelection, SP!EndSelection, S!RunnerCacheAfterStep,
       SP!RunnerCacheAfterStep, S!ExecuteModel, SP!ExecuteModel, S!TotalPrefill,
       SP!TotalPrefill, S!ProcessedAfter, SP!ProcessedAfter, S!GeneratedAfter,
       SP!GeneratedAfter, S!Updating, SP!Updating, S!UpdateUnfinished,
       SP!UpdateUnfinished, S!MemoryAfter, SP!MemoryAfter, S!FinishRequest,
       SP!FinishRequest, S!UpdateFinished, SP!UpdateFinished, S!EndUpdate,
       SP!EndUpdate, S!Reset, SP!Reset, S!Advance, SP!Advance, S!Next, SP!Next,
       S!Running, SP!Running, S!Steps, SP!Steps, S!TypeOK, SP!TypeOK, SP!Range,
       S!Range, Range

LEMMA SameCache ==
    /\ KV!Init <=> KP!Init
    /\ \A r \in Requests : /\ KV!AppendInPlace(r) <=> KP!AppendInPlace(r)
                           /\ KV!AppendInNewBlock(r) <=> KP!AppendInNewBlock(r)
                           /\ KV!FreeRequest(r) <=> KP!FreeRequest(r)
                           /\ KV!LastBlockFull(r) <=> KP!LastBlockFull(r)
    /\ \A r, p, l : /\ KV!AllocateBlocks(r, p, l) <=> KP!AllocateBlocks(r, p, l)
                    /\ KV!AllocateBlocksFails(r, p, l) <=> KP!AllocateBlocksFails(r, p, l)
    /\ \A p, l : KV!IsLongestHit(p, l) <=> KP!IsLongestHit(p, l)
    /\ KV!Reset <=> KP!Reset
    /\ KV!Next <=> KP!Next
    /\ KV!vars = KP!vars /\ KV!vars' = KP!vars'
    /\ KV!Blocks = KP!Blocks
    /\ \A n : KV!BlocksFor(n) = KP!BlocksFor(n)
    /\ KV!TypeOK <=> KP!TypeOK
BY
   DEF KV!Blocks, KP!Blocks, KV!Prefix, KP!Prefix, KV!Keys, KP!Keys, KV!pool, KP!pool,
       KV!vars, KP!vars, KV!BlocksFor, KP!BlocksFor, KV!EndOfBlock, KP!EndOfBlock,
       KV!Fill, KP!Fill, KV!AlignedLengths, KP!AlignedLengths, KV!Cached, KP!Cached,
       KV!Valid, KP!Valid, KV!Hits, KP!Hits, KV!IsLongestHit, KP!IsLongestHit,
       KV!SharedBlocks, KP!SharedBlocks, KV!Dropped, KP!Dropped, KV!CacheAfterScan,
       KP!CacheAfterScan, KV!PrefixKeys, KP!PrefixKeys, KV!NewKeys, KP!NewKeys,
       KV!CacheAfterAllocation, KP!CacheAfterAllocation, KV!NextFree, KP!NextFree,
       KV!RestOfFree, KP!RestOfFree, KV!PositionOf, KP!PositionOf, KV!SoleBlocks,
       KP!SoleBlocks, KV!InOrderOf, KP!InOrderOf, KV!HasSpace, KP!HasSpace,
       KV!EntriesNaming, KP!EntriesNaming, KV!Init, KP!Init, KV!AllocateBlocks,
       KP!AllocateBlocks, KV!AllocateBlocksFails, KP!AllocateBlocksFails,
       KV!AppendInPlace, KP!AppendInPlace, KV!LastBlockFull, KP!LastBlockFull,
       KV!AppendInNewBlock, KP!AppendInNewBlock, KV!FreeRequest, KP!FreeRequest,
       KV!Reset, KP!Reset, KV!Next, KP!Next, KV!TypeOK, KP!TypeOK,
       KP!Range, KV!Range, Range, KP!Cardinality, KV!Cardinality,
       Cardinality, KP!IsInjective, KV!IsInjective

-----------------------------------------------------------------------------
(* The inductive invariant.  Each component keeps its own; what joins them is *)
(* that the cache holds blocks for the requests that run, of their prompts,   *)
(* and that the slots it has filled are those the scheduler counts.           *)

HoldersRun ==
    /\ live = SP!Running
    /\ \A r \in live : prompt_of[r] = Prompt[r]

OwnOK ==
    /\ appended \in BOOLEAN /\ dropped \subseteq Requests /\ filled \subseteq KP!Blocks
    /\ appended => pc = "updating" /\ scheduled # <<>> /\ Head(scheduled) \in sampled

(* Tokens r has, or is about to have, a slot for unless one was dropped. *)
TokensDue(r) ==
    Len(Prompt[r]) + generated[r] + (IF BeingUpdated(r) /\ appended THEN 1 ELSE 0)

(* The slots of r's table: no more than its tokens, and as many unless one was *)
(* dropped; a last block is never empty.                                      *)
SlotsMatch(r) ==
    /\ SlotsUsed(r) <= TokensDue(r)
    /\ r \notin dropped => SlotsUsed(r) = TokensDue(r)
    /\ tables[r] # <<>> => token_num[KP!LastBlock(r)] > 0

SlotsOK == ~misled => \A r \in live : SlotsMatch(r)

EInv ==
    /\ SP!IInv
    /\ KP!IInv /\ KP!Soundness /\ KP!Fullness
    /\ HoldersRun
    /\ OwnOK
    /\ SlotsOK

-----------------------------------------------------------------------------
(* A step of the engine is a step of its scheduler and of its cache, or one   *)
(* of them stands still.                                                      *)

LEMMA CacheStands ==
    ASSUME UNCHANGED kv_cache
    PROVE  UNCHANGED KV!vars
BY DEF kv_cache, KV!vars

LEMMA SchedulerSteps ==
    ASSUME Next \/ UNCHANGED vars
    PROVE  S!Next \/ UNCHANGED S!vars
<1>1. CASE UNCHANGED vars
  BY <1>1 DEF vars, scheduler, S!vars
<1>2. ASSUME NEW r \in Requests, AddRequest(r) PROVE S!Next
  BY <1>2 DEF AddRequest, S!Next
<1>3. CASE BeginStep
  BY <1>3 DEF BeginStep, S!Next
<1>4. ASSUME NEW r \in Requests, NEW l \in 0 .. Len(Prompt[r]),
             AdmitRequest(r, l) \/ SkipRequest(r, l)
      PROVE  S!Next
  <2>1. l \in 0 .. PromptLengths[r]
    BY DEF PromptLengths
  <2> QED BY <1>4, <2>1 DEF AdmitRequest, SkipRequest, S!Next, S!Advance
<1>5. CASE Select
  BY <1>5 DEF Select, S!Next, S!Advance
<1>6. CASE ExecuteModel \/ EndUpdate
  BY <1>6 DEF ExecuteModel, EndUpdate, S!Next, S!Advance
<1>7. ASSUME NEW r \in Requests, AppendToken(r) PROVE UNCHANGED S!vars
  BY <1>7 DEF AppendToken, scheduler, S!vars
<1>8. ASSUME NEW r \in Requests, UpdateUnfinished(r) \/ UpdateFinished(r) PROVE S!Next
  BY <1>8 DEF UpdateUnfinished, UpdateFinished, S!Next, S!Advance
<1>9. CASE Reset
  BY <1>9 DEF Reset, S!Next
<1> QED BY <1>1, <1>2, <1>3, <1>4, <1>5, <1>6, <1>7, <1>8, <1>9 DEF Next, Advance

LEMMA CacheSteps ==
    ASSUME Next \/ UNCHANGED vars
    PROVE  KV!Next \/ UNCHANGED KV!vars
<1>1. CASE UNCHANGED vars
  BY <1>1, CacheStands DEF vars, kv_cache
<1>2. ASSUME NEW r \in Requests, AddRequest(r) \/ UpdateUnfinished(r)
      PROVE  UNCHANGED KV!vars
  BY <1>2, CacheStands DEF AddRequest, UpdateUnfinished
<1>3. CASE BeginStep \/ Select \/ ExecuteModel \/ EndUpdate
  BY <1>3, CacheStands DEF BeginStep, Select, ExecuteModel, EndUpdate
<1>4. ASSUME NEW r \in Requests, NEW l \in 0 .. Len(Prompt[r]),
             AdmitRequest(r, l) \/ SkipRequest(r, l)
      PROVE  KV!Next
  <2>1. Prompt[r] \in Range(Prompt)
    BY PromptsTyped
  <2> QED BY <1>4, <2>1 DEF AdmitRequest, SkipRequest, KV!Next
<1>5. ASSUME NEW r \in Requests, AppendToken(r) PROVE KV!Next \/ UNCHANGED KV!vars
  BY <1>5, CacheStands DEF AppendToken, KV!Next
<1>6. ASSUME NEW r \in Requests, UpdateFinished(r) PROVE KV!Next
  BY <1>6 DEF UpdateFinished, ReleaseBlocks, KV!Next
<1>7. CASE Reset
  BY <1>7 DEF Reset, KV!Next
<1> QED BY <1>1, <1>2, <1>3, <1>4, <1>5, <1>6, <1>7 DEF Next, Advance

LEMMA StepComponents ==
    EInv /\ [Next]_vars => SP!IInv' /\ KP!IInv' /\ KP!Soundness' /\ KP!Fullness'
<1> SUFFICES ASSUME EInv, [Next]_vars
             PROVE  SP!IInv' /\ KP!IInv' /\ KP!Soundness' /\ KP!Fullness'
  OBVIOUS
<1>1. [SP!Next]_(SP!vars)
  BY SchedulerSteps, SameScheduler
<1>2. [KP!Next]_(KP!vars)
  BY CacheSteps, SameCache
<1>3. SP!IInv'
  BY <1>1, SP!StepIInv, SchedulerAssumptions DEF EInv
<1>4. KP!IInv'
  BY <1>2, KP!StepIInv, CacheAssumptions DEF EInv
<1>5. KP!Soundness'
  BY <1>2, KP!StepSound, CacheAssumptions DEF EInv
<1>6. KP!Fullness'
  BY <1>2, KP!StepFull, CacheAssumptions DEF EInv
<1> QED BY <1>3, <1>4, <1>5, <1>6

(* The token of the request being updated is appended once, and only then. *)
LEMMA NotAppended ==
    ASSUME EInv, pc # "updating" \/ scheduled = <<>>
    PROVE  appended = FALSE
BY DEF EInv, OwnOK

(* What only the scheduler notices, and does not count. *)
Quiet ==
    \/ UNCHANGED vars
    \/ \E r \in Requests : AddRequest(r)
    \/ BeginStep \/ Select \/ ExecuteModel \/ EndUpdate

LEMMA QuietStep ==
    ASSUME EInv, Quiet
    PROVE  /\ UNCHANGED <<kv_cache, appended, dropped, generated>>
           /\ SP!Running' = SP!Running
           /\ appended => UNCHANGED <<pc, scheduled, sampled>>
<1>0. SP!TypeOK
  BY DEF EInv, SP!IInv
<1>1. CASE UNCHANGED vars
  BY <1>1 DEF vars, scheduler, own, SP!Running
<1>2. ASSUME NEW r \in Requests, AddRequest(r)
      PROVE  /\ UNCHANGED <<kv_cache, appended, dropped, generated>>
             /\ SP!Running' = SP!Running
             /\ ~appended
  BY <1>0, <1>2, NotAppended DEF AddRequest, S!AddRequest, own, SP!Running, SP!TypeOK
<1>3. CASE BeginStep
  BY <1>3, NotAppended DEF BeginStep, S!BeginStep, S!requests, own, SP!Running
<1>4. CASE Select
  <2>1. UNCHANGED <<status, generated>> /\ pc \in {"admitting", "selecting"}
    BY <1>4 DEF Select, S!EndAdmission, S!SelectRequest, S!PassOver, S!SelectRaises,
                S!EndSelection, S!Selecting, S!requests
  <2> QED BY <1>4, <2>1, NotAppended DEF Select, own, SP!Running
<1>5. CASE ExecuteModel
  BY <1>5, NotAppended DEF ExecuteModel, S!ExecuteModel, S!requests, SP!Running
<1>6. CASE EndUpdate
  BY <1>6, NotAppended DEF EndUpdate, S!EndUpdate, S!requests, own, SP!Running
<1> QED BY <1>1, <1>2, <1>3, <1>4, <1>5, <1>6 DEF Quiet

(* The steps left, those that move blocks or tokens. *)
LEMMA StepKinds ==
    ASSUME [Next]_vars
    PROVE  \/ Quiet
           \/ \E r \in Requests : \E l \in 0 .. Len(Prompt[r]) :
                  AdmitRequest(r, l) \/ SkipRequest(r, l)
           \/ \E r \in Requests : AppendToken(r) \/ UpdateUnfinished(r) \/ UpdateFinished(r)
           \/ Reset
BY DEF Next, Advance, Quiet

(* A request leaves the waiting queue as it enters the cache. *)
LEMMA AdmittedRequest ==
    ASSUME EInv, NEW r \in Requests, pc = "admitting", waiting # <<>>, r = Head(waiting)
    PROVE  status[r] = "waiting" /\ generated[r] = 0 /\ r \notin live /\ appended = FALSE
<1>1. SP!TypeOK /\ SP!QueuesMatchStatus /\ SP!CountsAgree(r)
  BY DEF EInv, SP!IInv, SP!ComputedMatchesGenerated
<1>2. status[r] = "waiting"
  BY <1>1, SP!HeadOfWaiting, SchedulerAssumptions
<1>3. generated[r] = 0
  BY <1>1, <1>2 DEF SP!CountsAgree
<1>4. r \notin live
  BY <1>2 DEF EInv, HoldersRun, SP!Running
<1> QED BY <1>2, <1>3, <1>4, NotAppended

(* The update has come to a request that runs. *)
LEMMA UpdatedRequest ==
    ASSUME EInv, NEW r \in Requests, S!Updating(r)
    PROVE  /\ r \in live /\ pc = "updating" /\ scheduled # <<>> /\ r = Head(scheduled)
           /\ generated' = [generated EXCEPT ![r] = IF r \in sampled THEN generated[r] + 1
                                                                    ELSE generated[r]]
<1>1. SP!Updating(r)
  BY SameScheduler
<1>2. r \in SP!Running
  BY <1>1, SP!HeadOfScheduled, SchedulerAssumptions DEF EInv
<1>3. r \in live
  BY <1>2 DEF EInv, HoldersRun
<1>4. /\ pc = "updating" /\ scheduled # <<>> /\ r = Head(scheduled)
      /\ generated' = [generated EXCEPT ![r] = IF r \in sampled THEN generated[r] + 1
                                                                ELSE generated[r]]
  BY DEF S!Updating, S!GeneratedAfter
<1> QED BY <1>3, <1>4

LEMMA StepHolders == EInv /\ [Next]_vars => HoldersRun'
<1> SUFFICES ASSUME EInv, [Next]_vars
             PROVE  HoldersRun'
  OBVIOUS
<1>0. HoldersRun /\ SP!TypeOK /\ KP!TypeOK
  BY DEF EInv, SP!IInv, KP!IInv
<1>1. CASE Quiet
  BY <1>0, <1>1, QuietStep DEF HoldersRun, kv_cache
<1>2. ASSUME NEW r \in Requests, NEW l \in 0 .. Len(Prompt[r]), AdmitRequest(r, l)
      PROVE  HoldersRun'
  <2>1. /\ status' = [status EXCEPT ![r] = "prefill"]
        /\ live' = live \cup {r} /\ prompt_of' = [prompt_of EXCEPT ![r] = Prompt[r]]
    BY <1>2 DEF AdmitRequest, S!AdmitRequest, KV!AllocateBlocks
  <2>2. SP!Running' = SP!Running \cup {r}
    BY <1>0, <2>1 DEF SP!Running, SP!TypeOK
  <2> QED BY <1>0, <2>1, <2>2 DEF HoldersRun, KP!TypeOK
<1>3. ASSUME NEW r \in Requests, NEW l \in 0 .. Len(Prompt[r]), SkipRequest(r, l)
      PROVE  HoldersRun'
  BY <1>0, <1>3
     DEF SkipRequest, S!SkipRequest, S!requests, KV!AllocateBlocksFails, HoldersRun, SP!Running
<1>4. ASSUME NEW r \in Requests, AppendToken(r) PROVE HoldersRun'
  BY <1>0, <1>4
     DEF AppendToken, KV!AppendInPlace, KV!AppendInNewBlock, kv_cache, scheduler, HoldersRun,
         SP!Running
<1>5. ASSUME NEW r \in Requests, UpdateUnfinished(r) PROVE HoldersRun'
  <2>1. r \in live /\ UNCHANGED <<live, prompt_of>>
        /\ status' = (IF r \in sampled THEN [status EXCEPT ![r] = "decode"] ELSE status)
    BY <1>5, UpdatedRequest DEF UpdateUnfinished, S!UpdateUnfinished, kv_cache
  <2>2. SP!Running' = SP!Running
    BY <1>0, <2>1 DEF SP!Running, SP!TypeOK, HoldersRun
  <2> QED BY <1>0, <2>1, <2>2 DEF HoldersRun
<1>6. ASSUME NEW r \in Requests, UpdateFinished(r) PROVE HoldersRun'
  <2>1. /\ status' = [status EXCEPT ![r] = "finished"]
        /\ live' = live \ {r} /\ prompt_of' = [prompt_of EXCEPT ![r] = <<>>]
    BY <1>6 DEF UpdateFinished, ReleaseBlocks, S!UpdateFinished, S!FinishRequest, KV!FreeRequest
  <2>2. SP!Running' = SP!Running \ {r}
    BY <1>0, <2>1 DEF SP!Running, SP!TypeOK
  <2> QED BY <1>0, <2>1, <2>2 DEF HoldersRun, KP!TypeOK
<1>7. CASE Reset
  BY <1>7 DEF Reset, S!Reset, KV!Reset, HoldersRun, SP!Running
<1> QED BY <1>1, <1>2, <1>3, <1>4, <1>5, <1>6, <1>7, StepKinds

LEMMA StepOwn == EInv /\ [Next]_vars => OwnOK'
<1> SUFFICES ASSUME EInv, [Next]_vars
             PROVE  OwnOK'
  OBVIOUS
<1>0. OwnOK /\ SP!TypeOK /\ KP!TypeOK
  BY DEF EInv, SP!IInv, KP!IInv
<1>1. CASE Quiet
  <2>1. /\ UNCHANGED <<appended, dropped>>
        /\ appended => UNCHANGED <<pc, scheduled, sampled>>
    BY <1>1, QuietStep
  <2>2. filled' \subseteq KP!Blocks
    <3>1. CASE ExecuteModel
      <4>1. ASSUME NEW r \in SP!Range(scheduled), NEW n PROVE FilledBy(r, n) \subseteq KP!Blocks
        <5>1. r \in Requests
          BY DEF EInv, SP!IInv, SP!LocalsOK, SP!Running
        <5>2. tables[r] \in Seq(KP!Blocks)
          BY <1>0, <5>1 DEF KP!TypeOK
        <5> QED BY <5>2, ElementOfSeq, LenProperties DEF FilledBy
      <4>2. Range(scheduled) = SP!Range(scheduled)
        BY DEF Range, SP!Range
      <4> QED BY <1>0, <3>1, <4>1, <4>2 DEF ExecuteModel, OwnOK
    <3>2. CASE ~ExecuteModel
      BY <1>0, <1>1, <3>2
         DEF Quiet, AddRequest, BeginStep, Select, EndUpdate, own, vars, OwnOK
    <3> QED BY <3>1, <3>2
  <2> QED BY <1>0, <2>1, <2>2 DEF OwnOK
<1>2. ASSUME NEW r \in Requests, NEW l \in 0 .. Len(Prompt[r]),
             AdmitRequest(r, l) \/ SkipRequest(r, l)
      PROVE  OwnOK'
  <2>1. pc = "admitting" /\ UNCHANGED own
    BY <1>2 DEF AdmitRequest, SkipRequest, S!AdmitRequest, S!SkipRequest
  <2> QED BY <1>0, <2>1, NotAppended DEF OwnOK, own
<1>3. ASSUME NEW r \in Requests, AppendToken(r) PROVE OwnOK'
  BY <1>0, <1>3 DEF AppendToken, NeedsSlot, scheduler, OwnOK
<1>4. ASSUME NEW r \in Requests, UpdateUnfinished(r) \/ UpdateFinished(r) PROVE OwnOK'
  BY <1>0, <1>4 DEF UpdateUnfinished, UpdateFinished, OwnOK
<1>5. CASE Reset
  <2>1. pc = "idle"
    BY <1>5 DEF Reset, S!Reset
  <2> QED BY <1>0, <1>5, <2>1, NotAppended DEF Reset, OwnOK
<1> QED BY <1>1, <1>2, <1>3, <1>4, <1>5, StepKinds

LEMMA SlotsAreTableSlots ==
    /\ \A r : SlotsUsed(r) = KP!TableSlots(r)
    /\ \A r : SlotsUsed(r)' = KP!TableSlots(r)'
BY DEF SlotsUsed, KP!TableSlots, KP!LastBlock

(* Nothing changes for a request whose table and tokens stay as they are. *)
LEMMA SlotsMatchStays ==
    ASSUME EInv, NEW q \in live, SlotsMatch(q), KP!OtherTableKept(q),
           TokensDue(q)' = TokensDue(q), q \in dropped => q \in dropped'
    PROVE  SlotsMatch(q)'
<1>1. /\ KP!TableSlots(q)' = KP!TableSlots(q)
      /\ tables[q] # <<>> => token_num'[KP!LastBlock(q)'] = token_num[KP!LastBlock(q)]
  BY KP!SlotsStay, CacheAssumptions DEF EInv
<1>2. tables'[q] = tables[q]
  BY DEF KP!OtherTableKept
<1> QED BY <1>1, <1>2, SlotsAreTableSlots DEF SlotsMatch

(* The tokens due change for the request being updated only. *)
LEMMA DueStays ==
    ASSUME EInv, NEW q \in Requests, generated'[q] = generated[q],
           ~(BeingUpdated(q) /\ appended), ~(BeingUpdated(q) /\ appended)'
    PROVE  TokensDue(q)' = TokensDue(q)
BY DEF TokensDue

LEMMA DueTyped ==
    ASSUME EInv, NEW r \in Requests
    PROVE  TokensDue(r) \in Nat /\ generated[r] \in Nat /\ Len(Prompt[r]) \in Nat
<1>1. generated[r] \in Nat
  BY DEF EInv, SP!IInv, SP!TypeOK
<1> QED BY <1>1, PromptsTyped DEF TokensDue

LEMMA StepSlots == EInv /\ [Next]_vars => SlotsOK'
<1> SUFFICES ASSUME EInv, [Next]_vars, ~misled'
             PROVE  \A q \in live' : SlotsMatch(q)'
  BY DEF SlotsOK
<1>0. /\ SP!TypeOK /\ KP!TypeOK /\ KP!IInv /\ KP!Fullness /\ OwnOK
      /\ live \subseteq Requests
  BY DEF EInv, SP!IInv, KP!IInv, KP!TypeOK
<1>00. KP!IInv' /\ KP!Fullness'
  BY StepComponents
<1>1. CASE Quiet
  <2>1. /\ UNCHANGED <<kv_cache, appended, dropped, generated>>
        /\ appended => UNCHANGED <<pc, scheduled, sampled>>
    BY <1>1, QuietStep
  <2>2. ASSUME NEW q \in live' PROVE SlotsMatch(q)'
    <3>1. q \in live /\ SlotsMatch(q)
      BY <2>1 DEF kv_cache, EInv, SlotsOK
    <3>2. TokensDue(q)' = TokensDue(q)
      BY <2>1 DEF TokensDue, BeingUpdated
    <3>3. KP!OtherTableKept(q)
      BY <2>1 DEF kv_cache, KP!OtherTableKept
    <3> QED BY <2>1, <3>1, <3>2, <3>3, SlotsMatchStays
  <2> QED BY <2>2
<1>2. ASSUME NEW r \in Requests, NEW l \in 0 .. Len(Prompt[r]), AdmitRequest(r, l)
      PROVE  \A q \in live' : SlotsMatch(q)'
  <2>1. /\ S!AdmitRequest(r, l) /\ KV!AllocateBlocks(r, Prompt[r], l)
        /\ KP!AllocateBlocks(r, Prompt[r], l)
        /\ UNCHANGED <<appended, dropped>> /\ Prompt[r] \in Range(Prompt)
    BY <1>2, PromptsTyped, SameCache DEF AdmitRequest, own
  <2>2. /\ pc = "admitting" /\ pc' = "admitting" /\ waiting # <<>> /\ r = Head(waiting)
        /\ generated' = generated /\ live' = live \cup {r}
    BY <2>1 DEF S!AdmitRequest, KV!AllocateBlocks
  <2>7. ~misled
    BY <2>1 DEF KV!AllocateBlocks
  <2>3. generated[r] = 0 /\ r \notin live
    BY <2>2, AdmittedRequest
  <2>4. \A q \in Requests : TokensDue(q)' = TokensDue(q)
    BY <2>2, DueStays DEF BeingUpdated
  <2>5. SlotsMatch(r)'
    <3>1. /\ KP!TableSlots(r)' = Len(Prompt[r])
          /\ tables'[r] # <<>> => token_num'[KP!LastBlock(r)'] > 0
      BY <1>0, <1>00, <2>1, KP!NewTableSlots, CacheAssumptions
    <3>2. TokensDue(r) = Len(Prompt[r])
      BY <2>2, <2>3, PromptsTyped DEF TokensDue, BeingUpdated
    <3> QED BY <2>4, <3>1, <3>2, PromptsTyped, SlotsAreTableSlots DEF SlotsMatch
  <2>6. ASSUME NEW q \in live PROVE SlotsMatch(q)'
    <3>1. KP!OtherTableKept(q)
      BY <1>0, <2>1, KP!AllocateKeepsOthers, CacheAssumptions
    <3>2. SlotsMatch(q)
      BY <2>7 DEF EInv, SlotsOK
    <3> QED BY <1>0, <2>1, <2>4, <3>1, <3>2, SlotsMatchStays
  <2> QED BY <2>2, <2>5, <2>6
<1>3. ASSUME NEW r \in Requests, NEW l \in 0 .. Len(Prompt[r]), SkipRequest(r, l)
      PROVE  \A q \in live' : SlotsMatch(q)'
  <2>1. /\ S!SkipRequest(r) /\ KP!AllocateBlocksFails(r, Prompt[r], l)
        /\ UNCHANGED <<appended, dropped>> /\ Prompt[r] \in Range(Prompt)
        /\ UNCHANGED <<live, misled>>
    BY <1>3, PromptsTyped, SameCache DEF SkipRequest, own, KV!AllocateBlocksFails
  <2>2. pc = "admitting" /\ pc' = "admitting" /\ generated' = generated
    BY <2>1 DEF S!SkipRequest, S!requests
  <2>3. ASSUME NEW q \in live PROVE SlotsMatch(q)'
    <3>1. KP!OtherTableKept(q)
      BY <1>0, <2>1, KP!FailKeepsOthers, CacheAssumptions
    <3>2. SlotsMatch(q)
      BY <2>1 DEF EInv, SlotsOK
    <3>3. TokensDue(q)' = TokensDue(q)
      BY <1>0, <2>2, DueStays DEF BeingUpdated
    <3> QED BY <2>1, <3>1, <3>2, <3>3, SlotsMatchStays
  <2> QED BY <2>1, <2>3
<1>4. ASSUME NEW r \in Requests, AppendToken(r)
      PROVE  \A q \in live' : SlotsMatch(q)'
  <2>1. /\ pc = "updating" /\ scheduled # <<>> /\ r = Head(scheduled) /\ appended = FALSE
        /\ appended' = TRUE /\ UNCHANGED <<pc, scheduled, generated>>
    BY <1>0, <1>4 DEF AppendToken, scheduler, OwnOK
  <2>2. live' = live /\ ~misled
    BY <1>4 DEF AppendToken, KV!AppendInPlace, KV!AppendInNewBlock, kv_cache
  <2>3. TokensDue(r)' = TokensDue(r) + 1
    BY <2>1, DueTyped DEF TokensDue, BeingUpdated
  <2>4. \A q \in live \ {r} : TokensDue(q)' = TokensDue(q) /\ SlotsMatch(q)
    BY <1>0, <2>1, <2>2, DueStays DEF BeingUpdated, EInv, SlotsOK
  <2>5. r \in live => SlotsMatch(r) /\ TokensDue(r) \in Nat
    BY <2>2, DueTyped DEF EInv, SlotsOK
  <2>6. CASE (KP!AppendInPlace(r) \/ KP!AppendInNewBlock(r)) /\ dropped' = dropped
    <3>1. /\ KP!TableSlots(r)' = KP!TableSlots(r) + 1
          /\ token_num'[KP!LastBlock(r)'] > 0
          /\ \A q \in live \ {r} : KP!OtherTableKept(q)
      <4>1. CASE KP!AppendInPlace(r)
        BY <1>0, <2>2, <4>1, KP!AppendInPlaceSlots, CacheAssumptions
      <4>2. CASE KP!AppendInNewBlock(r)
        BY <1>0, <4>2, KP!AppendInNewBlockSlots, CacheAssumptions
      <4> QED BY <2>6, <4>1, <4>2
    <3>2. \A q \in live \ {r} : SlotsMatch(q)'
      BY <2>4, <2>6, <3>1, SlotsMatchStays
    <3>3. r \in live => SlotsMatch(r)'
      <4>1. ASSUME r \in live PROVE KP!TableSlots(r) \in Int
        BY <4>1, <1>0, KP!SlotsTyped, CacheAssumptions
      <4> QED BY <2>3, <2>5, <2>6, <3>1, <4>1, SlotsAreTableSlots DEF SlotsMatch
    <3> QED BY <2>2, <3>2, <3>3
  <2>7. CASE UNCHANGED kv_cache /\ dropped' = dropped \cup {r}
    <3>1. \A q \in live : KP!OtherTableKept(q)
      BY <2>7 DEF kv_cache, KP!OtherTableKept
    <3>2. \A q \in live \ {r} : SlotsMatch(q)'
      BY <2>4, <2>7, <3>1, SlotsMatchStays
    <3>3. r \in live => SlotsMatch(r)'
      <4>1. ASSUME r \in live PROVE KP!TableSlots(r) \in Int
        BY <4>1, <1>0, KP!SlotsTyped, CacheAssumptions
      <4>2. UNCHANGED <<tables, token_num>> /\ SlotsUsed(r)' = SlotsUsed(r)
            /\ KP!LastBlock(r)' = KP!LastBlock(r)
        BY <2>7 DEF kv_cache, SlotsUsed, KP!LastBlock
      <4> QED BY <2>3, <2>5, <2>7, <4>1, <4>2, SlotsAreTableSlots DEF SlotsMatch
    <3> QED BY <2>2, <3>2, <3>3
  <2> QED BY <1>4, <2>6, <2>7, SameCache DEF AppendToken
<1>5. ASSUME NEW r \in Requests, UpdateUnfinished(r) \/ UpdateFinished(r),
             NEW q \in live \ {r}
      PROVE  TokensDue(q)' = TokensDue(q)
  <2>1. S!Updating(r) /\ appended' = FALSE
    BY <1>5 DEF UpdateUnfinished, UpdateFinished, S!UpdateUnfinished, S!UpdateFinished
  <2>2. /\ r = Head(scheduled) /\ generated' = [generated EXCEPT ![r] =
                IF r \in sampled THEN generated[r] + 1 ELSE generated[r]]
    BY <2>1, UpdatedRequest
  <2>3. generated'[q] = generated[q]
    BY <1>0, <2>2 DEF SP!TypeOK
  <2> QED BY <1>0, <2>1, <2>2, <2>3, DueStays DEF BeingUpdated
<1>6. ASSUME NEW r \in Requests, UpdateUnfinished(r)
      PROVE  \A q \in live' : SlotsMatch(q)'
  <2>1. /\ S!Updating(r)
        /\ NeedsSlot(r) => appended
        /\ appended' = FALSE /\ UNCHANGED <<kv_cache, dropped>>
    BY <1>6 DEF UpdateUnfinished, S!UpdateUnfinished
  <2>2. /\ r \in live /\ pc = "updating" /\ scheduled # <<>> /\ r = Head(scheduled)
        /\ generated' = [generated EXCEPT ![r] = IF r \in sampled THEN generated[r] + 1
                                                                  ELSE generated[r]]
    BY <2>1, UpdatedRequest
  <2>3. TokensDue(r)' = TokensDue(r)
    <3>1. appended <=> r \in sampled
      BY <1>0, <2>1, <2>2 DEF NeedsSlot, OwnOK
    <3>2. generated'[r] = IF r \in sampled THEN generated[r] + 1 ELSE generated[r]
      BY <1>0, <2>2 DEF SP!TypeOK
    <3> QED BY <2>1, <2>2, <3>1, <3>2, DueTyped DEF TokensDue, BeingUpdated
  <2>4. ASSUME NEW q \in live PROVE SlotsMatch(q)'
    <3>1. SlotsMatch(q) /\ KP!OtherTableKept(q)
      BY <2>1 DEF kv_cache, EInv, SlotsOK, KP!OtherTableKept
    <3>2. TokensDue(q)' = TokensDue(q)
      BY <1>5, <1>6, <2>3
    <3> QED BY <2>1, <3>1, <3>2, SlotsMatchStays
  <2> QED BY <2>1, <2>4 DEF kv_cache
<1>7. ASSUME NEW r \in Requests, UpdateFinished(r)
      PROVE  \A q \in live' : SlotsMatch(q)'
  <2>1. KP!FreeRequest(r) /\ UNCHANGED <<dropped, misled>> /\ live' = live \ {r}
    BY <1>7, SameCache DEF UpdateFinished, ReleaseBlocks, KP!FreeRequest
  <2>2. ASSUME NEW q \in live \ {r} PROVE SlotsMatch(q)'
    <3>1. KP!OtherTableKept(q)
      BY <1>0, <2>1, KP!FreeKeepsOthers, CacheAssumptions
    <3>2. SlotsMatch(q)
      BY <2>1 DEF EInv, SlotsOK
    <3>3. TokensDue(q)' = TokensDue(q)
      BY <1>5, <1>7
    <3> QED BY <2>1, <3>1, <3>2, <3>3, SlotsMatchStays
  <2> QED BY <2>1, <2>2
<1>8. CASE Reset
  BY <1>8 DEF Reset, KV!Reset
<1> QED BY <1>1, <1>2, <1>3, <1>4, <1>6, <1>7, <1>8, StepKinds

-----------------------------------------------------------------------------
(* The invariant holds from the start. *)

LEMMA InitEInv == Init => EInv
<1> SUFFICES ASSUME Init PROVE EInv
  OBVIOUS
<1>1. SP!Init /\ KP!Init
  BY SameScheduler, SameCache DEF Init
<1>2. SP!IInv
  BY <1>1, SP!InitIInv, SchedulerAssumptions
<1>3. KP!IInv /\ KP!Soundness /\ KP!Fullness
  BY <1>1, KP!InitIInv, KP!InitSound, KP!InitFull, CacheAssumptions
<1>4. live = {} /\ SP!Running = {}
  BY DEF Init, S!Init, KV!Init, SP!Running
<1>5. OwnOK
  BY DEF Init, OwnOK
<1> QED BY <1>2, <1>3, <1>4, <1>5 DEF EInv, HoldersRun, SlotsOK

LEMMA StepEInv == EInv /\ [Next]_vars => EInv'
BY StepComponents, StepHolders, StepOwn, StepSlots DEF EInv

LEMMA Inductive == Spec => []EInv
BY InitEInv, StepEInv, PTL DEF Spec

-----------------------------------------------------------------------------
(* What a pool has in use, against what its requests may come to need.        *)

LEMMA SameVocabulary ==
    /\ \A s : KP!Range(s) = Range(s) /\ SP!Range(s) = Range(s)
    /\ \A s : KP!IsInjective(s) <=> IsInjective(s)
    /\ \A s : KP!IsFiniteSet(s) <=> IsFiniteSet(s)
    /\ \A s : KP!Cardinality(s) = Cardinality(s)
BY DEF KP!Range, SP!Range, Range, KP!IsInjective, IsInjective, KP!IsFiniteSet, IsFiniteSet,
       KP!Cardinality, Cardinality

(* The last token of a request has not been emitted while it runs. *)
LEMMA DueBound ==
    ASSUME EInv, NEW r \in live
    PROVE  /\ r \in Requests /\ TokensDue(r) <= TokensOf(r)
           /\ ~appended => TokensDue(r) + 1 <= TokensOf(r)
<1>1. r \in Requests /\ status[r] \in {"prefill", "decode"}
  BY DEF EInv, HoldersRun, SP!Running
<1>2. SP!CountsAgree(r) /\ generated[r] \in Nat
  BY <1>1 DEF EInv, SP!IInv, SP!ComputedMatchesGenerated, SP!TypeOK
<1>3. generated[r] = 0 \/ generated[r] < MaxNewTokens[r]
  BY <1>1, <1>2 DEF SP!CountsAgree
<1>4. Len(Prompt[r]) + generated[r] + 1 <= TokensOf(r)
  BY <1>1, <1>2, <1>3, PromptsTyped, ShapesAssumption DEF TokensOf
<1>5. Len(Prompt[r]) \in Nat /\ TokensOf(r) \in Nat
  BY <1>1, PromptsTyped
<1> QED BY <1>1, <1>2, <1>4, <1>5 DEF TokensDue

LEMMA BlocksBound ==
    ASSUME EInv, ~misled, NEW r \in live
    PROVE  /\ BlocksEventually(r) \in Nat /\ Len(tables[r]) \in Nat
           /\ Len(tables[r]) <= BlocksEventually(r)
           /\ KP!LastBlockFull(r) /\ ~appended => Len(tables[r]) < BlocksEventually(r)
<1>0. /\ r \in Requests /\ TokensDue(r) <= TokensOf(r) /\ TokensOf(r) \in Nat
      /\ ~appended => TokensDue(r) + 1 <= TokensOf(r)
  BY DueBound, PromptsTyped
<1>1. BlocksEventually(r) = KP!BlocksFor(TokensOf(r)) /\ BlocksEventually(r) \in Nat
  BY <1>0, SameCache, KP!BlocksForBounds, CacheAssumptions DEF BlocksEventually
<1>2. tables[r] \in Seq(KP!Blocks) /\ Len(tables[r]) \in Nat
  BY <1>0, LenProperties DEF EInv, KP!IInv, KP!TypeOK
<1>3. /\ KP!TableSlots(r) <= TokensDue(r) /\ KP!TableSlots(r) \in Nat /\ TokensDue(r) \in Nat
      /\ tables[r] # <<>> => token_num[KP!LastBlock(r)] > 0
  BY <1>0, SlotsAreTableSlots, DueTyped, KP!SlotsTyped, CacheAssumptions
     DEF EInv, SlotsOK, SlotsMatch
<1>4. Len(tables[r]) <= BlocksEventually(r)
  <2>1. CASE tables[r] = <<>>
    BY <1>1, <2>1
  <2>2. CASE tables[r] # <<>>
    <3> DEFINE q == Len(tables[r]) - 1
    <3>1. Len(tables[r]) > 0 /\ token_num[KP!LastBlock(r)] \in Nat
      BY <2>2, KP!LastBlockFacts, CacheAssumptions DEF EInv
    <3>2. q \in Nat /\ KP!TableSlots(r) = q * BlockSize + token_num[KP!LastBlock(r)]
      BY <1>2, <2>2, <3>1 DEF KP!TableSlots
    <3>3. q * BlockSize \in Nat
      BY <3>2, CacheAssumption
    <3>4. q * BlockSize < TokensOf(r)
      BY <1>0, <1>3, <2>2, <3>1, <3>2, <3>3
    <3>5. q < KP!BlocksFor(TokensOf(r))
      BY <1>0, <3>2, <3>4, KP!BlocksForMore, CacheAssumptions
    <3> QED BY <1>1, <1>2, <3>5
  <2> QED BY <2>1, <2>2
<1>5. ASSUME KP!LastBlockFull(r), ~appended PROVE Len(tables[r]) < BlocksEventually(r)
  <2>1. KP!TableSlots(r) = Len(tables[r]) * BlockSize
    BY <1>5, KP!FullTable, CacheAssumptions DEF EInv
  <2>2. Len(tables[r]) * BlockSize < TokensOf(r)
    BY <1>0, <1>3, <1>5, <2>1
  <2> QED BY <1>0, <1>1, <1>2, <2>2, KP!BlocksForMore, CacheAssumptions
<1> QED BY <1>1, <1>2, <1>4, <1>5

(* No block leaks: the pool is the free list and what running requests have,  *)
(* and they have no more than they may come to need.                          *)
LEMMA PoolBound ==
    ASSUME EInv, ~misled
    PROVE  /\ Demand(live) \in Nat /\ Len(free_list) \in Nat
           /\ NumBlocks <= Len(free_list) + Demand(live)
           /\ (\E r \in live : Len(tables[r]) < BlocksEventually(r)) =>
                  NumBlocks < Len(free_list) + Demand(live)
<1> DEFINE f == [r \in Requests |-> BlocksEventually(r)]
           H == [r \in Requests |-> IF r \in live THEN Range(tables[r]) ELSE {}]
<1>0. live \in SUBSET Requests /\ NumBlocks \in Nat
  BY CacheAssumption DEF EInv, KP!IInv, KP!TypeOK
<1>1. f \in [Requests -> Nat] /\ f \in [Requests -> Int]
  <2>1. ASSUME NEW r \in Requests PROVE BlocksEventually(r) \in Nat
    BY PromptsTyped, SameCache, KP!BlocksForBounds, CacheAssumptions DEF BlocksEventually
  <2> QED BY <2>1
<1>2. ASSUME NEW r \in Requests
      PROVE  /\ IsFiniteSet(H[r])
             /\ r \in live => Cardinality(H[r]) = Len(tables[r])
             /\ r \notin live => Cardinality(H[r]) = 0
  <2>1. CASE r \in live
    <3>1. tables[r] \in Seq(KP!Blocks) /\ IsInjective(tables[r])
      BY <2>1, SameVocabulary DEF EInv, KP!IInv, KP!TypeOK, KP!TablesInjective
    <3> QED BY <2>1, <3>1, InjectiveCardinality
  <2>2. CASE r \notin live
    BY <2>2, FS_EmptySet
  <2> QED BY <2>1, <2>2
<1>3. UNION {H[r] : r \in live} = KP!InUse
  BY <1>0, SameVocabulary DEF KP!InUse
<1>4. /\ Cardinality(KP!InUse) \in Nat /\ Len(free_list) \in Nat
      /\ Len(free_list) + Cardinality(KP!InUse) = NumBlocks
  BY KP!PoolAccounting, CacheAssumptions, SameVocabulary DEF EInv
<1>5. Demand(live) \in Nat /\ Demand(live) = SumFunctionOnSet(f, live)
  BY <1>0, <1>1, RequestsAssumption, SumNat DEF Demand
<1> HIDE DEF f, H
<1>6. \A r \in Requests : Cardinality(H[r]) <= f[r]
  <2>1. ASSUME NEW r \in Requests PROVE Cardinality(H[r]) <= f[r]
    <3>1. f[r] = BlocksEventually(r) /\ f[r] \in Nat
      BY <1>1 DEF f
    <3>2. CASE r \in live
      BY <1>2, <3>1, <3>2, BlocksBound
    <3>3. CASE r \notin live
      BY <1>2, <3>1, <3>3
    <3> QED BY <3>2, <3>3
  <2> QED BY <2>1
<1>7. Cardinality(KP!InUse) <= SumFunctionOnSet(f, live)
  BY <1>0, <1>1, <1>2, <1>3, <1>6, RequestsAssumption, CoverBound
<1>8. ASSUME NEW r \in live, Len(tables[r]) < BlocksEventually(r)
      PROVE  Cardinality(KP!InUse) < SumFunctionOnSet(f, live)
  <2> DEFINE g == [f EXCEPT ![r] = f[r] - 1]
  <2>1. r \in Requests /\ Len(tables[r]) \in Nat /\ f[r] = BlocksEventually(r) /\ f[r] \in Nat
    BY <1>0, <1>1, BlocksBound DEF f
  <2>2. g[r] = f[r] - 1 /\ \A q \in Requests : q # r => g[q] = f[q]
    BY <1>1, <2>1
  <2>3. g \in [Requests -> Nat] /\ g \in [Requests -> Int]
    BY <1>1, <1>8, <2>1
  <2> HIDE DEF g
  <2>4. ASSUME NEW q \in Requests PROVE IsFiniteSet(H[q]) /\ Cardinality(H[q]) <= g[q]
    <3>1. CASE q = r
      BY <1>2, <1>8, <2>1, <2>2, <3>1
    <3>2. CASE q # r
      BY <1>2, <1>6, <2>2, <3>2
    <3> QED BY <3>1, <3>2
  <2>5. Cardinality(KP!InUse) <= SumFunctionOnSet(g, live)
    BY <1>0, <1>3, <2>3, <2>4, RequestsAssumption, CoverBound
  <2>6. /\ SumFunctionOnSet(f, live) = f[r] + SumFunctionOnSet(f, live \ {r})
        /\ SumFunctionOnSet(g, live) = g[r] + SumFunctionOnSet(g, live \ {r})
    BY <1>0, <1>1, <2>3, RequestsAssumption, SumRemove
  <2>7. live \ {r} \in SUBSET Requests
    BY <1>0
  <2>8. SumFunctionOnSet(f, live \ {r}) = SumFunctionOnSet(g, live \ {r})
    <3>1. \A q \in live \ {r} : f[q] = g[q]
      BY <2>2, <2>7
    <3>2. live \ {r} \in SUBSET (Requests \cap Requests)
      BY <2>7
    <3> QED BY <1>1, <2>3, <3>1, <3>2, RequestsAssumption, SumSame
  <2>9. SumFunctionOnSet(f, live \ {r}) \in Int
    BY <1>1, <2>7, RequestsAssumption, SumType
  <2> QED BY <1>4, <2>1, <2>2, <2>5, <2>6, <2>8, <2>9
<1> QED BY <1>0, <1>4, <1>5, <1>7, <1>8

-----------------------------------------------------------------------------
(* Results. *)

(* InferenceEngine: put together, the scheduler and the cache each do only    *)
(* what they do alone.  Whatever the scheduler proves of itself for any answer *)
(* its callbacks may give holds with the cache behind them,                   *)
THEOREM EngineImplementsScheduler == Spec => S!Init /\ [][S!Next]_(S!vars)
<1>1. Init => S!Init
  BY DEF Init
<1>2. [Next]_vars => [S!Next]_(S!vars)
  BY SchedulerSteps
<1> QED BY <1>1, <1>2, PTL DEF Spec

(* and the scheduler calls allocate_blocks, append_token, free_request and    *)
(* reset in no order the cache is not made for.                               *)
THEOREM EngineImplementsKVCache == Spec => KV!Spec
<1>1. Init => KV!Init
  BY DEF Init
<1>2. [Next]_vars => [KV!Next]_(KV!vars)
  BY CacheSteps
<1> QED BY <1>1, <1>2, PTL DEF Spec, KV!Spec

(* A request served by the engine is submitted, admitted, emits its tokens in *)
(* sequence and completes, within max_num_seqs.                               *)
THEOREM EngineImplementsRequestLifecycle == Spec => SP!RefinesRequestLifecycle
<1>1. Init => SP!Lifecycle!Init
  BY SameScheduler, SP!LifecycleInit, SchedulerAssumptions DEF Init
<1>2. EInv /\ [Next]_vars => [SP!Lifecycle!Next]_(SP!Lifecycle!vars)
  <2> SUFFICES ASSUME EInv, [Next]_vars
               PROVE  [SP!Lifecycle!Next]_(SP!Lifecycle!vars)
    OBVIOUS
  <2>1. [SP!Next]_(SP!vars)
    BY SchedulerSteps, SameScheduler
  <2> QED BY <2>1, SP!LifecycleStep, SchedulerAssumptions DEF EInv
<1> QED BY <1>1, <1>2, Inductive, PTL DEF Spec, SP!RefinesRequestLifecycle, SP!Lifecycle!Spec

(* Scheduler._finish_request frees what _admit_new_requests allocated: the    *)
(* requests that hold blocks are the running ones, at every moment, and an    *)
(* engine that is done has every block back.                                  *)
THEOREM BlocksReturned == Spec => []BlocksHeldByRunning
<1>1. EInv => BlocksHeldByRunning
  <2> SUFFICES ASSUME EInv PROVE BlocksHeldByRunning
    OBVIOUS
  <2>1. live = S!Running
    BY SameScheduler DEF EInv, HoldersRun
  <2>2. ASSUME S!IsDone PROVE live = {}
    <3>1. SP!Range(running) = SP!Running /\ running = <<>>
      BY <2>2 DEF EInv, SP!IInv, SP!QueuesMatchStatus, S!IsDone
    <3> QED BY <3>1 DEF EInv, HoldersRun, SP!Range
  <2>3. S!IsDone => Range(free_list) = KV!Blocks
    BY <2>2, KP!PoolAccounting, CacheAssumptions, SameCache, SameVocabulary DEF EInv
  <2> QED BY <2>1, <2>3 DEF BlocksHeldByRunning
<1> QED BY <1>1, Inductive, PTL

(* The cache keeps the promises the scheduler makes on its behalf, which its  *)
(* own proofs rest on: a cached prefix ends at a block boundary and exists    *)
(* only while something runs, and with nothing running an allocation succeeds *)
(* if the pool can hold the prompt at all.                                    *)
THEOREM CallbacksCorrect == Spec => []CallbacksAsAssumed
<1>1. EInv => CallbacksAsAssumed
  <2> SUFFICES ASSUME EInv, pc = "admitting", waiting # <<>>,
                      NEW l \in 0 .. Len(Prompt[Head(waiting)]),
                      KV!IsLongestHit(Prompt[Head(waiting)], l)
               PROVE  /\ l \in S!CachedLengths(Head(waiting))
                      /\ running = <<>> /\ KV!BlocksFor(Len(Prompt[Head(waiting)])) <= NumBlocks
                             => KV!BlocksFor(Len(Prompt[Head(waiting)]) - l) <= Len(free_list)
    BY DEF CallbacksAsAssumed
  <2> DEFINE r == Head(waiting)
             n == Len(Prompt[r])
  <2>1. r \in Requests /\ Prompt[r] \in Range(Prompt) /\ n \in Nat
    BY SP!HeadOfWaiting, SchedulerAssumptions, PromptsTyped DEF EInv, SP!IInv
  <2>2. KP!IsLongestHit(Prompt[r], l)
    BY SameCache
  <2>3. l % BlockSize = 0
    BY <2>2, CacheAssumption DEF KP!IsLongestHit, KP!Hits, KP!AlignedLengths
  <2>4. Range(running) = live
    BY SameVocabulary DEF EInv, HoldersRun, SP!IInv, SP!QueuesMatchStatus
  <2>5. running = <<>> => live = {}
    BY <2>4 DEF Range
  <2>6. l # 0 => live # {}
    BY <2>1, <2>2, KP!HitNeedsHolder, CacheAssumptions DEF EInv
  <2>7. l \in S!CachedLengths(r)
    BY <2>1, <2>3, <2>5, <2>6 DEF S!CachedLengths, PromptLengths
  <2>8. ASSUME running = <<>>, KV!BlocksFor(n) <= NumBlocks
        PROVE  KV!BlocksFor(n - l) <= Len(free_list)
    <3>1. live = {} /\ l = 0
      BY <2>5, <2>6, <2>8
    <3>2. Len(free_list) = NumBlocks
      <4>1. KP!InUse = {}
        BY <3>1 DEF KP!InUse
      <4>2. KP!Cardinality(KP!InUse) = 0
        BY <4>1, FS_EmptySet, SameVocabulary
      <4> QED BY <4>2, KP!PoolAccounting, CacheAssumptions DEF EInv
    <3>3. n - l = n
      BY <2>1, <3>1
    <3> QED BY <2>8, <3>2, <3>3
  <2> QED BY <2>7, <2>8
<1> QED BY <1>1, Inductive, PTL

(* update_from_output and append_token: a running request has a slot for each *)
(* prompt token and each token it emitted, and no more positions computed,    *)
(* for any prompts, block size, budget and order of service, as long as no    *)
(* token of its was dropped and no stale entry handed out.                    *)
THEOREM SlotsCorrect == Spec => []SlotsMatchProgress
<1>1. EInv => SlotsMatchProgress
  <2> SUFFICES ASSUME EInv, ~misled, NEW r \in S!Running \ dropped
               PROVE  SlotsUsed(r) = TokensDue(r) /\ computed[r] <= SlotsUsed(r)
    BY DEF SlotsMatchProgress, TokensDue
  <2>1. r \in live /\ r \in Requests /\ status[r] \in {"prefill", "decode"}
    BY SameScheduler DEF EInv, HoldersRun, SP!Running
  <2>2. SlotsUsed(r) = TokensDue(r)
    BY <2>1 DEF EInv, SlotsOK, SlotsMatch
  <2>3. /\ SP!CountsAgree(r) /\ cached[r] <= PromptLengths[r]
        /\ computed[r] \in Nat /\ cached[r] \in Nat /\ generated[r] \in Nat
    BY <2>1 DEF EInv, SP!IInv, SP!ComputedMatchesGenerated, SP!GrantsOK, SP!TypeOK
  <2>4. PromptLengths[r] = Len(Prompt[r]) /\ Len(Prompt[r]) \in Nat
    BY <2>1, PromptsTyped DEF PromptLengths
  <2>5. computed[r] <= Len(Prompt[r]) + generated[r]
    BY <2>1, <2>3, <2>4 DEF SP!CountsAgree
  <2>6. TokensDue(r) >= Len(Prompt[r]) + generated[r]
    BY <2>3, <2>4 DEF TokensDue
  <2>7. TokensDue(r) \in Nat
    BY <2>1, DueTyped
  <2> QED BY <2>2, <2>3, <2>4, <2>5, <2>6, <2>7
<1> QED BY <1>1, Inductive, PTL

(* The pool turns a request or a token away only when what runs may outgrow   *)
(* it, together with the prompt turned away if there is one: no block leaks,  *)
(* whatever was shared, recycled, passed over and released before.            *)
LEMMA StepOverload ==
    ASSUME EInv, [Next]_vars, ~misled
    PROVE  /\ Len(skipped') > Len(skipped) =>
                  Demand(S!Running) + KV!BlocksFor(Len(Prompt[Head(waiting)])) > NumBlocks
           /\ dropped' # dropped /\ dropped' # {} => Demand(S!Running) > NumBlocks
<1>0. /\ S!Running = live /\ Demand(live) \in Nat /\ Len(free_list) \in Nat
      /\ NumBlocks \in Nat /\ skipped \in Seq(Requests)
  BY SameScheduler, PoolBound, CacheAssumption DEF EInv, HoldersRun, SP!IInv, SP!TypeOK
<1>1. CASE Quiet
  <2>1. dropped' = dropped
    BY <1>1, QuietStep
  <2>2. skipped' = skipped \/ skipped' = <<>>
    BY <1>1 DEF Quiet, vars, scheduler, AddRequest, S!AddRequest, BeginStep, S!BeginStep,
                Select, S!EndAdmission, S!SelectRequest, S!PassOver, S!SelectRaises,
                S!StepEnds, S!EndSelection, ExecuteModel, S!ExecuteModel, EndUpdate,
                S!EndUpdate
  <2>3. Len(skipped) \in Nat /\ Len(<<>>) = 0
    BY <1>0, LenProperties
  <2> QED BY <2>1, <2>2, <2>3
<1>2. ASSUME NEW r \in Requests, NEW l \in 0 .. Len(Prompt[r]), AdmitRequest(r, l)
      PROVE  dropped' = dropped /\ skipped' = skipped
  BY <1>2 DEF AdmitRequest, S!AdmitRequest, own
<1>3. ASSUME NEW r \in Requests, NEW l \in 0 .. Len(Prompt[r]), SkipRequest(r, l)
      PROVE  /\ dropped' = dropped
             /\ Demand(live) + KV!BlocksFor(Len(Prompt[Head(waiting)])) > NumBlocks
  <2> DEFINE n == Len(Prompt[r])
  <2>1. /\ r = Head(waiting) /\ dropped' = dropped
        /\ KP!BlocksFor(n - l) > Len(free_list)
    BY <1>3, SameCache DEF SkipRequest, S!SkipRequest, own, KV!AllocateBlocksFails
  <2>2. n \in Nat /\ l \in Nat /\ n - l \in Nat /\ n - l <= n
    BY PromptsTyped
  <2> HIDE DEF n
  <2>3. KP!BlocksFor(n) \in Nat /\ KP!BlocksFor(n - l) \in Nat
        /\ KP!BlocksFor(n - l) <= KP!BlocksFor(n)
    BY <2>2, KP!BlocksForBounds, KP!BlocksForMonotone, CacheAssumptions
  <2>4. Demand(live) + KP!BlocksFor(n) > NumBlocks
    BY <1>0, <2>1, <2>3, PoolBound
  <2> QED BY <2>1, <2>4, SameCache DEF n
<1>4. ASSUME NEW r \in Requests, AppendToken(r)
      PROVE  /\ skipped' = skipped
             /\ dropped' # dropped => Demand(live) > NumBlocks
  <2>1. skipped' = skipped /\ ~appended
    BY <1>4 DEF AppendToken, scheduler
  <2>2. ASSUME dropped' # dropped PROVE Demand(live) > NumBlocks
    <3>1. KP!LastBlockFull(r) /\ free_list = <<>> /\ r = Head(scheduled) /\ scheduled # <<>>
      BY <1>4, <2>2, SameCache DEF AppendToken
    <3>2. r \in live
      <4>1. /\ scheduled \in Seq(Requests) /\ SP!IsInjective(scheduled)
            /\ SP!Range(scheduled) \subseteq SP!Running
        BY DEF EInv, SP!IInv, SP!TypeOK, SP!LocalsOK
      <4>2. r \in SP!Range(scheduled)
        BY <3>1, <4>1, SP!TailInjective, SchedulerAssumptions
      <4> QED BY <4>1, <4>2 DEF EInv, HoldersRun
    <3>3. Len(tables[r]) < BlocksEventually(r)
      BY <2>1, <3>1, <3>2, BlocksBound
    <3>4. NumBlocks < Len(free_list) + Demand(live)
      BY <3>2, <3>3, PoolBound
    <3> QED BY <1>0, <3>1, <3>4
  <2> QED BY <2>1, <2>2
<1>5. ASSUME NEW r \in Requests, UpdateUnfinished(r) \/ UpdateFinished(r)
      PROVE  dropped' = dropped /\ skipped' = skipped
  BY <1>5 DEF UpdateUnfinished, UpdateFinished, S!UpdateUnfinished, S!UpdateFinished, S!Updating
<1>6. CASE Reset
  BY <1>6 DEF Reset, S!Reset
<1>7. Len(skipped) \in Nat
  BY <1>0, LenProperties
<1> QED BY <1>0, <1>1, <1>2, <1>3, <1>4, <1>5, <1>6, <1>7, StepKinds

(* So a request that waits although the policy would admit it, and a token    *)
(* the cache has no slot for, are always the price of an overload: the        *)
(* running requests may outgrow the pool.                                     *)
THEOREM FailuresJustified == Spec => FailuresMeanOverload
<1>1. EInv /\ [Next]_vars =>
          [~misled =>
              /\ Len(skipped') > Len(skipped) =>
                     Demand(S!Running) + KV!BlocksFor(Len(Prompt[Head(waiting)])) > NumBlocks
              /\ dropped' # dropped /\ dropped' # {} => Demand(S!Running) > NumBlocks]_vars
  BY StepOverload
<1> QED BY <1>1, Inductive, PTL DEF Spec, FailuresMeanOverload

(* Every field of the engine has its type, whatever is added, shared, dropped *)
(* or reset, and in whatever order.                                           *)
THEOREM EngineTypeCorrect == Spec => []TypeOK
<1>1. EInv => TypeOK
  BY SameScheduler, SameCache DEF EInv, SP!IInv, KP!IInv, OwnOK, TypeOK
<1> QED BY <1>1, Inductive, PTL

(* KVCacheManager.allocate_blocks, as the engine calls it: without a lapsed   *)
(* hit, the blocks of a running request hold the KV state of its own prompt.  *)
THEOREM EngineTablesSound ==
    Spec => [](~misled => \A r \in S!Running : prompt_of[r] = Prompt[r] /\ KP!TableSound(r))
<1>1. EInv => (~misled => \A r \in S!Running : prompt_of[r] = Prompt[r] /\ KP!TableSound(r))
  BY SameScheduler DEF EInv, HoldersRun, KP!Soundness, KP!TablesSound
<1> QED BY <1>1, Inductive, PTL
=============================================================================
