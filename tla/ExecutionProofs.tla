---------------------------- MODULE ExecutionProofs ----------------------------
(***************************************************************************)
(* Proofs about what runs a model.                                         *)
(*                                                                         *)
(* ExecutorBackends, for every set of requests, every profile of the       *)
(* engine, every number of failures and of runs of the scripts: the        *)
(* scheduler keeps its books although a backend may leave run_step at any  *)
(* call, tokens are counted once, and the models run the sequences the     *)
(* scheduler reckons with.                                                 *)
(*                                                                         *)
(* TiledAttention, for every number of queries and keys, every mask, every *)
(* tile size and every base of the exponentials: the tiles of a row give   *)
(* the softmax over all of its keys.                                       *)
(***************************************************************************)
EXTENDS ExecutorBackends, TiledAttention, CollectionLemmas

SP == INSTANCE SchedulerProofs WITH ChunkedPrefill <- FALSE, PrefillChunkSize <- 1

LEMMA SchedulerAssumptions ==
    /\ SP!IsFiniteSet(Requests)
    /\ PromptLength \in [Requests -> Nat] /\ MaxNewTokens \in [Requests -> Nat]
    /\ Priority \in [Requests -> Int]
    /\ MaxNumScheduledTokens \in Nat \ {0}
    /\ FALSE \in BOOLEAN /\ 1 \in Nat \ {0}
    /\ MemoryBudget \in Nat /\ MaxNumSeqs \in Nat /\ MaxPerPriority \in Nat
    /\ BlockSize \in Nat \ {0}
<1>1. SP!IsFiniteSet(Requests)
  BY RequestsAssumption DEF IsFiniteSet, SP!IsFiniteSet
<1> QED BY <1>1, ShapesAssumption, SchedulerAssumption

(* The scheduler as ExecutorBackends instantiates it, and as its proofs do. *)
LEMMA SameScheduler ==
    /\ S!Init <=> SP!Init
    /\ S!Next <=> SP!Next
    /\ S!vars = SP!vars /\ S!vars' = SP!vars'
    /\ \A r \in Requests : S!Updating(r) <=> SP!Updating(r)
BY
   DEF S!queues, SP!queues, S!requests, SP!requests, S!policy, SP!policy, S!helper,
       SP!helper, S!output, SP!output, S!vars, SP!vars, S!Priorities, SP!Priorities,
       S!Steps, SP!Steps, S!Smaller, SP!Smaller, S!Larger, SP!Larger,
       S!EstimatedKvSize, SP!EstimatedKvSize, S!RemainingPrefill, SP!RemainingPrefill,
       S!IsFinishedWith, SP!IsFinishedWith, S!CachedLengths, SP!CachedLengths,
       S!CanAdmit, SP!CanAdmit, S!Prefilling, SP!Prefilling, S!DesiredTokens,
       SP!DesiredTokens, S!Whole, SP!Whole, S!TooLarge, SP!TooLarge, S!MustWait,
       SP!MustWait, S!Grant, SP!Grant, S!BudgetAfter, SP!BudgetAfter,
       S!ReachesSamplingPoint, SP!ReachesSamplingPoint, S!PrefillComputed,
       SP!PrefillComputed, S!RemoveAt, SP!RemoveAt, S!IndexOf, SP!IndexOf, S!Without,
       SP!Without, S!Idle, SP!Idle, S!StepEnds, SP!StepEnds, S!Init, SP!Init,
       S!AddRequest, SP!AddRequest, S!BeginStep, SP!BeginStep, S!AdmitRequest,
       SP!AdmitRequest, S!SkipRequest, SP!SkipRequest, S!BackToWaiting,
       SP!BackToWaiting, S!EndAdmission, SP!EndAdmission, S!Selecting, SP!Selecting,
       S!SelectRequest, SP!SelectRequest, S!PassOver, SP!PassOver, S!SelectRaises,
       SP!SelectRaises, S!EndSelection, SP!EndSelection, S!RunnerCacheAfterStep,
       SP!RunnerCacheAfterStep, S!ExecuteModel, SP!ExecuteModel, S!TotalPrefill,
       SP!TotalPrefill, S!ProcessedAfter, SP!ProcessedAfter, S!GeneratedAfter,
       SP!GeneratedAfter, S!Updating, SP!Updating, S!UpdateUnfinished,
       SP!UpdateUnfinished, S!MemoryAfter, SP!MemoryAfter, S!FinishRequest,
       SP!FinishRequest, S!UpdateFinished, SP!UpdateFinished, S!EndUpdate,
       SP!EndUpdate, S!Reset, SP!Reset, S!Advance, SP!Advance, S!Next, SP!Next,
       S!TypeOK, SP!TypeOK, S!Running, SP!Running, SP!Range, S!Range, Range

-----------------------------------------------------------------------------
(* The inductive invariant.  To what the scheduler keeps, prompts whole, comes *)
(* that nothing is sampled but for the update, and that nothing runs before    *)
(* the executor is there: what it has loaded does not change during a step.    *)

OwnOK ==
    /\ TypeOK
    /\ pc # "updating" => sampled = {}
    /\ backend = "none" => pc = "idle"

BInv ==
    /\ SP!IInv /\ SP!WholeOK
    /\ OwnOK
    /\ TokensReported
    /\ SequencesMatchSchedule

(* Requests sampled in this step that the update has not come to. *)
Unreported == sampled \cap Range(scheduled)

LEMMA Ranges == \A s : Range(s) = SP!Range(s)
BY DEF Range, SP!Range

-----------------------------------------------------------------------------
(* A step of the engine is one of the scheduler, or leaves it alone, or is one *)
(* of the two the backend makes: the end of the execution and an exception.    *)

(* Neither the scheduler nor the token count moves. *)
Aside ==
    \/ UNCHANGED vars
    \/ Scripts
    \/ \E b \in {"onnx", "tensorrt"} : CreateEngine(b)
    \/ \E r \in Requests : RunRequest(r)

(* Steps before the execution. *)
Before ==
    \/ \E r \in Requests : AddRequest(r)
    \/ BeginStep \/ Schedule \/ EndSelection

UpdateOf(r) == (S!UpdateUnfinished(r) \/ S!UpdateFinished(r)) /\ UNCHANGED <<scripts, executor, runner>>
LastUpdate == S!EndUpdate /\ UNCHANGED <<scripts, executor, runner>>

LEMMA StepKinds ==
    ASSUME [Next]_vars
    PROVE  \/ Aside \/ Before \/ RunRaises \/ EndExecution \/ LastUpdate \/ Reset
           \/ \E r \in Requests : UpdateOf(r)
BY DEF Next, Engine, Update, Aside, Before, UpdateOf, LastUpdate

LEMMA AsideStands ==
    ASSUME Aside
    PROVE  UNCHANGED scheduler /\ total_tokens' = total_tokens
<1>1. CASE UNCHANGED vars
  BY <1>1 DEF vars, runner
<1>2. CASE Scripts
  BY <1>2 DEF Scripts, Export, EndExport, EndConversion, ExportFails, Build, BuildFails,
              SaveEngine, EngineSaved, KillTool, runner
<1>3. ASSUME NEW b \in {"onnx", "tensorrt"}, CreateEngine(b)
      PROVE  UNCHANGED scheduler /\ total_tokens' = total_tokens
  BY <1>3 DEF CreateEngine, runner
<1>4. ASSUME NEW r \in Requests, RunRequest(r)
      PROVE  UNCHANGED scheduler /\ total_tokens' = total_tokens
  BY <1>4 DEF RunRequest
<1> QED BY <1>1, <1>2, <1>3, <1>4 DEF Aside

LEMMA BeforeSteps ==
    ASSUME Before
    PROVE  /\ S!Next
           /\ UNCHANGED <<generated, total_tokens>>
           /\ pc # "updating" /\ pc' # "updating"
           /\ sampled' = sampled \/ sampled' = {}
           /\ pc' = "executing" => EndSelection
           /\ UNCHANGED <<scripts, executor, failures>>
           /\ EndSelection \/ UNCHANGED runner
<1>1. ASSUME NEW r \in Requests, AddRequest(r)
      PROVE  /\ S!Next /\ pc = "idle" /\ pc' = "idle"
             /\ UNCHANGED <<generated, sampled, scripts, executor, runner>>
  BY <1>1 DEF AddRequest, S!AddRequest, S!Next
<1>2. CASE BeginStep
  <2>1. /\ S!Next /\ pc = "idle" /\ pc' = "admitting"
        /\ UNCHANGED <<generated, sampled, scripts, executor, runner>>
    BY <1>2 DEF BeginStep, S!BeginStep, S!requests, S!Next
  <2> QED BY <2>1 DEF runner
<1>3. CASE Schedule
  <2>1. ASSUME NEW r \in Requests, NEW hit \in 0 .. PromptLength[r], S!AdmitRequest(r, hit)
        PROVE  /\ S!Next /\ pc = "admitting" /\ pc' = "admitting"
               /\ UNCHANGED <<generated, sampled>>
    BY <2>1 DEF S!AdmitRequest, S!Next, S!Advance
  <2>2. ASSUME NEW r \in Requests,
               S!SkipRequest(r) \/ S!SelectRequest(r) \/ S!PassOver(r) \/ S!SelectRaises(r)
        PROVE  /\ S!Next /\ pc # "updating" /\ pc' \in {"admitting", "selecting", "idle"}
               /\ generated' = generated
               /\ sampled' = sampled \/ sampled' = {}
    BY <2>2 DEF S!SkipRequest, S!SelectRequest, S!PassOver, S!SelectRaises, S!Selecting,
                S!StepEnds, S!requests, S!Next, S!Advance
  <2>3. /\ S!Next /\ pc # "updating" /\ pc' \in {"admitting", "selecting", "idle"}
        /\ generated' = generated
        /\ sampled' = sampled \/ sampled' = {}
    <3>1. CASE S!EndAdmission
      BY <3>1 DEF S!EndAdmission, S!requests, S!Next, S!Advance
    <3> QED BY <1>3, <2>1, <2>2, <3>1 DEF Schedule
  <2> QED BY <1>3, <2>3 DEF Schedule, runner
<1>4. CASE EndSelection
  <2>1. /\ S!Next /\ pc = "selecting" /\ pc' = "executing"
        /\ UNCHANGED <<generated, sampled>>
    BY <1>4 DEF EndSelection, S!EndSelection, S!Next, S!Advance
  <2> QED BY <1>4, <2>1 DEF EndSelection
<1> QED BY <1>1, <1>2, <1>3, <1>4 DEF Before, runner

LEMMA UpdateSteps ==
    ASSUME NEW r \in Requests, UpdateOf(r)
    PROVE  /\ S!Next /\ S!Updating(r)
           /\ pc = "updating" /\ pc' = "updating"
           /\ sampled' = sampled /\ UNCHANGED <<scripts, executor, runner>>
           /\ generated' = [generated EXCEPT ![r] = IF r \in sampled THEN generated[r] + 1
                                                                    ELSE generated[r]]
BY DEF UpdateOf, S!UpdateUnfinished, S!UpdateFinished, S!Updating, S!GeneratedAfter,
       S!Next, S!Advance

LEMMA LastSteps ==
    /\ LastUpdate => /\ S!Next /\ pc = "updating" /\ pc' = "idle" /\ scheduled = <<>>
                     /\ generated' = generated /\ sampled' = {}
                     /\ UNCHANGED <<scripts, executor, runner>>
    /\ Reset => /\ S!Next /\ pc = "idle" /\ pc' = "idle"
                /\ generated' = [r \in Requests |-> 0] /\ sampled' = sampled
                /\ total_tokens' = 0
                /\ UNCHANGED <<scripts, executor, todo, ran, failures>>
BY DEF LastUpdate, Reset, S!EndUpdate, S!StepEnds, S!requests, S!Reset, S!Next, S!Advance

-----------------------------------------------------------------------------
(* The scheduler's invariant survives a step that a backend abandons, for the *)
(* queues and the requests are as they were when it began to execute, and the *)
(* end of the execution, which differs from that of ModelRunner only in that  *)
(* there is no request cache.                                                 *)

LEMMA EmptyScan ==
    /\ SP!IsInjective(<<>>) /\ SP!Range(<<>>) = {} /\ <<>> \in Seq(Requests)
BY DEF SP!IsInjective, SP!Range

LEMMA AbandonKeeps ==
    ASSUME SP!IInv, SP!WholeOK, RunRaises
    PROVE  SP!IInv' /\ SP!WholeOK'
<1>1. /\ pc' = "idle" /\ skipped' = <<>> /\ cursor' = 0 /\ budget' = 0 /\ scheduled' = <<>>
      /\ tokens' = [r \in Requests |-> 0] /\ finished_ids' = {} /\ sampled' = {}
      /\ pc = "executing"
      /\ UNCHANGED <<waiting, running, finished, status, cached, computed, generated, sent,
                     finished_since, current_memory, total_running, priority_counts, tracked,
                     processed, runner_cache>>
  BY DEF RunRaises, S!StepEnds
<1>2. skipped' = skipped
  BY <1>1 DEF SP!IInv, SP!LocalsOK
<1>3. SP!TypeOK'
  BY <1>1, EmptyScan DEF SP!IInv, SP!TypeOK, SP!Steps
<1>4. SP!QueuesMatchStatus'
  BY <1>1, <1>2 DEF SP!IInv, SP!QueuesMatchStatus, SP!Waiting, SP!Running, SP!Finished
<1>5. SP!LocalsOK'
  BY <1>1, EmptyScan DEF SP!LocalsOK
<1>6. SP!CountsMatchRunning'
  BY <1>1 DEF SP!IInv, SP!CountsMatchRunning, SP!Running
<1>7. SP!ComputedMatchesGenerated'
  BY <1>1 DEF SP!IInv, SP!ComputedMatchesGenerated, SP!CountsAgree
<1>8. SP!GrantsOK'
  BY <1>1, EmptyScan DEF SP!IInv, SP!GrantsOK
<1>9. SP!WholeOK'
  BY <1>1, EmptyScan DEF SP!WholeOK, SP!PromptsComputedWhole
<1> QED BY <1>3, <1>4, <1>5, <1>6, <1>7, <1>8, <1>9 DEF SP!IInv

LEMMA ExecutionKeeps ==
    ASSUME SP!IInv, SP!WholeOK, EndExecution
    PROVE  SP!IInv' /\ SP!WholeOK'
<1>1. /\ pc = "executing" /\ pc' = "updating"
      /\ sampled' = {r \in SP!Range(scheduled) : computed[r] + tokens[r] >= PromptLength[r]}
      /\ UNCHANGED <<waiting, running, finished, status, cached, computed, generated, sent,
                     finished_since, current_memory, total_running, priority_counts, tracked,
                     processed, runner_cache, skipped, cursor, budget, scheduled, tokens,
                     finished_ids>>
  BY Ranges DEF EndExecution, Samples
<1>2. SP!Range(scheduled) \subseteq Requests
  BY DEF SP!IInv, SP!LocalsOK, SP!Running
<1>3. SP!TypeOK'
  BY <1>1, <1>2 DEF SP!IInv, SP!TypeOK, SP!Steps
<1>4. SP!QueuesMatchStatus'
  BY <1>1 DEF SP!IInv, SP!QueuesMatchStatus, SP!Waiting, SP!Running, SP!Finished
<1>5. SP!LocalsOK'
  BY <1>1 DEF SP!IInv, SP!LocalsOK, SP!Running
<1>6. SP!CountsMatchRunning'
  BY <1>1 DEF SP!IInv, SP!CountsMatchRunning, SP!Running
<1>7. SP!ComputedMatchesGenerated'
  BY <1>1 DEF SP!IInv, SP!ComputedMatchesGenerated, SP!CountsAgree
<1>8. SP!GrantsOK'
  BY <1>1 DEF SP!IInv, SP!GrantsOK, SP!Prefilling, SP!RemainingPrefill,
              SP!ReachesSamplingPoint
<1>9. SP!WholeOK'
  BY <1>1 DEF SP!WholeOK, SP!PromptsComputedWhole, SP!Prefilling, SP!RemainingPrefill
<1> QED BY <1>3, <1>4, <1>5, <1>6, <1>7, <1>8, <1>9 DEF SP!IInv

LEMMA StepScheduler == SP!IInv /\ SP!WholeOK /\ [Next]_vars => SP!IInv' /\ SP!WholeOK'
<1> SUFFICES ASSUME SP!IInv, SP!WholeOK, [Next]_vars
             PROVE  SP!IInv' /\ SP!WholeOK'
  OBVIOUS
<1>1. ASSUME S!Next \/ UNCHANGED S!vars
      PROVE  SP!IInv' /\ SP!WholeOK'
  <2>1. [SP!Next]_(SP!vars)
    BY <1>1, SameScheduler
  <2>2. SP!IInv'
    BY <2>1, SP!StepIInv, SchedulerAssumptions
  <2>3. SP!WholeOK'
    BY <2>1, <2>2, SP!StepWhole, SchedulerAssumptions
  <2> QED BY <2>2, <2>3
<1>2. CASE Aside
  BY <1>1, <1>2, AsideStands DEF scheduler, S!vars
<1> QED BY <1>1, <1>2, AbandonKeeps, ExecutionKeeps, BeforeSteps, UpdateSteps, LastSteps,
           StepKinds

-----------------------------------------------------------------------------
(* What the backend adds keeps its types, and its place in the step. *)

LEMMA LengthsTyped ==
    ASSUME SP!TypeOK, NEW r \in Requests
    PROVE  PromptLength[r] \in Nat /\ InputLength(r) \in Nat
<1>1. PromptLength[r] \in Nat /\ generated[r] \in Nat
  BY ShapesAssumption DEF SP!TypeOK
<1> QED BY <1>1 DEF InputLength

LEMMA ScriptsKeep ==
    ASSUME TypeOK, Scripts
    PROVE  TypeOK'
<1>1. UNCHANGED <<scheduler, executor, runner>>
  BY DEF Scripts, Export, EndExport, EndConversion, ExportFails, Build, BuildFails, SaveEngine,
         EngineSaved, KillTool
<1>2. tool' \in Tools /\ tools' \in 0 .. MaxTools
  BY BoundsAssumption
     DEF Scripts, Export, EndExport, EndConversion, ExportFails, Build, BuildFails, SaveEngine,
         EngineSaved, KillTool, UseTool, ToolDone, TypeOK, Tools
<1>3. files' \in [Files -> FileStates]
  <2>1. CASE EndConversion
    BY <2>1 DEF EndConversion, TypeOK, Files, Models, FileStates
  <2>2. CASE ~EndConversion
    BY <2>2 DEF Scripts, Export, EndExport, ExportFails, Build, BuildFails, SaveEngine,
                EngineSaved, KillTool, TypeOK, Files, Models, FileStates
  <2> QED BY <2>1, <2>2
<1>4. killed' \in BOOLEAN
  BY DEF Scripts, Export, EndExport, EndConversion, ExportFails, Build, BuildFails, SaveEngine,
         EngineSaved, KillTool, TypeOK
<1> QED BY <1>1, <1>2, <1>3, <1>4 DEF TypeOK, executor, runner

LEMMA RunTyped ==
    ASSUME SP!TypeOK, TypeOK, NEW r \in Requests, RunRequest(r)
    PROVE  todo' \in Seq(Requests) /\ ran' \in [Requests -> Nat] /\ shape' \in Nat
<1>1. InputLength(r) \in Nat /\ PromptLength[r] \in Nat
  BY LengthsTyped
<1>2. todo' \in Seq(Requests)
  BY HeadTailProperties DEF RunRequest, TypeOK
<1>3. CASE RunOnnx(r)
  BY <1>1, <1>2, <1>3 DEF RunOnnx, TypeOK
<1>4. CASE RunTensorRT(r)
  <2>1. shape' \in Nat
    BY <1>1, <1>4 DEF RunTensorRT, TypeOK
  <2> QED BY <1>2, <1>4, <2>1 DEF RunTensorRT, TypeOK
<1>5. CASE Simulate(r)
  BY <1>1, <1>2, <1>5 DEF Simulate, TypeOK
<1> QED BY <1>3, <1>4, <1>5 DEF RunRequest

LEMMA SamplesCounted ==
    ASSUME SP!TypeOK
    PROVE  /\ IsFiniteSet({r \in Range(scheduled) : Samples(r)})
           /\ TokensOfStep \in Nat
<1>1. Range(scheduled) \subseteq Requests
  BY RangeMembers DEF SP!TypeOK
<1>2. IsFiniteSet({r \in Range(scheduled) : Samples(r)})
  BY <1>1, RequestsAssumption, FS_Subset
<1> QED BY <1>2, FS_CardinalityType DEF TokensOfStep

LEMMA StepOwn ==
    SP!IInv /\ OwnOK /\ [Next]_vars => OwnOK'
<1> SUFFICES ASSUME SP!IInv, OwnOK, [Next]_vars
             PROVE  OwnOK'
  OBVIOUS
<1>0. TypeOK /\ SP!TypeOK /\ MaxFailures \in Nat /\ MaxTools \in Nat
  BY BoundsAssumption DEF OwnOK, SP!IInv
<1>1. CASE Aside
  <2>1. /\ UNCHANGED scheduler
        /\ total_tokens' = total_tokens
    BY <1>1, AsideStands
  <2>2. TypeOK'
    <3>1. CASE UNCHANGED vars
      BY <1>0, <3>1 DEF vars, scripts, executor, runner, TypeOK
    <3>2. CASE Scripts
      BY <1>0, <3>2, ScriptsKeep
    <3>3. ASSUME NEW b \in {"onnx", "tensorrt"}, CreateEngine(b) PROVE TypeOK'
      <4>1. loaded' \in BOOLEAN /\ shape' \in Nat
        <5>1. ASSUME NEW file \in Models, LoadModel(file) PROVE loaded' \in BOOLEAN /\ shape' \in Nat
          <6>1. (files[file] = "whole") \in BOOLEAN
            OBVIOUS
          <6>2. loaded' \in BOOLEAN
            BY <5>1, <6>1, Zenon DEF LoadModel
          <6> QED BY <5>1, <6>2 DEF LoadModel
        <5>2. ASSUME LoadEngine PROVE loaded' \in BOOLEAN /\ shape' \in Nat
          <6>1. loaded' \in BOOLEAN
            BY <5>2, Zenon DEF LoadEngine
          <6> QED BY <5>2, <6>1, ProfileAssumption DEF LoadEngine
        <5> QED BY <3>3, <5>1, <5>2 DEF CreateEngine
      <4> QED BY <1>0, <3>3, <4>1 DEF CreateEngine, scripts, runner, TypeOK
    <3>4. ASSUME NEW r \in Requests, RunRequest(r) PROVE TypeOK'
      <4>1. todo' \in Seq(Requests) /\ ran' \in [Requests -> Nat] /\ shape' \in Nat
        BY <1>0, <3>4, RunTyped
      <4> QED BY <1>0, <3>4, <4>1 DEF RunRequest, scripts, TypeOK
    <3> QED BY <1>1, <3>1, <3>2, <3>3, <3>4 DEF Aside
  <2>3. backend' = "none" => backend = "none"
    <3>1. CASE UNCHANGED vars
      BY <3>1 DEF vars, executor
    <3>2. CASE Scripts
      BY <3>2 DEF Scripts, Export, EndExport, EndConversion, ExportFails, Build, BuildFails,
                  SaveEngine, EngineSaved, KillTool, executor
    <3> QED BY <1>1, <3>1, <3>2 DEF Aside, CreateEngine, RunRequest
  <2> QED BY <2>1, <2>2, <2>3 DEF OwnOK, scheduler
<1>2. CASE Before
  <2>1. /\ UNCHANGED <<scripts, executor, failures, total_tokens>>
        /\ pc # "updating" /\ pc' # "updating"
        /\ sampled' = sampled \/ sampled' = {}
        /\ EndSelection \/ UNCHANGED runner
    BY <1>2, BeforeSteps
  <2>2. todo' \in Seq(Requests) /\ ran' \in [Requests -> Nat]
    <3>1. CASE EndSelection
      <4>1. /\ todo' \in [DOMAIN scheduled -> Range(scheduled)]
            /\ ran' = [r \in Requests |-> 0]
        BY <3>1 DEF EndSelection, NoLengths
      <4>2. /\ DOMAIN scheduled = 1 .. Len(scheduled) /\ Len(scheduled) \in Nat
            /\ Range(scheduled) \subseteq Requests
        BY <1>0, LenProperties, RangeMembers DEF SP!TypeOK
      <4> QED BY <4>1, <4>2
    <3>2. CASE UNCHANGED runner
      BY <1>0, <3>2 DEF runner, TypeOK
    <3> QED BY <2>1, <3>1, <3>2
  <2>3. TypeOK'
    BY <1>0, <2>1, <2>2 DEF TypeOK, scripts, executor
  <2>4. backend # "none"
    <3>1. CASE \/ \E r \in Requests : AddRequest(r)
               \/ BeginStep
      BY <3>1 DEF AddRequest, BeginStep
    <3>2. CASE Schedule \/ EndSelection
      <4>1. pc # "idle"
        BY <3>2 DEF Schedule, EndSelection, S!AdmitRequest, S!SkipRequest, S!SelectRequest,
                    S!PassOver, S!SelectRaises, S!Selecting, S!EndAdmission, S!EndSelection
      <4> QED BY <4>1 DEF OwnOK
    <3> QED BY <1>2, <3>1, <3>2 DEF Before
  <2> QED BY <2>1, <2>3, <2>4 DEF OwnOK, executor
<1>3. CASE RunRaises
  <2>1. failures' \in 0 .. MaxFailures
    BY <1>0, <1>3 DEF RunRaises, TypeOK
  <2>2. TypeOK'
    BY <1>0, <1>3, <2>1 DEF RunRaises, NoLengths, TypeOK, scripts, executor
  <2> QED BY <1>3, <2>2 DEF RunRaises, S!StepEnds, OwnOK
<1>4. CASE EndExecution
  <2>1. total_tokens' \in Nat
    BY <1>0, <1>4, SamplesCounted DEF EndExecution, TypeOK
  <2>2. TypeOK'
    BY <1>0, <1>4, <2>1 DEF EndExecution, TypeOK, scripts, executor
  <2> QED BY <1>4, <2>2 DEF EndExecution, OwnOK, executor
<1>5. ASSUME NEW r \in Requests, UpdateOf(r) PROVE OwnOK'
  <2>1. pc = "updating" /\ pc' = "updating" /\ UNCHANGED <<scripts, executor, runner>>
    BY <1>5, UpdateSteps
  <2> QED BY <1>0, <2>1 DEF OwnOK, TypeOK, scripts, executor, runner
<1>6. CASE LastUpdate
  BY <1>0, <1>6, LastSteps DEF OwnOK, TypeOK, scripts, executor, runner
<1>7. CASE Reset
  BY <1>0, <1>7, LastSteps DEF OwnOK, TypeOK, scripts, executor, runner
<1> QED BY <1>1, <1>2, <1>3, <1>4, <1>5, <1>6, <1>7, StepKinds

-----------------------------------------------------------------------------
(* The count of tokens.  What the runner has counted and the requests have    *)
(* not is what was sampled and not yet handed out.                            *)

LEMMA TokensSummed ==
    ASSUME SP!TypeOK
    PROVE  /\ generated \in [Requests -> Int]
           /\ SumFunctionOnSet(generated, Requests) \in Nat
           /\ Range(scheduled) \subseteq Requests
           /\ IsFiniteSet(Unreported) /\ Cardinality(Unreported) \in Nat
<1>1. generated \in [Requests -> Nat] /\ generated \in [Requests -> Int]
  BY DEF SP!TypeOK
<1>2. SumFunctionOnSet(generated, Requests) \in Nat
  BY <1>1, RequestsAssumption, SumNat
<1>3. Range(scheduled) \subseteq Requests
  BY RangeMembers DEF SP!TypeOK
<1>4. IsFiniteSet(Unreported)
  BY <1>3, RequestsAssumption, FS_Subset DEF Unreported
<1> QED BY <1>1, <1>2, <1>3, <1>4, FS_CardinalityType

LEMMA StepTokens ==
    SP!IInv /\ OwnOK /\ TokensReported /\ [Next]_vars => TokensReported'
<1> SUFFICES ASSUME SP!IInv, OwnOK, TokensReported, [Next]_vars
             PROVE  TokensReported'
  OBVIOUS
<1> DEFINE Sum == SumFunctionOnSet(generated, Requests)
<1>0. SP!TypeOK
  BY DEF SP!IInv
<1>1. /\ Sum \in Nat /\ Cardinality(Unreported) \in Nat /\ IsFiniteSet(Unreported)
      /\ generated \in [Requests -> Int]
  BY <1>0, TokensSummed
<1>2. total_tokens = Sum + Cardinality(Unreported)
  BY DEF TokensReported, Unreported
<1>3. pc # "updating" => Unreported = {} /\ Cardinality(Unreported) = 0
  BY FS_EmptySet DEF OwnOK, Unreported
<1>4. CASE Aside
  BY <1>4, AsideStands DEF scheduler, TokensReported
<1>5. ASSUME UNCHANGED <<generated, total_tokens>>, pc # "updating", sampled' = {}
      PROVE  TokensReported'
  <2>1. sampled' \cap Range(scheduled') = {}
    BY <1>5
  <2>2. Cardinality(sampled' \cap Range(scheduled')) = 0
    BY <2>1, FS_EmptySet
  <2>3. total_tokens' = SumFunctionOnSet(generated', Requests) + 0
    BY <1>1, <1>2, <1>3, <1>5
  <2> QED BY <2>2, <2>3 DEF TokensReported
<1>6. CASE Before
  <2>1. sampled = {}
    BY <1>6, BeforeSteps DEF OwnOK
  <2> QED BY <1>5, <1>6, <2>1, BeforeSteps
<1>7. CASE RunRaises
  BY <1>5, <1>7 DEF RunRaises, S!StepEnds
<1>8. CASE EndExecution
  <2>1. /\ pc = "executing"
        /\ sampled' = {r \in Range(scheduled) : Samples(r)}
        /\ total_tokens' = total_tokens + TokensOfStep
        /\ generated' = generated /\ scheduled' = scheduled
    BY <1>8 DEF EndExecution
  <2>2. sampled' \cap Range(scheduled') = {r \in Range(scheduled) : Samples(r)}
    BY <2>1
  <2>3. total_tokens' = Sum + Cardinality({r \in Range(scheduled) : Samples(r)})
    <3>1. TokensOfStep \in Nat
      BY <1>0, SamplesCounted
    <3>2. total_tokens = Sum
      BY <1>1, <1>2, <1>3, <2>1
    <3> QED BY <2>1, <3>1, <3>2 DEF TokensOfStep
  <2> QED BY <2>1, <2>2, <2>3 DEF TokensReported
<1>9. ASSUME NEW r \in Requests, UpdateOf(r) PROVE TokensReported'
  <2>1. /\ SP!Updating(r) /\ sampled' = sampled /\ total_tokens' = total_tokens
        /\ generated' = [generated EXCEPT ![r] = IF r \in sampled THEN generated[r] + 1
                                                                  ELSE generated[r]]
    BY <1>9, UpdateSteps, SameScheduler DEF runner
  <2>2. /\ r \in Range(scheduled)
        /\ Range(scheduled') = Range(scheduled) \ {r}
    <3>1. r \in SP!Range(scheduled) /\ SP!Range(scheduled') = SP!Range(scheduled) \ {r}
      BY <2>1, SP!HeadOfScheduled, SchedulerAssumptions
    <3> QED BY <3>1, Ranges
  <2>3. sampled' \cap Range(scheduled') = Unreported \ {r}
    BY <2>1, <2>2 DEF Unreported
  <2>4. generated[r] \in Int
    BY <1>1
  <2>5. CASE r \in sampled
    <3>1. SumFunctionOnSet(generated', Requests) = Sum + 1
      <4>1. /\ generated' \in [Requests -> Int] /\ generated'[r] = generated[r] + 1
            /\ \A q \in Requests \ {r} : generated'[q] = generated[q]
        BY <1>1, <2>1, <2>5
      <4>2. SumFunctionOnSet(generated', Requests) = Sum - generated[r] + generated'[r]
        BY <1>1, <4>1, RequestsAssumption, SumExcept
      <4> QED BY <1>1, <2>4, <4>1, <4>2
    <3>2. r \in Unreported
      BY <2>2, <2>5 DEF Unreported
    <3>3. Cardinality(Unreported \ {r}) = Cardinality(Unreported) - 1
      BY <1>1, <3>2, FS_RemoveElement
    <3>4. total_tokens' = SumFunctionOnSet(generated', Requests) + Cardinality(Unreported \ {r})
      BY <1>1, <1>2, <2>1, <3>1, <3>3
    <3> QED BY <2>3, <3>4 DEF TokensReported
  <2>6. CASE r \notin sampled
    <3>1. generated' = generated
      BY <1>1, <2>1, <2>6
    <3>2. Unreported \ {r} = Unreported
      BY <2>6 DEF Unreported
    <3> QED BY <1>2, <2>1, <2>3, <3>1, <3>2 DEF TokensReported
  <2> QED BY <2>5, <2>6
<1>10. CASE LastUpdate
  <2>1. /\ scheduled = <<>> /\ generated' = generated /\ sampled' = {}
        /\ total_tokens' = total_tokens
    BY <1>10, LastSteps DEF runner
  <2>2. Unreported = {} /\ sampled' \cap Range(scheduled') = {}
    BY <2>1, EmptyScan, Ranges DEF Unreported
  <2> QED BY <1>2, <2>1, <2>2 DEF TokensReported
<1>11. CASE Reset
  <2>1. /\ pc = "idle" /\ generated' = [r \in Requests |-> 0] /\ sampled' = sampled
        /\ total_tokens' = 0
    BY <1>11, LastSteps
  <2>2. SumFunctionOnSet([r \in Requests |-> 0], Requests) = 0
    <3>1. /\ [r \in Requests |-> 0] \in [Requests -> Int]
          /\ \A r \in Requests : [q \in Requests |-> 0][r] = 0
      OBVIOUS
    <3> QED BY <3>1, RequestsAssumption, SumZero
  <2>3. sampled' \cap Range(scheduled') = {}
    BY <2>1 DEF OwnOK
  <2>4. Cardinality(sampled' \cap Range(scheduled')) = 0
    BY <2>3, FS_EmptySet
  <2> QED BY <2>1, <2>2, <2>4 DEF TokensReported
<1> QED BY <1>4, <1>6, <1>7, <1>8, <1>9, <1>10, <1>11, StepKinds

-----------------------------------------------------------------------------
(* The sequences the models run.  A prompt is prefilled in one step, so the   *)
(* length the executor takes from the request is the one the scheduler plans; *)
(* and the batch holds every scheduled request, so each is run before the     *)
(* execution ends.                                                            *)

LEMMA LengthsAgree ==
    ASSUME SP!IInv, SP!WholeOK, NEW r \in Range(scheduled)
    PROVE  InputLength(r) = computed[r] + tokens[r]
                                - (IF cached[r] = PromptLength[r] THEN 1 ELSE 0)
<1>1. /\ r \in SP!Range(scheduled) /\ r \in Requests
      /\ status[r] \in {"prefill", "decode"}
  BY Ranges DEF SP!IInv, SP!LocalsOK, SP!Running
<1>2. /\ computed[r] \in Nat /\ cached[r] \in Nat /\ generated[r] \in Nat /\ tokens[r] \in Nat
      /\ PromptLength[r] \in Nat
  BY <1>1, ShapesAssumption DEF SP!IInv, SP!TypeOK
<1>3. /\ SP!CountsAgree(r) /\ cached[r] <= PromptLength[r]
      /\ IF SP!Prefilling(r) THEN tokens[r] <= SP!RemainingPrefill(r) ELSE tokens[r] = 1
  BY <1>1 DEF SP!IInv, SP!ComputedMatchesGenerated, SP!GrantsOK
<1>4. CASE status[r] = "prefill"
  <2>1. computed[r] = cached[r] /\ generated[r] = 0
    BY <1>1, <1>3, <1>4 DEF SP!WholeOK, SP!PromptsComputedWhole, SP!CountsAgree
  <2>2. SP!RemainingPrefill(r) = PromptLength[r] - computed[r]
    BY <1>2, <1>3, <2>1 DEF SP!RemainingPrefill, SP!Larger
  <2>3. tokens[r] = IF cached[r] = PromptLength[r] THEN 1 ELSE PromptLength[r] - computed[r]
    BY <1>1, <1>2, <1>3, <1>4, <2>1, <2>2 DEF SP!WholeOK, SP!Prefilling
  <2> QED BY <1>2, <1>4, <2>1, <2>3 DEF InputLength
<1>5. CASE status[r] = "decode"
  <2>1. tokens[r] = 1
    BY <1>3, <1>5 DEF SP!Prefilling
  <2>2. computed[r] = PromptLength[r] + generated[r]
                          - (IF cached[r] = PromptLength[r] THEN 0 ELSE 1)
    BY <1>3, <1>5 DEF SP!CountsAgree
  <2> QED BY <1>2, <1>5, <2>1, <2>2 DEF InputLength
<1> QED BY <1>1, <1>4, <1>5

LEMMA StepSequences ==
    SP!IInv /\ SP!WholeOK /\ OwnOK /\ SequencesMatchSchedule /\ [Next]_vars
        => SequencesMatchSchedule'
<1> SUFFICES ASSUME SP!IInv, SP!WholeOK, OwnOK, SequencesMatchSchedule, [Next]_vars,
                    pc' = "executing", loaded',
                    NEW q \in Range(scheduled') \ Range(todo'),
                    backend' = "onnx" \/
                    InProfile(computed'[q] + tokens'[q]
                                  - (IF cached'[q] = PromptLength[q] THEN 1 ELSE 0))
             PROVE  ran'[q] = computed'[q] + tokens'[q]
                                  - (IF cached'[q] = PromptLength[q] THEN 1 ELSE 0)
  BY DEF SequencesMatchSchedule, InProfile
<1>1. CASE Aside
  <2>1. UNCHANGED scheduler
    BY <1>1, AsideStands
  <2>2. ASSUME UNCHANGED <<executor, runner>>
        PROVE  ran'[q] = computed'[q] + tokens'[q]
                             - (IF cached'[q] = PromptLength[q] THEN 1 ELSE 0)
    BY <2>1, <2>2 DEF SequencesMatchSchedule, scheduler, executor, runner
  <2>3. CASE UNCHANGED vars
    BY <2>2, <2>3 DEF vars
  <2>4. CASE Scripts
    <3>1. UNCHANGED <<executor, runner>>
      BY <2>4 DEF Scripts, Export, EndExport, EndConversion, ExportFails, Build, BuildFails,
                  SaveEngine, EngineSaved, KillTool
    <3> QED BY <2>2, <3>1
  <2>5. ASSUME NEW b \in {"onnx", "tensorrt"} PROVE ~CreateEngine(b)
    BY <2>1 DEF CreateEngine, OwnOK, scheduler
  <2>6. ASSUME NEW r \in Requests, RunRequest(r)
        PROVE  ran'[q] = computed'[q] + tokens'[q]
                             - (IF cached'[q] = PromptLength[q] THEN 1 ELSE 0)
    <3> DEFINE n == computed[q] + tokens[q] - (IF cached[q] = PromptLength[q] THEN 1 ELSE 0)
    <3>1. /\ pc = "executing" /\ todo # <<>> /\ r = Head(todo) /\ todo' = Tail(todo)
          /\ backend' = backend /\ loaded' = loaded
          /\ RunOnnx(r) \/ RunTensorRT(r) \/ Simulate(r)
      BY <2>6 DEF RunRequest
    <3>2. /\ q \in Range(scheduled) /\ q \notin Range(Tail(todo))
          /\ UNCHANGED <<computed, tokens, cached, scheduled>>
          /\ backend = "onnx" \/ InProfile(n)
      BY <2>1, <3>1 DEF scheduler
    <3>3. q \in Requests
      BY <3>2, RangeMembers DEF SP!IInv, SP!TypeOK
    <3>4. ~Simulate(r)
      BY <3>1 DEF Simulate
    <3>5. ran \in [Requests -> Nat]
      BY DEF OwnOK, TypeOK
    <3>6. CASE q = r
      <4>1. InputLength(r) = n
        BY <3>2, <3>6, LengthsAgree
      <4>2. CASE RunOnnx(r)
        BY <3>2, <3>5, <3>6, <4>1, <4>2 DEF RunOnnx
      <4>3. CASE RunTensorRT(r)
        <5>1. InProfile(n) /\ shape' = InputLength(r) /\ ran' = [ran EXCEPT ![r] = shape']
          BY <3>2, <4>1, <4>3 DEF RunTensorRT
        <5> QED BY <3>2, <3>5, <3>6, <4>1, <5>1
      <4> QED BY <3>1, <3>4, <4>2, <4>3
    <3>7. CASE q # r
      <4>1. Range(todo) = {Head(todo)} \cup Range(Tail(todo))
        BY <3>1, HeadAndTail DEF OwnOK, TypeOK
      <4>2. q \notin Range(todo)
        BY <3>1, <3>2, <3>7, <4>1
      <4>3. ran[q] = n
        BY <3>1, <3>2, <4>2 DEF SequencesMatchSchedule
      <4>4. ran'[q] = ran[q]
        <5>1. CASE RunOnnx(r)
          BY <3>3, <3>5, <3>7, <5>1 DEF RunOnnx
        <5>2. CASE RunTensorRT(r)
          <6>1. ran' = [ran EXCEPT ![r] = shape']
            BY <5>2 DEF RunTensorRT
          <6> QED BY <3>3, <3>5, <3>7, <6>1
        <5> QED BY <3>1, <3>4, <5>1, <5>2
      <4> QED BY <3>2, <4>3, <4>4
    <3> QED BY <3>6, <3>7
  <2> QED BY <1>1, <2>3, <2>4, <2>5, <2>6 DEF Aside
<1>2. CASE Before
  <2>1. EndSelection
    BY <1>2, BeforeSteps
  <2>2. Range(todo') = Range(scheduled) /\ scheduled' = scheduled
    BY <2>1 DEF EndSelection, IsBatchOf, S!EndSelection, S!output
  <2> QED BY <2>2
<1>3. ~RunRaises /\ ~EndExecution /\ ~LastUpdate /\ ~Reset
  BY LastSteps DEF RunRaises, S!StepEnds, EndExecution
<1>4. \A r \in Requests : ~UpdateOf(r)
  BY UpdateSteps
<1> QED BY <1>1, <1>2, <1>3, <1>4, StepKinds

-----------------------------------------------------------------------------
(* Results. *)

LEMMA InitBInv == Init => BInv
<1> SUFFICES ASSUME Init
             PROVE  BInv
  OBVIOUS
<1>1. S!Init /\ SP!IInv
  BY SP!InitIInv, SameScheduler, SchedulerAssumptions DEF Init
<1>2. /\ status = [r \in Requests |-> "absent"] /\ generated = [r \in Requests |-> 0]
      /\ pc = "idle" /\ scheduled = <<>> /\ sampled = {}
  BY <1>1 DEF S!Init, S!Idle
<1>3. SP!WholeOK
  BY <1>2, EmptyScan DEF SP!WholeOK, SP!PromptsComputedWhole
<1>4. OwnOK
  <2>1. /\ files \in [Files -> FileStates] /\ tool \in Tools /\ tools \in 0 .. MaxTools
        /\ failures \in 0 .. MaxFailures
    BY BoundsAssumption DEF Init, FileStates, Tools
  <2>2. todo \in Seq(Requests) /\ ran \in [Requests -> Nat] /\ shape \in Nat /\ total_tokens \in Nat
    BY EmptyScan DEF Init, NoLengths
  <2>3. killed \in BOOLEAN /\ loaded \in BOOLEAN /\ backend = "none"
    BY DEF Init
  <2> QED BY <1>2, <2>1, <2>2, <2>3 DEF OwnOK, TypeOK
<1>5. TokensReported
  <2>1. SumFunctionOnSet(generated, Requests) = 0
    <3>1. generated \in [Requests -> Int] /\ \A r \in Requests : generated[r] = 0
      BY <1>2
    <3> QED BY <3>1, RequestsAssumption, SumZero
  <2>2. sampled \cap Range(scheduled) = {}
    BY <1>2
  <2>3. Cardinality(sampled \cap Range(scheduled)) = 0
    BY <2>2, FS_EmptySet
  <2> QED BY <2>1, <2>3 DEF Init, TokensReported
<1>6. SequencesMatchSchedule
  BY <1>2 DEF SequencesMatchSchedule
<1> QED BY <1>1, <1>3, <1>4, <1>5, <1>6 DEF BInv

LEMMA Inductive == Spec => []BInv
<1>1. BInv /\ [Next]_vars => BInv'
  BY StepScheduler, StepOwn, StepTokens, StepSequences DEF BInv
<1> QED BY <1>1, InitBInv, PTL DEF Spec

(* Every field of the executors, of their runner and of the scripts has its   *)
(* type, whatever fails and whenever.                                         *)
THEOREM BackendsTypeCorrect == Spec => []TypeOK
<1>1. BInv => TypeOK
  BY DEF BInv, OwnOK
<1> QED BY <1>1, Inductive, PTL

(* LegacyExecutorModelRunner: its count of tokens is the number of tokens the *)
(* requests were given, and of those the update still has to give them, for   *)
(* any number of steps that a backend abandoned.                              *)
THEOREM TokensCorrect == Spec => []TokensReported
<1>1. BInv => TokensReported
  BY DEF BInv
<1> QED BY <1>1, Inductive, PTL

(* run_prefill and run_decode: the models run the sequences the scheduler     *)
(* plans, up to the position it computes, for any prompts, budget, cached     *)
(* prefixes and profile.                                                      *)
THEOREM SequencesCorrect == Spec => []SequencesMatchSchedule
<1>1. BInv => SequencesMatchSchedule
  BY DEF BInv
<1> QED BY <1>1, Inductive, PTL

(* build_trt_engine.py: only a script that is killed, or still writing, leaves *)
(* half of an engine, in any number of runs of the scripts.                   *)
THEOREM BuildsCorrect == Spec => []FailedBuildKeepsEngine
<1>1. Init => FailedBuildKeepsEngine
  BY DEF Init, FailedBuildKeepsEngine, Files
<1>2. OwnOK /\ FailedBuildKeepsEngine /\ [Next]_vars => FailedBuildKeepsEngine'
  <2> SUFFICES ASSUME OwnOK, FailedBuildKeepsEngine, [Next]_vars
               PROVE  FailedBuildKeepsEngine'
    OBVIOUS
  <2>1. files \in [Files -> FileStates] /\ "engine" \in Files
        /\ "onnx" # "engine" /\ "onnx_fp16" # "engine"
    BY DEF OwnOK, TypeOK, Files
  <2>2. CASE Scripts
    BY <2>1, <2>2
       DEF Scripts, Export, EndExport, EndConversion, ExportFails, Build, BuildFails,
           SaveEngine, EngineSaved, KillTool, UseTool, ToolDone, FailedBuildKeepsEngine
  <2>3. CASE ~Scripts
    <3>1. UNCHANGED scripts
      BY <2>3, BeforeSteps, UpdateSteps, LastSteps, StepKinds
         DEF Aside, CreateEngine, RunRequest, RunRaises, EndExecution, vars
    <3> QED BY <3>1 DEF scripts, FailedBuildKeepsEngine
  <2> QED BY <2>2, <2>3
<1>3. BInv => OwnOK
  BY DEF BInv
<1> QED BY <1>1, <1>2, <1>3, Inductive, PTL DEF Spec

(* The promise to a request as ExecutorBackends instantiates it, and as the   *)
(* proofs of the scheduler do.                                                *)
LEMMA SameLifecycle ==
    /\ S!Lifecycle!Init <=> SP!Lifecycle!Init
    /\ S!Lifecycle!Next <=> SP!Lifecycle!Next
    /\ S!Lifecycle!vars = SP!Lifecycle!vars /\ S!Lifecycle!vars' = SP!Lifecycle!vars'
BY DEF S!Phase, SP!Phase, S!Lifecycle!Init, SP!Lifecycle!Init, S!Lifecycle!vars,
       SP!Lifecycle!vars, S!Lifecycle!In, SP!Lifecycle!In, S!Lifecycle!Submit,
       SP!Lifecycle!Submit, S!Lifecycle!Admit, SP!Lifecycle!Admit, S!Lifecycle!Emit,
       SP!Lifecycle!Emit, S!Lifecycle!CompleteEmpty, SP!Lifecycle!CompleteEmpty,
       S!Lifecycle!ForgetAll, SP!Lifecycle!ForgetAll, S!Lifecycle!Next, SP!Lifecycle!Next,
       S!Lifecycle!Cardinality, SP!Lifecycle!Cardinality

(* Whatever the backends do, a request is submitted, admitted, emits its      *)
(* tokens in sequence and completes: a step that was abandoned is nothing to  *)
(* it, and is done again.                                                     *)
THEOREM BackendsImplementRequestLifecycle == Spec => RefinesRequestLifecycle
<1>1. Init => S!Lifecycle!Init
  BY SameScheduler, SameLifecycle, SP!LifecycleInit, SchedulerAssumptions DEF Init
<1>2. BInv /\ [Next]_vars => [S!Lifecycle!Next]_(S!Lifecycle!vars)
  <2> SUFFICES ASSUME BInv, [Next]_vars
               PROVE  SP!Lifecycle!Next \/ UNCHANGED SP!Lifecycle!vars
    BY SameLifecycle
  <2>1. ASSUME UNCHANGED <<status, generated>>
        PROVE  UNCHANGED SP!Lifecycle!vars
    BY <2>1, SP!LifecycleStutter, SchedulerAssumptions
  <2>2. CASE Aside \/ RunRaises \/ EndExecution
    <3>1. UNCHANGED <<status, generated>>
      BY <2>2, AsideStands DEF scheduler, RunRaises, EndExecution
    <3> QED BY <2>1, <3>1
  <2>3. CASE S!Next
    <3>1. SP!IInv /\ [SP!Next]_(SP!vars)
      BY <2>3, SameScheduler DEF BInv
    <3> QED BY <3>1, SP!LifecycleStep, SchedulerAssumptions
  <2> QED BY <2>2, <2>3, BeforeSteps, UpdateSteps, LastSteps, StepKinds
<1> QED BY <1>1, <1>2, Inductive, PTL
        DEF Spec, RefinesRequestLifecycle, S!RefinesRequestLifecycle, S!Lifecycle!Spec

-----------------------------------------------------------------------------
(* TiledAttention.                                                            *)

(* Exponentials. *)

LEMMA DivExact ==
    ASSUME NEW x \in Nat, NEW y \in Nat \ {0}
    PROVE  (x * y) \div y = x
OBVIOUS

(* A number between two neighbouring multiples. *)
LEMMA DivBetween ==
    ASSUME NEW b \in Nat \ {0}, NEW q \in Nat, NEW n \in Nat
    PROVE  n \div b = q <=> b * q <= n /\ n < b * q + b
<1> DEFINE p == n \div b
<1>1. p \in Nat /\ b * p <= n /\ n < b * p + b
  OBVIOUS
<1> HIDE DEF p
<1>2. ASSUME p < q PROVE b * p + b <= b * q
  BY <1>1, <1>2
<1>3. ASSUME q < p PROVE b * q + b <= b * p
  BY <1>1, <1>3
<1>4. b * p \in Nat /\ b * q \in Nat
  BY <1>1
<1>5. p = q <=> b * q <= n /\ n < b * q + b
  BY <1>1, <1>2, <1>3, <1>4
<1> QED BY <1>5 DEF p

(* An exponential scaled is the one to the new maximum. *)
LEMMA ExpScaled ==
    ASSUME NEW s \in 0 .. MaxScore, NEW top \in 0 .. MaxScore, NEW new \in 0 .. MaxScore,
           s <= top, top <= new
    PROVE  /\ Exp(new - s) \in Nat \ {0} /\ Pow[new - top] \in Nat \ {0}
           /\ Exp(top - s) = Exp(new - s) * Pow[new - top]
<1> DEFINE a == MaxScore - (new - s)
           d == new - top
<1>1. /\ a \in 0 .. MaxScore /\ d \in 0 .. MaxScore /\ a + d <= MaxScore
      /\ MaxScore - (top - s) = a + d
  BY SizesAssumption
<1> HIDE DEF a, d
<1>2. Pow[a + d] = Pow[a] * Pow[d] /\ Pow[a] \in Nat \ {0} /\ Pow[d] \in Nat \ {0}
  BY <1>1, PowAssumption
<1> QED BY <1>1, <1>2 DEF Exp, a, d

(* The largest of some numbers. *)
LEMMA MaxOfSome ==
    ASSUME NEW X, IsFiniteSet(X), X # {}
    PROVE  X \subseteq Int => Max(X) \in X /\ \A y \in X : y <= Max(X)
<1> DEFINE From(x) == {y \in X : y >= x}
           Tops == {From(x) : x \in X}
<1>1. PICK T \in Tops : \A U \in Tops : U \subseteq T => U = T
  <2>1. Tops \in SUBSET SUBSET X /\ Tops # {}
    OBVIOUS
  <2> HIDE DEF Tops
  <2> QED BY <2>1, MinimalSubset
<1>2. PICK x \in X : T = From(x)
  BY <1>1
<1> SUFFICES ASSUME X \subseteq Int
             PROVE  Max(X) \in X /\ \A y \in X : y <= Max(X)
  OBVIOUS
<1>3. \A y \in X : x >= y
  <2> SUFFICES ASSUME NEW y \in X, ~(x >= y) PROVE FALSE
    OBVIOUS
  <2>1. x \in Int /\ y \in Int /\ y > x
    OBVIOUS
  <2>2. From(y) \subseteq T /\ From(y) \in Tops
    <3>1. ASSUME NEW z \in X, z >= y PROVE z >= x
      BY <2>1, <3>1
    <3> QED BY <1>2, <3>1
  <2>3. x \in T /\ x \notin From(y)
    BY <1>2, <2>1
  <2> QED BY <1>1, <2>2, <2>3
<1> HIDE DEF From, Tops
<1>4. Max(X) \in X /\ \A y \in X : Max(X) >= y
  BY <1>3 DEF Max
<1>5. \A y \in X : Max(X) >= y <=> y <= Max(X)
  BY <1>4
<1> QED BY <1>4, <1>5

LEMMA MaxOfScores ==
    ASSUME NEW X, X \in SUBSET (0 .. MaxScore), X # {}
    PROVE  Max(X) \in X /\ \A y \in X : y <= Max(X)
<1>1. IsFiniteSet(0 .. MaxScore) /\ 0 .. MaxScore \subseteq Int
  BY SizesAssumption, FS_Interval
<1>2. IsFiniteSet(X) /\ X \subseteq Int
  BY <1>1, FS_Subset
<1> QED BY <1>2, MaxOfSome

-----------------------------------------------------------------------------
(* The softmax of a row over some of its keys.                                *)

ARow(i) == scores[i] \in [Keys -> (0 .. MaxScore) \cup {NegInf}]

LEMMA KeysFinite == IsFiniteSet(Keys) /\ Keys \subseteq Nat
<1>1. SeqK \in Nat \ {0}
  BY SizesAssumption
<1>2. IsFiniteSet(0 .. SeqK - 1)
  BY <1>1, FS_Interval
<1> QED BY <1>1, <1>2 DEF Keys

LEMMA UnmaskedScores ==
    ASSUME NEW i, ARow(i), NEW K \in SUBSET Keys
    PROVE  /\ \A j \in Unmasked(i, K) : j \in K /\ scores[i][j] \in 0 .. MaxScore
           /\ {scores[i][j] : j \in Unmasked(i, K)} \in SUBSET (0 .. MaxScore)
           /\ \A B \in SUBSET Keys : Unmasked(i, K \cup B) = Unmasked(i, K) \cup Unmasked(i, B)
BY DEF ARow, Unmasked

LEMMA RowMaxFacts ==
    ASSUME NEW i, ARow(i), NEW K \in SUBSET Keys
    PROVE  /\ Unmasked(i, K) = {} => RowMax(i, K) = NegInf
           /\ Unmasked(i, K) # {} =>
                  /\ RowMax(i, K) \in 0 .. MaxScore /\ RowMax(i, K) # NegInf
                  /\ \E j \in Unmasked(i, K) : scores[i][j] = RowMax(i, K)
                  /\ \A j \in Unmasked(i, K) : scores[i][j] <= RowMax(i, K)
<1> DEFINE X == {scores[i][j] : j \in Unmasked(i, K)}
<1>1. X \in SUBSET (0 .. MaxScore)
  BY UnmaskedScores
<1>2. Unmasked(i, K) = {} => RowMax(i, K) = NegInf
  BY DEF RowMax
<1>3. ASSUME Unmasked(i, K) # {}
      PROVE  /\ RowMax(i, K) \in 0 .. MaxScore /\ RowMax(i, K) # NegInf
             /\ \E j \in Unmasked(i, K) : scores[i][j] = RowMax(i, K)
             /\ \A j \in Unmasked(i, K) : scores[i][j] <= RowMax(i, K)
  <2>1. X # {} /\ RowMax(i, K) = Max(X)
    BY <1>3 DEF RowMax
  <2>2. Max(X) \in X /\ \A y \in X : y <= Max(X)
    <3> HIDE DEF X
    <3> QED BY <1>1, <2>1, MaxOfScores
  <2>3. NegInf \notin 0 .. MaxScore
    BY SpecialsAssumption, SizesAssumption
  <2> QED BY <1>1, <2>1, <2>2, <2>3
<1> QED BY <1>2, <1>3

(* A score that is reached and not exceeded is the maximum. *)
LEMMA RowMaxIs ==
    ASSUME NEW i, ARow(i), NEW K \in SUBSET Keys, NEW top \in 0 .. MaxScore,
           \E j \in Unmasked(i, K) : scores[i][j] = top,
           \A j \in Unmasked(i, K) : scores[i][j] <= top
    PROVE  RowMax(i, K) = top
<1>1. /\ RowMax(i, K) \in 0 .. MaxScore
      /\ \E j \in Unmasked(i, K) : scores[i][j] = RowMax(i, K)
      /\ \A j \in Unmasked(i, K) : scores[i][j] <= RowMax(i, K)
  BY RowMaxFacts
<1> QED BY <1>1

Bounds(i, K, top) == top \in 0 .. MaxScore /\ \A j \in Unmasked(i, K) : scores[i][j] <= top

LEMMA ExpToFacts ==
    ASSUME NEW i, ARow(i), NEW K \in SUBSET Keys, NEW top, Bounds(i, K, top)
    PROVE  /\ ExpTo(i, K, top) \in [Keys -> Nat] /\ ExpTo(i, K, top) \in [Keys -> Int]
           /\ Total(ExpTo(i, K, top)) \in Nat
           /\ Unmasked(i, K) # {} => Total(ExpTo(i, K, top)) > 0
<1> DEFINE f == ExpTo(i, K, top)
<1>1. \A j \in Unmasked(i, K) : Exp(top - scores[i][j]) \in Nat \ {0}
  <2> SUFFICES ASSUME NEW j \in Unmasked(i, K)
               PROVE  Exp(top - scores[i][j]) \in Nat \ {0}
    OBVIOUS
  <2>1. scores[i][j] \in 0 .. MaxScore /\ scores[i][j] <= top /\ top \in 0 .. MaxScore
    BY UnmaskedScores DEF Bounds
  <2> QED BY <2>1, ExpScaled
<1>2. f \in [Keys -> Nat]
  BY <1>1 DEF ExpTo
<1>3. \A X \in SUBSET Keys : SumFunctionOnSet(f, X) \in Nat
  <2> HIDE DEF f
  <2> QED BY <1>2, KeysFinite, SumNat
<1>4. f \in [Keys -> Int]
  BY <1>2
<1>5. ASSUME NEW j \in Unmasked(i, K)
      PROVE  Total(f) > 0
  <2>1. j \in Keys /\ f[j] \in Nat \ {0}
    BY <1>1, <1>5, UnmaskedScores DEF ExpTo
  <2>2. Total(f) = f[j] + SumFunctionOnSet(f, Keys \ {j})
    <3> HIDE DEF f
    <3>1. IsFiniteSet(Keys) /\ Keys \in SUBSET Keys
      BY KeysFinite
    <3>2. SumFunctionOnSet(f, Keys) = f[j] + SumFunctionOnSet(f, Keys \ {j})
      BY <1>4, <2>1, <3>1, SumRemove
    <3> QED BY <3>2 DEF Total
  <2>3. SumFunctionOnSet(f, Keys \ {j}) \in Nat
    BY <1>3
  <2> HIDE DEF f
  <2> QED BY <2>1, <2>2, <2>3
<1> QED BY <1>2, <1>3, <1>4, <1>5 DEF Total

(* Rescaling from one maximum to a larger one is exact, term by term and in   *)
(* the sum.                                                                   *)
LEMMA Rescaling ==
    ASSUME NEW i, ARow(i), NEW K \in SUBSET Keys, NEW top, NEW new \in 0 .. MaxScore,
           Bounds(i, K, top), top <= new
    PROVE  /\ Bounds(i, K, new)
           /\ \A j \in Keys : Scaled(ExpTo(i, K, top)[j], new - top) = ExpTo(i, K, new)[j]
           /\ Scaled(Total(ExpTo(i, K, top)), new - top) = Total(ExpTo(i, K, new))
<1> DEFINE f == ExpTo(i, K, top)
           g == ExpTo(i, K, new)
           c == Pow[new - top]
<1>0. top \in 0 .. MaxScore /\ \A j \in Unmasked(i, K) : scores[i][j] \in 0 .. MaxScore
  BY UnmaskedScores DEF Bounds
<1>1. Bounds(i, K, new)
  BY <1>0 DEF Bounds
<1>2. c \in Nat \ {0}
  <2>1. new - top \in 0 .. MaxScore
    BY <1>0, SizesAssumption
  <2> QED BY <2>1, PowAssumption
<1>3. f \in [Keys -> Nat] /\ g \in [Keys -> Nat] /\ Total(g) \in Nat
      /\ f \in [Keys -> Int] /\ g \in [Keys -> Int]
  BY <1>1, ExpToFacts
<1>4. \A j \in Keys : f[j] = g[j] * c
  <2> SUFFICES ASSUME NEW j \in Keys PROVE f[j] = g[j] * c
    OBVIOUS
  <2>1. CASE j \in Unmasked(i, K)
    <3>1. scores[i][j] \in 0 .. MaxScore /\ scores[i][j] <= top
      BY <1>0, <2>1 DEF Bounds
    <3>2. Exp(top - scores[i][j]) = Exp(new - scores[i][j]) * Pow[new - top]
      BY <1>0, <3>1, ExpScaled
    <3> QED BY <2>1, <3>2 DEF ExpTo
  <2>2. CASE j \notin Unmasked(i, K)
    BY <1>2, <2>2 DEF ExpTo
  <2> QED BY <2>1, <2>2
<1> HIDE DEF f, g, c
<1>5. \A j \in Keys : f[j] \div c = g[j]
  BY <1>2, <1>3, <1>4, DivExact
<1>6. Total(f) = Total(g) * c
  <2>1. c \in Int /\ IsFiniteSet(Keys)
    BY <1>2, KeysFinite
  <2>2. SumFunctionOnSet(f, Keys) = SumFunctionOnSet(g, Keys) * c
    BY <1>3, <1>4, <2>1, SumTimes
  <2> QED BY <2>2 DEF Total
<1>7. Total(f) \div c = Total(g)
  BY <1>2, <1>3, <1>6, DivExact
<1> QED BY <1>1, <1>5, <1>7 DEF f, g, c, Scaled

(* The exponentials of two sets of keys, added.                               *)
Joined(i, K, B, U) ==
    /\ Unmasked(i, U) = Unmasked(i, K) \cup Unmasked(i, B)
    /\ Unmasked(i, K) \cap Unmasked(i, B) = {}

LEMMA ExpToUnion ==
    ASSUME NEW i, ARow(i), NEW K \in SUBSET Keys, NEW B \in SUBSET Keys,
           NEW U \in SUBSET Keys, Joined(i, K, B, U),
           NEW top, Bounds(i, K, top), Bounds(i, B, top)
    PROVE  /\ Bounds(i, U, top)
           /\ \A j \in Keys : ExpTo(i, U, top)[j] = ExpTo(i, K, top)[j] + ExpTo(i, B, top)[j]
           /\ Total(ExpTo(i, U, top)) = Total(ExpTo(i, K, top)) + Total(ExpTo(i, B, top))
<1> DEFINE f == ExpTo(i, K, top)
           g == ExpTo(i, B, top)
           h == ExpTo(i, U, top)
<1>1. Unmasked(i, U) = Unmasked(i, K) \cup Unmasked(i, B)
      /\ Unmasked(i, K) \cap Unmasked(i, B) = {}
  BY DEF Joined
<1>2. Bounds(i, U, top)
  BY <1>1 DEF Bounds
<1>3. /\ f \in [Keys -> Nat] /\ g \in [Keys -> Nat]
      /\ f \in [Keys -> Int] /\ g \in [Keys -> Int] /\ h \in [Keys -> Int]
  BY <1>2, ExpToFacts
<1>4. \A j \in Keys : h[j] = f[j] + g[j]
  <2> SUFFICES ASSUME NEW j \in Keys PROVE h[j] = f[j] + g[j]
    OBVIOUS
  <2>1. f[j] \in Nat /\ g[j] \in Nat
    BY <1>3
  <2>2. /\ f[j] = IF j \in Unmasked(i, K) THEN Exp(top - scores[i][j]) ELSE 0
        /\ g[j] = IF j \in Unmasked(i, B) THEN Exp(top - scores[i][j]) ELSE 0
        /\ h[j] = IF j \in Unmasked(i, K) \cup Unmasked(i, B) THEN Exp(top - scores[i][j]) ELSE 0
    BY <1>1 DEF ExpTo
  <2> HIDE DEF f, g, h
  <2> QED BY <1>1, <2>1, <2>2
<1> HIDE DEF f, g, h
<1>5. Total(h) = Total(f) + Total(g)
  <2>1. IsFiniteSet(Keys)
    BY KeysFinite
  <2>2. SumFunctionOnSet(h, Keys) = SumFunctionOnSet(f, Keys) + SumFunctionOnSet(g, Keys)
    BY <1>3, <1>4, <2>1, SumPlus
  <2> QED BY <2>2 DEF Total
<1> QED BY <1>2, <1>4, <1>5 DEF f, g, h
-----------------------------------------------------------------------------
(* One tile of a row.                                                         *)

LEMMA MergeRow ==
    ASSUME NEW i, ARow(i), NEW K \in SUBSET Keys, NEW B \in SUBSET Keys, B = BlockKeys,
           NEW U \in SUBSET Keys, Joined(i, K, B, U), SoftmaxOf(i, K), l[i] # NaN,
           Unmasked(i, B) # {}
    PROVE  /\ NewMax(i) = RowMax(i, U)
           /\ NewOutput(i) = ExpTo(i, U, NewMax(i))
           /\ NewOutput(i) \in [Keys -> Nat]
           /\ NewSum(i) = Total(NewOutput(i)) /\ NewSum(i) \in Nat
<1> DEFINE top == RowMax(i, B)
           new == NewMax(i)
<1>1. /\ top \in 0 .. MaxScore /\ top # NegInf /\ Bounds(i, B, top)
      /\ \E j \in Unmasked(i, B) : scores[i][j] = top
  BY RowMaxFacts DEF Bounds
<1>2. ~Spoiled(i)
  BY DEF Spoiled
<1>3. /\ NewSum(i) = Rescaled(i, l[i]) + Scaled(Total(ExpTo(i, B, top)), new - top)
      /\ NewOutput(i) = [j \in Keys |->
             Rescaled(i, output[i][j]) + Scaled(ExpTo(i, B, top)[j], new - top)]
  BY <1>2 DEF NewSum, NewOutput
<1>4. m[i] = RowMax(i, K) /\ output[i] = ExpTo(i, K, m[i]) /\ l[i] = Total(output[i])
  BY DEF SoftmaxOf
<1>5. Unmasked(i, U) = Unmasked(i, K) \cup Unmasked(i, B)
  BY DEF Joined
<1>6. /\ new \in 0 .. MaxScore /\ top <= new
      /\ Bounds(i, K, new)
      /\ RowMax(i, U) = new
      /\ \A j \in Keys : Rescaled(i, output[i][j]) = ExpTo(i, K, new)[j]
      /\ Rescaled(i, l[i]) = Total(ExpTo(i, K, new))
  <2>1. CASE m[i] = NegInf
    <3>1. Unmasked(i, K) = {}
      BY <1>4, <2>1, RowMaxFacts
    <3>2. new = top
      BY <2>1 DEF NewMax
    <3>3. top <= top
      BY <1>1
    <3>4. Bounds(i, K, new)
      BY <1>1, <3>1, <3>2 DEF Bounds
    <3>5. RowMax(i, U) = top
      BY <1>5, <3>1 DEF RowMax
    <3>6. \A j \in Keys : ExpTo(i, K, new)[j] = 0
      BY <3>1 DEF ExpTo
    <3>7. Total(ExpTo(i, K, new)) = 0
      <4> DEFINE f == ExpTo(i, K, new)
      <4>1. f \in [Keys -> Int]
        BY <3>4, ExpToFacts
      <4> HIDE DEF f
      <4> QED BY <3>6, <4>1, KeysFinite, SumZero DEF Total, f
    <3> QED BY <1>1, <2>1, <3>2, <3>3, <3>4, <3>5, <3>6, <3>7 DEF Rescaled
  <2>2. CASE m[i] # NegInf
    <3>1. /\ Unmasked(i, K) # {} /\ m[i] \in 0 .. MaxScore /\ Bounds(i, K, m[i])
          /\ \E j \in Unmasked(i, K) : scores[i][j] = m[i]
      BY <1>4, <2>2, RowMaxFacts DEF Bounds
    <3>2. new = Max({m[i], top})
      BY <2>2 DEF NewMax
    <3>3. new \in {m[i], top} /\ \A y \in {m[i], top} : y <= new
      BY <1>1, <3>1, <3>2, MaxOfScores
    <3>4. new \in 0 .. MaxScore /\ m[i] <= new /\ top <= new
      BY <1>1, <3>1, <3>3
    <3> HIDE DEF new, top
    <3>5. /\ Bounds(i, K, new)
          /\ \A j \in Keys : Scaled(ExpTo(i, K, m[i])[j], new - m[i]) = ExpTo(i, K, new)[j]
          /\ Scaled(Total(ExpTo(i, K, m[i])), new - m[i]) = Total(ExpTo(i, K, new))
      BY <3>1, <3>4, Rescaling
    <3>6. Bounds(i, B, new)
      BY <1>1, <3>4, Rescaling
    <3>7. RowMax(i, U) = new
      <4>1. \E j \in Unmasked(i, U) : scores[i][j] = new
        BY <1>1, <1>5, <3>1, <3>3
      <4>2. \A j \in Unmasked(i, U) : scores[i][j] <= new
        BY <1>5, <3>5, <3>6 DEF Bounds
      <4> QED BY <1>5, <3>4, <4>1, <4>2, RowMaxIs
    <3>8. \A x : Rescaled(i, x) = Scaled(x, new - m[i])
      BY <2>2 DEF Rescaled, new
    <3> QED BY <1>4, <3>4, <3>5, <3>7, <3>8
  <2> QED BY <2>1, <2>2
<1> HIDE DEF new, top
<1>7. /\ Bounds(i, B, new)
      /\ \A j \in Keys : Scaled(ExpTo(i, B, top)[j], new - top) = ExpTo(i, B, new)[j]
      /\ Scaled(Total(ExpTo(i, B, top)), new - top) = Total(ExpTo(i, B, new))
  <2>1. new \in 0 .. MaxScore /\ top <= new /\ Bounds(i, B, top)
    BY <1>1, <1>6
  <2> QED BY <2>1, Rescaling
<1>8. /\ Bounds(i, U, new)
      /\ \A j \in Keys :
             ExpTo(i, U, new)[j] = ExpTo(i, K, new)[j] + ExpTo(i, B, new)[j]
      /\ Total(ExpTo(i, U, new)) = Total(ExpTo(i, K, new)) + Total(ExpTo(i, B, new))
  <2>1. Bounds(i, K, new) /\ Bounds(i, B, new)
    BY <1>6, <1>7
  <2> QED BY <2>1, ExpToUnion
<1>9. ExpTo(i, U, new) \in [Keys -> Nat] /\ Total(ExpTo(i, U, new)) \in Nat
  BY <1>5, <1>8, ExpToFacts
<1>10. NewOutput(i) = ExpTo(i, U, new)
  <2> DEFINE h == ExpTo(i, U, new)
  <2>1. \A j \in Keys : Rescaled(i, output[i][j]) + Scaled(ExpTo(i, B, top)[j], new - top) = h[j]
    BY <1>6, <1>7, <1>8
  <2>2. h = [j \in Keys |-> h[j]]
    BY <1>9
  <2> HIDE DEF h
  <2> QED BY <1>3, <2>1, <2>2 DEF h
<1>11. NewSum(i) = Total(ExpTo(i, U, new))
  BY <1>3, <1>6, <1>7, <1>8
<1> QED BY <1>6, <1>9, <1>10, <1>11 DEF new
-----------------------------------------------------------------------------
(* Rows and tiles.                                                            *)

Shape(n) ==
    /\ n \in Nat \ {0}
    /\ Queries = 0 .. n - 1 /\ SeqQ = n
    /\ \A i \in 0 .. n - 1 : ARow(i)

LEMMA ScoresShape ==
    ASSUME kernel \in Kernels, scores \in Scores(kernel)
    PROVE  \E n : Shape(n)
<1>1. \E n \in Nat \ {0} : /\ Queries = 0 .. n - 1
                          /\ \A i \in 0 .. n - 1 : ARow(i)
  <2>1. CASE kernel = "FlashAttentionCPU"
    <3>1. PICK n \in 1 .. MaxSeqQ : scores \in [0 .. n - 1 -> [Keys -> (0 .. MaxScore) \cup {NegInf}]]
      BY <2>1 DEF Scores
    <3>2. n \in Nat \ {0}
      BY SizesAssumption
    <3> QED BY <3>1, <3>2 DEF Queries, ARow
  <2>2. CASE kernel # "FlashAttentionCPU"
    <3>1. scores \in [Keys -> [Keys -> 0 .. MaxScore]]
      BY <2>2 DEF Scores
    <3>2. \A f \in [Keys -> 0 .. MaxScore] : f \in [Keys -> (0 .. MaxScore) \cup {NegInf}]
      OBVIOUS
    <3>3. \A i \in Keys : ARow(i)
      BY <3>1, <3>2 DEF ARow
    <3> QED BY <3>1, <3>3, SizesAssumption DEF Queries, Keys
  <2> QED BY <2>1, <2>2
<1>2. PICK n \in Nat \ {0} : Queries = 0 .. n - 1 /\ \A i \in 0 .. n - 1 : ARow(i)
  BY <1>1
<1>3. Cardinality(0 .. n - 1) = n
  <2>1. 0 \in Int /\ n - 1 \in Int /\ (IF 0 > n - 1 THEN 0 ELSE n - 1 - 0 + 1) = n
    OBVIOUS
  <2> QED BY <2>1, FS_Interval
<1> QED BY <1>2, <1>3 DEF Shape, SeqQ

(* Where the loops are. *)
Position ==
    /\ kernel \in Kernels /\ block_size \in BlockSizes
    /\ scores \in Scores(kernel)
    /\ row \in Nat /\ key \in Nat /\ done \in BOOLEAN
    /\ ~done => row < SeqQ /\ key < SeqK /\ \E q \in Nat : key = block_size * q

LEMMA Positive == block_size \in BlockSizes => block_size \in Nat \ {0}
BY BlockSizesAssumption

LEMMA BlockFacts ==
    ASSUME Position, ~done
    PROVE  /\ BlockKeys \in SUBSET Keys /\ key \in BlockKeys
           /\ \A j \in BlockKeys : TileOf(j) = BlockKeys
           /\ BlockKeys \cap (0 .. key - 1) = {}
           /\ (0 .. key - 1) \cup BlockKeys = 0 .. Smaller(NextKey, SeqK) - 1
           /\ 0 .. key - 1 \in SUBSET Keys
<1>1. /\ block_size \in Nat \ {0} /\ key \in Nat /\ key < SeqK /\ SeqK \in Nat
      /\ \E q \in Nat : key = block_size * q
  BY Positive, SizesAssumption DEF Position
<1>2. PICK q \in Nat : key = block_size * q
  BY <1>1
<1>3. BlockKeys = {j \in Keys : key <= j /\ j < key + block_size}
  BY <1>1 DEF BlockKeys, Smaller, Keys
<1>4. \A j \in Keys : j \in BlockKeys <=> j \div block_size = q
  <2> SUFFICES ASSUME NEW j \in Keys
               PROVE  j \in BlockKeys <=> j \div block_size = q
    OBVIOUS
  <2>1. j \in Nat
    BY KeysFinite
  <2>2. j \div block_size = q <=> block_size * q <= j /\ j < block_size * q + block_size
    BY <1>1, <2>1, DivBetween
  <2> QED BY <1>2, <1>3, <2>2
<1>5. \A j \in BlockKeys : TileOf(j) = BlockKeys
  <2>1. BlockKeys \subseteq Keys
    BY <1>3
  <2>2. BlockKeys = {j \in Keys : j \div block_size = q}
    BY <1>4, <2>1
  <2> QED BY <1>4, <2>1, <2>2 DEF TileOf
<1>6. BlockKeys \in SUBSET Keys /\ key \in BlockKeys
  BY <1>1, <1>3 DEF Keys
<1>7. BlockKeys \cap (0 .. key - 1) = {} /\ 0 .. key - 1 \in SUBSET Keys
  BY <1>1, <1>3 DEF Keys
<1>8. (0 .. key - 1) \cup BlockKeys = 0 .. Smaller(NextKey, SeqK) - 1
  BY <1>1, <1>3 DEF Keys, Smaller, NextKey
<1> QED BY <1>5, <1>6, <1>7, <1>8

(* A tile covers the keys of its block in its rows and nothing else. *)
LEMMA Coverage ==
    ASSUME Position, Tile
    PROVE  /\ Position'
           /\ TileRows \subseteq Queries
           /\ \A i \in Queries :
                  /\ i \in TileRows => /\ Merged(i) = 0 .. key - 1
                                      /\ Merged(i)' = 0 .. Smaller(NextKey, SeqK) - 1
                  /\ i \notin TileRows => Merged(i)' = Merged(i)
<1> DEFINE flash == kernel = "FlashAttentionCPU"
           n == SeqQ
<1>1. /\ block_size \in Nat \ {0} /\ row \in Nat /\ key \in Nat /\ ~done
      /\ row < n /\ key < SeqK /\ SeqK \in Nat \ {0}
      /\ \E q \in Nat : key = block_size * q
  BY Positive, SizesAssumption DEF Position, Tile
<1>2. n \in Nat \ {0} /\ Queries = 0 .. n - 1
  BY ScoresShape DEF Position, Shape
<1>3. /\ kernel' = kernel /\ block_size' = block_size /\ scores' = scores
      /\ Queries' = Queries /\ SeqQ' = n
  BY DEF Tile, Queries, SeqQ
<1>4. NextKey \in Nat /\ \E q \in Nat : NextKey = block_size * q
  <2>1. PICK q \in Nat : key = block_size * q
    BY <1>1
  <2>2. NextKey = block_size * (q + 1) /\ q + 1 \in Nat
    BY <1>1, <2>1 DEF NextKey
  <2> QED BY <1>1, <2>2 DEF NextKey
<1>5. NextRow \in Nat /\ row < NextRow
  BY <1>1 DEF NextRow
<1>6. \E q \in Nat : 0 = block_size * q
  <2>1. 0 = block_size * 0
    BY <1>1
  <2> QED BY <2>1
<1>7. /\ row' \in Nat /\ key' \in Nat /\ done' \in BOOLEAN
      /\ ~done' => row' < n /\ key' < SeqK /\ \E q \in Nat : key' = block_size * q
  <2>1. CASE flash
    <3>1. CASE NextKey < SeqK
      <4>1. key' = NextKey /\ row' = row /\ done' = done
        BY <2>1, <3>1 DEF Tile, Advance
      <4> QED BY <1>1, <1>4, <3>1, <4>1 DEF Position
    <3>2. CASE ~(NextKey < SeqK)
      <4>1. key' = 0 /\ row' = NextRow /\ done' = (NextRow >= n)
        BY <2>1, <3>2 DEF Tile, Advance
      <4>2. done' \in BOOLEAN /\ (NextRow >= n => done')
        <5>1. (NextRow >= n) \in BOOLEAN
          BY SMT
        <5> QED BY <4>1, <5>1, Zenon
      <4>3. ~done' => NextRow < n
        BY <1>2, <1>5, <4>2
      <4> QED BY <1>1, <1>5, <1>6, <4>1, <4>2, <4>3
    <3> QED BY <3>1, <3>2
  <2>2. CASE ~flash
    <3>1. CASE NextRow < n
      <4>1. row' = NextRow /\ key' = key /\ done' = done
        BY <2>2, <3>1 DEF Tile, Advance
      <4> QED BY <1>1, <1>5, <3>1, <4>1 DEF Position
    <3>2. CASE ~(NextRow < n)
      <4>1. row' = 0 /\ key' = NextKey /\ done' = (NextKey >= SeqK)
        BY <2>2, <3>2 DEF Tile, Advance
      <4>2. done' \in BOOLEAN /\ (NextKey >= SeqK => done')
        <5>1. (NextKey >= SeqK) \in BOOLEAN
          BY SMT
        <5> QED BY <4>1, <5>1, Zenon
      <4>3. ~done' => NextKey < SeqK
        BY <1>1, <1>4, <4>2
      <4>4. 0 < n
        BY <1>2
      <4> QED BY <1>4, <4>1, <4>2, <4>3, <4>4
    <3> QED BY <3>1, <3>2
  <2> QED BY <2>1, <2>2
<1>8. Position'
  BY <1>3, <1>7 DEF Position, Scores
<1>9. TileRows \subseteq Queries
  BY <1>1, <1>2 DEF TileRows, Smaller
<1>10. ASSUME NEW i \in Queries
       PROVE  /\ i \in TileRows => /\ Merged(i) = 0 .. key - 1
                                   /\ Merged(i)' = 0 .. Smaller(NextKey, SeqK) - 1
              /\ i \notin TileRows => Merged(i)' = Merged(i)
  <2>1. i \in Nat /\ i < n
    BY <1>2
  <2>2. CASE flash
    <3>1. Merged(i) = IF i < row THEN Keys ELSE IF i \in TileRows THEN 0 .. key - 1 ELSE {}
      BY <1>1, <2>2 DEF Merged
    <3>2. i \in TileRows <=> row <= i /\ i < NextRow
      BY <1>1, <1>2, <2>1, <2>2 DEF TileRows, Smaller, NextRow
    <3>3. Merged(i)' = IF done' THEN Keys
                       ELSE IF i < row' THEN Keys
                       ELSE IF i \in TileRows' THEN 0 .. key' - 1 ELSE {}
      BY <1>3, <2>2 DEF Merged
    <3>4. CASE NextKey < SeqK
      <4>1. key' = NextKey /\ row' = row /\ done' = done
        BY <2>2, <3>4 DEF Tile, Advance
      <4>2. TileRows' = TileRows
        BY <1>3, <4>1 DEF TileRows, Smaller
      <4>3. Smaller(NextKey, SeqK) = NextKey
        BY <1>1, <1>4, <3>4 DEF Smaller
      <4> QED BY <1>1, <2>1, <3>1, <3>2, <3>3, <4>1, <4>2, <4>3
    <3>5. CASE ~(NextKey < SeqK)
      <4>1. key' = 0 /\ row' = NextRow /\ done' = (NextRow >= n)
        BY <2>2, <3>5 DEF Tile, Advance
      <4>2. 0 .. key' - 1 = {}
        BY <4>1
      <4>3. 0 .. Smaller(NextKey, SeqK) - 1 = Keys
        BY <1>1, <1>4, <3>5 DEF Smaller, Keys
      <4>4. Merged(i)' = IF i < NextRow THEN Keys ELSE {}
        <5>1. CASE NextRow >= n
          BY <1>1, <1>2, <1>5, <2>1, <3>3, <4>1, <5>1
        <5>2. CASE ~(NextRow >= n)
          BY <3>3, <4>1, <4>2, <5>2
        <5> QED BY <5>1, <5>2
      <4>5. i < row \/ i \in TileRows <=> i < NextRow
        BY <1>1, <1>5, <2>1, <3>2
      <4>6. i \in TileRows => ~(i < row)
        BY <1>1, <2>1, <3>2
      <4> QED BY <3>1, <4>3, <4>4, <4>5, <4>6
    <3> QED BY <3>4, <3>5
  <2>3. CASE ~flash
    <3>1. Merged(i) = IF i < row THEN 0 .. Smaller(NextKey, SeqK) - 1 ELSE 0 .. key - 1
      BY <1>1, <2>3 DEF Merged
    <3>2. (i \in TileRows <=> i = row) /\ NextRow = row + 1
      BY <2>3 DEF TileRows, NextRow
    <3>3. Merged(i)' = IF done' THEN Keys
                       ELSE IF i < row' THEN 0 .. Smaller(key' + block_size, SeqK) - 1
                       ELSE 0 .. key' - 1
      BY <1>3, <2>3 DEF Merged, NextKey, Smaller
    <3>4. CASE NextRow < n
      <4>1. row' = NextRow /\ key' = key /\ done' = done
        BY <2>3, <3>4 DEF Tile, Advance
      <4>2. Merged(i)' = IF i < row + 1 THEN 0 .. Smaller(NextKey, SeqK) - 1 ELSE 0 .. key - 1
        BY <1>1, <3>2, <3>3, <4>1 DEF NextKey
      <4> QED BY <1>1, <2>1, <3>1, <3>2, <4>2
    <3>5. CASE ~(NextRow < n)
      <4>1. row' = 0 /\ key' = NextKey /\ done' = (NextKey >= SeqK)
        BY <2>3, <3>5 DEF Tile, Advance
      <4>2. i < row \/ i = row
        BY <1>1, <1>2, <2>1, <3>2, <3>5
      <4>3. Merged(i)' = 0 .. Smaller(NextKey, SeqK) - 1
        <5>1. CASE NextKey >= SeqK
          <6>1. done'
            BY <4>1, <5>1, Zenon
          <6>2. 0 .. Smaller(NextKey, SeqK) - 1 = Keys
            BY <1>1, <1>4, <5>1 DEF Smaller, Keys
          <6> QED BY <3>3, <6>1, <6>2
        <5>2. CASE ~(NextKey >= SeqK)
          <6>1. ~(i < row') /\ ~done'
            <7>1. ~done'
              BY <4>1, <5>2, Zenon
            <7> QED BY <2>1, <4>1, <7>1
          <6>2. Smaller(NextKey, SeqK) = NextKey
            BY <1>1, <1>4, <5>2 DEF Smaller
          <6> QED BY <3>3, <4>1, <6>1, <6>2
        <5> QED BY <5>1, <5>2
      <4> QED BY <1>1, <2>1, <3>1, <3>2, <4>2, <4>3
    <3> QED BY <3>4, <3>5
  <2> QED BY <2>2, <2>3
<1> QED BY <1>8, <1>9, <1>10

-----------------------------------------------------------------------------
(* The invariant: what MatchesStandard says between tiles, and the tiles that *)
(* make a row nan.                                                            *)
RowCorrect(i) ==
    /\ l[i] # NaN => SoftmaxOf(i, Merged(i))
    /\ l[i] = NaN <=> output[i] = NaN
    /\ l[i] = NaN <=> \E j \in Merged(i) : Unmasked(i, TileOf(j)) = {}

TilesInv == Position /\ \A i \in Queries : RowCorrect(i)

LEMMA NotNaN ==
    /\ \A x \in Nat : x # NaN
    /\ \A f \in [Keys -> Nat] : f # NaN
BY SpecialsAssumption DEF Keys

LEMMA TilesInitInv == TilesInit => TilesInv
<1> SUFFICES ASSUME TilesInit PROVE TilesInv
  OBVIOUS
<1>1. block_size \in Nat \ {0} /\ SeqK \in Nat \ {0}
  BY Positive, SizesAssumption DEF TilesInit
<1>2. PICK n : Shape(n)
  BY ScoresShape DEF TilesInit
<1>3. Position
  <2>1. 0 = block_size * 0
    BY <1>1
  <2>2. \E q \in Nat : key = block_size * q
    <3>1. key = 0
      BY DEF TilesInit
    <3> QED BY <2>1, <3>1
  <2>3. row \in Nat /\ key \in Nat /\ row < SeqQ /\ key < SeqK
    BY <1>1, <1>2 DEF TilesInit, Shape
  <2> QED BY <2>2, <2>3 DEF TilesInit, Position
<1>4. ASSUME NEW i \in Queries PROVE RowCorrect(i)
  <2>1. i \in Nat /\ 0 .. key - 1 = {}
    BY <1>2 DEF TilesInit, Shape
  <2>2. Merged(i) = {}
    BY <2>1 DEF TilesInit, Merged
  <2>3. m[i] = NegInf /\ l[i] = 0 /\ output[i] = [j \in Keys |-> 0]
    BY DEF TilesInit
  <2>4. Unmasked(i, {}) = {}
    BY DEF Unmasked
  <2>5. RowMax(i, {}) = NegInf /\ ExpTo(i, {}, m[i]) = [j \in Keys |-> 0]
    BY <2>4 DEF RowMax, ExpTo
  <2>6. Total(output[i]) = 0
    <3> DEFINE f == output[i]
    <3>1. f \in [Keys -> Int] /\ \A j \in Keys : f[j] = 0
      BY <2>3
    <3> HIDE DEF f
    <3> QED BY <3>1, KeysFinite, SumZero DEF Total, f
  <2>7. l[i] # NaN /\ output[i] # NaN
    <3>1. output[i] \in [Keys -> Nat] /\ l[i] \in Nat
      BY <2>3
    <3> QED BY <3>1, NotNaN
  <2> QED BY <2>2, <2>3, <2>5, <2>6, <2>7 DEF RowCorrect, SoftmaxOf
<1> QED BY <1>3, <1>4 DEF TilesInv

(* A tile changes the sum, the output and the maximum of its rows together.   *)
LEMMA TileRow ==
    ASSUME TilesInv, Tile, NEW i \in Queries
    PROVE  RowCorrect(i)'
<1>1. /\ Position /\ RowCorrect(i) /\ ~done
      /\ scores' = scores /\ block_size' = block_size
  BY DEF TilesInv, Tile
<1>2. ARow(i)
  BY <1>1, ScoresShape DEF Position, Shape
<1>3. /\ i \in TileRows => /\ Merged(i) = 0 .. key - 1
                           /\ Merged(i)' = 0 .. Smaller(NextKey, SeqK) - 1
      /\ i \notin TileRows => Merged(i)' = Merged(i)
  BY <1>1, Coverage
<1>4. /\ m'[i] = IF i \in TileRows THEN NewMax(i) ELSE m[i]
      /\ l'[i] = IF i \in TileRows THEN NewSum(i) ELSE l[i]
      /\ output'[i] = IF i \in TileRows THEN NewOutput(i) ELSE output[i]
  BY DEF Tile
<1>5. ASSUME NEW M, Merged(i)' = M,
             l'[i] # NaN => /\ m'[i] = RowMax(i, M)
                            /\ output'[i] = ExpTo(i, M, m'[i])
                            /\ l'[i] = Total(output'[i]),
             l'[i] = NaN <=> output'[i] = NaN,
             l'[i] = NaN <=> \E j \in M : Unmasked(i, TileOf(j)) = {}
      PROVE  RowCorrect(i)'
  <2>1. \A j : Unmasked(i, TileOf(j))' = Unmasked(i, TileOf(j))
    BY <1>1 DEF Unmasked, TileOf
  <2>2. l'[i] # NaN => SoftmaxOf(i, Merged(i))'
    BY <1>1, <1>5 DEF SoftmaxOf, RowMax, ExpTo, Unmasked, Total
  <2>3. l'[i] = NaN <=> \E j \in Merged(i)' : Unmasked(i, TileOf(j))' = {}
    BY <1>5, <2>1
  <2> QED BY <1>5, <2>2, <2>3 DEF RowCorrect
<1>6. CASE i \notin TileRows
  BY <1>1, <1>3, <1>4, <1>5, <1>6 DEF RowCorrect, SoftmaxOf
<1>7. CASE i \in TileRows
  <2> DEFINE K == 0 .. key - 1
             U == 0 .. Smaller(NextKey, SeqK) - 1
  <2>1. /\ BlockKeys \in SUBSET Keys /\ key \in BlockKeys
        /\ \A j \in BlockKeys : TileOf(j) = BlockKeys
        /\ BlockKeys \cap K = {} /\ K \cup BlockKeys = U /\ K \in SUBSET Keys
    BY <1>1, BlockFacts
  <2>2. Merged(i) = K /\ Merged(i)' = U
    BY <1>3, <1>7
  <2> HIDE DEF K, U
  <2>3. (\E j \in U : Unmasked(i, TileOf(j)) = {})
            <=> (\E j \in K : Unmasked(i, TileOf(j)) = {}) \/ Unmasked(i, BlockKeys) = {}
    BY <2>1
  <2>4. l[i] = NaN <=> \E j \in K : Unmasked(i, TileOf(j)) = {}
    BY <1>1, <2>2 DEF RowCorrect
  <2>5. CASE Spoiled(i)
    <3>1. l'[i] = NaN /\ output'[i] = NaN
      BY <1>4, <1>7, <2>5 DEF NewSum, NewOutput
    <3>2. \E j \in U : Unmasked(i, TileOf(j)) = {}
      BY <2>3, <2>4, <2>5 DEF Spoiled
    <3> QED BY <1>5, <2>2, <3>1, <3>2
  <2>6. CASE ~Spoiled(i)
    <3>1. l[i] # NaN /\ Unmasked(i, BlockKeys) # {}
      BY <2>6 DEF Spoiled
    <3>2. SoftmaxOf(i, K)
      BY <1>1, <2>2, <3>1 DEF RowCorrect
    <3>3. U \in SUBSET Keys /\ Joined(i, K, BlockKeys, U)
      BY <2>1 DEF Joined, Unmasked
    <3>4. /\ NewMax(i) = RowMax(i, U)
          /\ NewOutput(i) = ExpTo(i, U, NewMax(i))
          /\ NewOutput(i) \in [Keys -> Nat]
          /\ NewSum(i) = Total(NewOutput(i)) /\ NewSum(i) \in Nat
      BY <1>2, <2>1, <3>1, <3>2, <3>3, MergeRow
    <3>5. m'[i] = NewMax(i) /\ l'[i] = NewSum(i) /\ output'[i] = NewOutput(i)
      BY <1>4, <1>7
    <3>6. l'[i] # NaN /\ output'[i] # NaN
      BY <3>4, <3>5, NotNaN
    <3>7. ~ \E j \in U : Unmasked(i, TileOf(j)) = {}
      BY <2>3, <2>4, <3>1
    <3> QED BY <1>5, <2>2, <3>4, <3>5, <3>6, <3>7
  <2> QED BY <2>5, <2>6
<1> QED BY <1>6, <1>7

LEMMA TilesNextInv == TilesInv /\ [Tile]_tile_vars => TilesInv'
<1>1. ASSUME TilesInv, Tile PROVE TilesInv'
  <2>1. Position' /\ Queries' = Queries
    BY <1>1, Coverage DEF TilesInv, Tile, Queries
  <2>2. \A i \in Queries : RowCorrect(i)'
    BY <1>1, TileRow
  <2> QED BY <2>1, <2>2 DEF TilesInv
<1>2. ASSUME TilesInv, UNCHANGED tile_vars PROVE TilesInv'
  <2>1. Position' /\ Queries' = Queries
    BY <1>2 DEF TilesInv, tile_vars, Position, Queries, SeqQ, Scores
  <2>2. \A i : Merged(i)' = Merged(i)
    BY <1>2 DEF tile_vars, Merged, TileRows, NextKey, Smaller, SeqQ, Queries
  <2>3. ASSUME NEW i \in Queries PROVE RowCorrect(i)'
    <3>1. RowCorrect(i)
      BY <1>2 DEF TilesInv
    <3>2. \A j : Unmasked(i, TileOf(j))' = Unmasked(i, TileOf(j))
      BY <1>2 DEF tile_vars, Unmasked, TileOf
    <3>3. SoftmaxOf(i, Merged(i))' <=> SoftmaxOf(i, Merged(i))
      BY <1>2, <2>2 DEF tile_vars, SoftmaxOf, RowMax, ExpTo, Unmasked, Total
    <3>4. l'[i] = l[i] /\ output'[i] = output[i]
      BY <1>2 DEF tile_vars
    <3> QED BY <2>2, <3>1, <3>2, <3>3, <3>4 DEF RowCorrect
  <2> QED BY <2>1, <2>3 DEF TilesInv
<1> QED BY <1>1, <1>2

(* At the end a row has covered all of its keys.                              *)
LEMMA MatchesFromInv == TilesInv => MatchesStandard
<1> SUFFICES ASSUME TilesInv PROVE MatchesStandard
  OBVIOUS
<1>1. \A i \in Queries : RowCorrect(i) /\ ARow(i)
  BY ScoresShape DEF TilesInv, Position, Shape
<1>2. ASSUME done, NEW i \in Queries
      PROVE  /\ HasEmptyTile(i) <=> output[i] = NaN
             /\ ~HasEmptyTile(i) =>
                    \A j \in Keys :
                        output[i][j] * Total(Weights(i)) = Weights(i)[j] * SafeSum(i)
  <2>1. Merged(i) = Keys
    BY <1>2 DEF Merged
  <2>2. HasEmptyTile(i) <=> l[i] = NaN
    BY <1>1, <2>1 DEF RowCorrect, HasEmptyTile
  <2>3. HasEmptyTile(i) <=> output[i] = NaN
    BY <1>1, <2>2 DEF RowCorrect
  <2>4. ASSUME ~HasEmptyTile(i), NEW j \in Keys
        PROVE  output[i][j] * Total(Weights(i)) = Weights(i)[j] * SafeSum(i)
    <3>1. l[i] # NaN /\ SoftmaxOf(i, Keys)
      BY <1>1, <2>1, <2>2, <2>4 DEF RowCorrect
    <3>2. m[i] = RowMax(i, Keys) /\ output[i] = Weights(i) /\ l[i] = Total(Weights(i))
      BY <3>1 DEF SoftmaxOf, Weights
    <3>3. Unmasked(i, Keys) # {}
      <4>1. Unmasked(i, TileOf(j)) # {} /\ TileOf(j) \subseteq Keys
        BY <2>4 DEF HasEmptyTile, TileOf
      <4> QED BY <4>1 DEF Unmasked
    <3>4. Bounds(i, Keys, RowMax(i, Keys))
      BY <1>1, <3>3, RowMaxFacts DEF Bounds
    <3>5. Total(Weights(i)) \in Nat /\ Total(Weights(i)) > 0
      BY <1>1, <3>3, <3>4, ExpToFacts DEF Weights
    <3>6. SafeSum(i) = Total(Weights(i))
      BY <3>1, <3>2, <3>5 DEF SafeSum
    <3> QED BY <3>2, <3>6
  <2> QED BY <2>3, <2>4
<1>3. \A i \in Queries : l[i] # NaN => SoftmaxOf(i, Merged(i))
  BY <1>1 DEF RowCorrect
<1> QED BY <1>2, <1>3 DEF MatchesStandard

(* "Verify that FlashAttention matches StandardAttention": for every mask,    *)
(* every number of queries and keys, every tile size and every base of the    *)
(* exponentials, in the loop order of either kernel.                          *)
THEOREM AttentionCorrect == TilesSpec => []MatchesStandard
BY TilesInitInv, TilesNextInv, MatchesFromInv, PTL DEF TilesSpec
=============================================================================
