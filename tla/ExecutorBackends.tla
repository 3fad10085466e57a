--------------------------- MODULE ExecutorBackends ---------------------------
(***************************************************************************)
(* The ONNX and TensorRT backends: the scripts that export a model and     *)
(* build an engine from it, the executors that load what they left, and    *)
(* LegacyExecutorModelRunner, which puts an executor in the place of the   *)
(* ModelRunner of Scheduler.  Without something to load an executor only   *)
(* sleeps; with it, every request of a step is a call that may raise, and  *)
(* the exception leaves run_step between schedule and update_from_output.  *)
(*                                                                         *)
(* onnxruntime, TensorRT and torch are external: a call of theirs may fail *)
(* at any time, and a file that is not whole cannot be loaded.             *)
(***************************************************************************)
EXTENDS Integers, Sequences, FiniteSets, Functions

CONSTANTS
    (* The requests and the configuration of the scheduler. *)
    Requests, PromptLength, MaxNewTokens, Priority, MaxNumScheduledTokens,
    MemoryBudget, MaxNumSeqs, MaxPerPriority, BlockSize,
    (* The optimization profile of the engine, and the shape it is warmed up with. *)
    MinSeqLen, MaxSeqLen, WarmupLen,
    MaxFailures,   \* bound: steps that an exception of the backend ends
    MaxTools       \* bound: runs of the export and build scripts

ASSUME RequestsAssumption == IsFiniteSet(Requests)
ASSUME ShapesAssumption ==
    /\ PromptLength \in [Requests -> Nat]
    /\ MaxNewTokens \in [Requests -> Nat]
    /\ Priority \in [Requests -> Int]
ASSUME SchedulerAssumption ==
    /\ MaxNumScheduledTokens \in Nat \ {0} /\ BlockSize \in Nat \ {0}
    /\ MemoryBudget \in Nat /\ MaxNumSeqs \in Nat /\ MaxPerPriority \in Nat
ASSUME ProfileAssumption ==
    MinSeqLen \in Nat /\ MaxSeqLen \in Nat /\ WarmupLen \in Nat \ {0}
ASSUME BoundsAssumption == MaxFailures \in Nat /\ MaxTools \in Nat

VARIABLES
    (* Scheduler *)
    waiting, running, finished, status, cached, computed, generated, sent,
    finished_since, current_memory, total_running, priority_counts, tracked,
    processed, runner_cache, pc, skipped, cursor, budget, scheduled, tokens,
    finished_ids, sampled,
    (* The files of export_onnx.py and build_trt_engine.py. *)
    files,          \* per file: "absent", "torn" or "whole"
    tool,           \* what the script that runs is doing
    tools,          \* scripts started
    killed,         \* a script ended while it was writing
    (* The executor of the engine. *)
    backend,        \* "none" until the engine exists
    loaded,         \* _model_loaded, _engine_loaded
    shape,          \* input length set in the TensorRT context, 0 for none
    (* LegacyExecutorModelRunner. *)
    todo,           \* requests of the batch the executor has not run yet
    ran,            \* length of the sequence the model ran for a request
    total_tokens,   \* _total_tokens_generated
    failures

S == INSTANCE Scheduler WITH ChunkedPrefill <- FALSE, PrefillChunkSize <- 1

scheduler == <<waiting, running, finished, status, cached, computed, generated, sent,
               finished_since, current_memory, total_running, priority_counts, tracked,
               processed, runner_cache, pc, skipped, cursor, budget, scheduled, tokens,
               finished_ids, sampled>>
scripts == <<files, tool, tools, killed>>
executor == <<backend, loaded, shape>>
runner == <<todo, ran, total_tokens, failures>>
vars == <<scheduler, scripts, executor, runner>>

Models == {"onnx", "onnx_fp16"}
Files == Models \cup {"engine"}
FileStates == {"absent", "torn", "whole"}
Tools == {"off", "exporting", "converting", "building", "saving"}
NoLengths == [r \in Requests |-> 0]

Init ==
    /\ S!Init
    /\ files = [f \in Files |-> "absent"]
    /\ tool = "off" /\ tools = 0 /\ killed = FALSE
    /\ backend = "none" /\ loaded = FALSE /\ shape = 0
    /\ todo = <<>> /\ ran = NoLengths /\ total_tokens = 0 /\ failures = 0

-----------------------------------------------------------------------------
(* export_onnx.py.  torch.onnx.export writes over the file of an earlier export; *)
(* what fails from there on leaves half of it.                                   *)
UseTool(step) ==
    /\ tool = "off" /\ tools < MaxTools
    /\ tool' = step /\ tools' = tools + 1

ToolDone == tool' = "off" /\ UNCHANGED tools

Export ==
    /\ UseTool("exporting")
    /\ files' = [files EXCEPT !["onnx"] = "torn"]
    /\ UNCHANGED <<scheduler, killed, executor, runner>>

(* With --fp16 and the converter installed, a second file is written.  The *)
(* verdict of verify_onnx_model is not looked at.                          *)
EndExport ==
    /\ tool = "exporting"
    /\ files' = [files EXCEPT !["onnx"] = "whole"]
    /\ tool' \in {"off", "converting"} /\ UNCHANGED tools
    /\ UNCHANGED <<scheduler, killed, executor, runner>>

EndConversion ==
    /\ tool = "converting"
    /\ ToolDone
    /\ \E s \in {files["onnx_fp16"], "torn", "whole"} :
           files' = [files EXCEPT !["onnx_fp16"] = s]
    /\ UNCHANGED <<scheduler, killed, executor, runner>>

ExportFails ==
    /\ tool = "exporting"
    /\ ToolDone
    /\ UNCHANGED <<scheduler, files, killed, executor, runner>>

(* build_trt_engine.py: the model is parsed, the engine is built, and only then *)
(* is the file of the earlier engine written over.                              *)
FaultyBuild(model) ==   \* the file is opened first
    /\ UseTool("building")
    /\ files[model] = "whole"
    /\ files' = [files EXCEPT !["engine"] = "torn"]
    /\ UNCHANGED <<scheduler, killed, executor, runner>>
Build(model) ==
    /\ UseTool("building")
    /\ files[model] = "whole"
    /\ UNCHANGED <<scheduler, files, killed, executor, runner>>

(* The network cannot be built, or nothing comes of it. *)
BuildFails ==
    /\ tool = "building"
    /\ ToolDone
    /\ UNCHANGED <<scheduler, files, killed, executor, runner>>

SaveEngine ==
    /\ tool = "building"
    /\ tool' = "saving"
    /\ files' = [files EXCEPT !["engine"] = "torn"]
    /\ UNCHANGED <<scheduler, tools, killed, executor, runner>>

(* verify_trt_engine follows; its verdict is not looked at either. *)
EngineSaved ==
    /\ tool = "saving"
    /\ ToolDone
    /\ files' = [files EXCEPT !["engine"] = "whole"]
    /\ UNCHANGED <<scheduler, killed, executor, runner>>

(* A script is killed, or fails in the middle of a write. *)
KillTool ==
    /\ tool # "off"
    /\ ToolDone
    /\ killed' = TRUE
    /\ UNCHANGED <<scheduler, files, executor, runner>>

-----------------------------------------------------------------------------
(* InferenceEngine.__init__ and _create_executor.  An exception of warmup leaves *)
(* the constructor, and there is no engine.  Of the optimization profile only the *)
(* sequence length is kept: TensorRT runs the requests one by one, and a profile  *)
(* built with the default min_batch admits a single row.                          *)
InProfile(n) == MinSeqLen <= n /\ n <= MaxSeqLen

(* load_model: onnxruntime may not be installed, or refuse the file. *)
LoadModel(file) ==
    /\ loaded' \in {FALSE, files[file] = "whole"}
    /\ shape' = 0

(* load_engine and warmup: CUDA or TensorRT may be missing, the file be absent  *)
(* or not deserialize, the bindings not be found.  The first shape is the one   *)
(* of the warmup, which raises if the profile does not have it.                 *)
LoadEngine ==
    \/ loaded' = FALSE /\ shape' = 0
    \/ files["engine"] = "whole" /\ InProfile(WarmupLen) /\ loaded' = TRUE /\ shape' = WarmupLen

CreateEngine(b) ==
    /\ backend = "none"
    /\ backend' = b
    /\ \/ b = "onnx" /\ \E file \in Models : LoadModel(file)
       \/ b = "tensorrt" /\ LoadEngine
    /\ UNCHANGED <<scheduler, scripts, runner>>

-----------------------------------------------------------------------------
(* What the scheduler does without the model runner. *)
AddRequest(r) ==
    /\ backend # "none"
    /\ S!AddRequest(r)
    /\ UNCHANGED <<scripts, executor, runner>>

BeginStep ==
    /\ backend # "none"
    /\ S!BeginStep
    /\ UNCHANGED <<scripts, executor, runner>>

Schedule ==
    /\ \/ \E r \in Requests :
             \/ \E l \in 0 .. PromptLength[r] : S!AdmitRequest(r, l)
             \/ S!SkipRequest(r)
             \/ S!SelectRequest(r) \/ S!PassOver(r) \/ S!SelectRaises(r)
       \/ S!EndAdmission
    /\ UNCHANGED <<scripts, executor, runner>>

(* The batch of the step: first the requests that prefill, then the others, as *)
(* they were scheduled.                                                        *)
IsBatchOf(batch, requests) ==
    /\ Range(batch) = Range(requests)
    /\ \A i, j \in DOMAIN batch : i < j =>
           \/ status[batch[i]] = "prefill" /\ status[batch[j]] = "decode"
           \/ /\ status[batch[i]] = status[batch[j]]
              /\ \E k, l \in DOMAIN requests :
                     k < l /\ requests[k] = batch[i] /\ requests[l] = batch[j]

EndSelection ==
    /\ S!EndSelection
    /\ \E batch \in [DOMAIN scheduled -> Range(scheduled)] :
           IsBatchOf(batch, scheduled) /\ todo' = batch
    /\ ran' = NoLengths
    /\ UNCHANGED <<scripts, executor, total_tokens, failures>>

Update ==
    /\ \/ \E r \in Requests : S!UpdateUnfinished(r) \/ S!UpdateFinished(r)
       \/ S!EndUpdate
    /\ UNCHANGED <<scripts, executor, runner>>

(* InferenceEngine.reset; what was loaded stays loaded. *)
Reset ==
    /\ backend # "none"
    /\ S!Reset
    /\ total_tokens' = 0
    /\ UNCHANGED <<scripts, executor, todo, ran, failures>>

-----------------------------------------------------------------------------
(* run_prefill and run_decode.  There is no KV cache behind these models: a    *)
(* prefill runs the whole prompt, a decode the prompt and the tokens so far.   *)
FaultyInputLength(r) == PromptLength[r]   \* without the generated tokens
InputLength(r) ==
    IF status[r] = "prefill" THEN PromptLength[r] ELSE PromptLength[r] + generated[r]

(* _run_onnx_prefill, _run_onnx_decode: the exported model takes any length. *)
RunOnnx(r) ==
    /\ backend = "onnx" /\ loaded
    /\ ran' = [ran EXCEPT ![r] = InputLength(r)]
    /\ UNCHANGED shape

(* _run_trt_prefill, _run_trt_decode: set_input_shape refuses a length outside *)
(* the profile, which the code does not look at; the context keeps its shape.  *)
RunTensorRT(r) ==
    /\ backend = "tensorrt" /\ loaded
    /\ shape' = IF InProfile(InputLength(r)) THEN InputLength(r) ELSE shape
    /\ ran' = [ran EXCEPT ![r] = shape']

(* _run_simulated_prefill, _run_simulated_decode: the time of as many tokens. *)
Simulate(r) ==
    /\ ~loaded
    /\ ran' = [ran EXCEPT ![r] = IF status[r] = "prefill" THEN PromptLength[r] ELSE 1]
    /\ UNCHANGED shape

FaultyRunRequest(r) ==   \* execute, which updates the request, for run_prefill
    /\ pc = "executing"
    /\ todo # <<>> /\ r = Head(todo)
    /\ todo' = Tail(todo)
    /\ RunOnnx(r) \/ RunTensorRT(r) \/ Simulate(r)
    /\ generated' = [generated EXCEPT ![r] = @ + 1]
    /\ UNCHANGED <<waiting, running, finished, status, cached, computed, sent,
                   finished_since, current_memory, total_running, priority_counts,
                   tracked, processed, runner_cache, pc, skipped, cursor, budget,
                   scheduled, tokens, finished_ids, sampled, scripts, backend, loaded,
                   total_tokens, failures>>
RunRequest(r) ==
    /\ pc = "executing"
    /\ todo # <<>> /\ r = Head(todo)
    /\ todo' = Tail(todo)
    /\ RunOnnx(r) \/ RunTensorRT(r) \/ Simulate(r)
    /\ UNCHANGED <<scheduler, scripts, backend, loaded, total_tokens, failures>>

(* A call of the backend raises: execute_model and run_step are left, with the *)
(* requests admitted and nothing of the batch recorded.                        *)
RunRaises ==
    /\ pc = "executing" /\ todo # <<>> /\ loaded
    /\ failures < MaxFailures
    /\ failures' = failures + 1
    /\ S!StepEnds
    /\ todo' = <<>> /\ ran' = NoLengths
    /\ UNCHANGED <<waiting, running, finished, status, cached, computed, generated, sent,
                   finished_since, current_memory, total_running, priority_counts,
                   tracked, processed, runner_cache, scripts, executor, total_tokens>>

(* The output: a token for every request that reaches the end of its prompt. *)
Samples(r) == computed[r] + tokens[r] >= PromptLength[r]

FaultyTokensOfStep == Len(running)   \* those the budget left out as well
TokensOfStep == Cardinality({r \in Range(scheduled) : Samples(r)})

EndExecution ==
    /\ pc = "executing" /\ todo = <<>>
    /\ pc' = "updating"
    /\ sampled' = {r \in Range(scheduled) : Samples(r)}
    /\ total_tokens' = total_tokens + TokensOfStep
    /\ UNCHANGED <<waiting, running, finished, status, cached, computed, generated, sent,
                   finished_since, current_memory, total_running, priority_counts,
                   tracked, processed, runner_cache, skipped, cursor, budget, scheduled,
                   tokens, finished_ids, scripts, executor, todo, ran, failures>>

-----------------------------------------------------------------------------
Scripts ==
    \/ Export \/ EndExport \/ EndConversion \/ ExportFails
    \/ \E model \in Models : Build(model)
    \/ BuildFails \/ SaveEngine \/ EngineSaved \/ KillTool

Engine ==
    \/ \E b \in {"onnx", "tensorrt"} : CreateEngine(b)
    \/ \E r \in Requests : AddRequest(r) \/ RunRequest(r)
    \/ BeginStep \/ Schedule \/ EndSelection \/ RunRaises \/ EndExecution \/ Update
    \/ Reset

Next == Scripts \/ Engine

Spec == Init /\ [][Next]_vars

-----------------------------------------------------------------------------
(* Type correctness, of what is not the scheduler's. *)
TypeOK ==
    /\ files \in [Files -> FileStates] /\ tool \in Tools
    /\ tools \in 0 .. MaxTools /\ killed \in BOOLEAN
    /\ backend \in {"none", "onnx", "tensorrt"} /\ loaded \in BOOLEAN
    /\ shape \in Nat
    /\ todo \in Seq(Requests) /\ ran \in [Requests -> Nat]
    /\ total_tokens \in Nat /\ failures \in 0 .. MaxFailures

(* _total_tokens_generated of the runner and output_token_ids of the scheduler  *)
(* are kept apart and filled at different times: the one is the sum of the      *)
(* others, but for what the update still has to hand out, also after steps that *)
(* an exception ended half way through their batch.                             *)
TokensReported ==
    total_tokens = SumFunctionOnSet(generated, Requests)
                       + Cardinality(sampled \cap Range(scheduled))

(* The executors go by prompt_length and generated_tokens, the scheduler by     *)
(* num_computed_tokens and the tokens it schedules.  They agree on the sequence *)
(* a model runs, which ends at the position the scheduler computes; a prompt    *)
(* that was found whole in the cache is one position ahead.  TensorRT runs it   *)
(* if its length is in the profile.                                             *)
SequencesMatchSchedule ==
    loaded /\ pc = "executing" =>
        \A r \in Range(scheduled) \ Range(todo) :
            LET n == computed[r] + tokens[r] - (IF cached[r] = PromptLength[r] THEN 1 ELSE 0)
            IN backend = "onnx" \/ InProfile(n) => ran[r] = n

(* Building comes before writing: a build that fails leaves the engine of the   *)
(* last one, so only a script that is still at it, or that was killed or failed *)
(* in the middle of the write, leaves half of an engine for load_engine to find. *)
FailedBuildKeepsEngine == files["engine"] = "torn" => tool = "saving" \/ killed

(* Whatever is loaded and whenever it fails, what the engine does for its       *)
(* requests is what RequestLifecycle promises: a step that was abandoned is     *)
(* done again, and no token is emitted twice or left out.                       *)
RefinesRequestLifecycle == S!RefinesRequestLifecycle
=============================================================================
