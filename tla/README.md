# Verification of the inference backend

TLA+ specifications of the vLLM-style inference engine in this repository, of the
service in front of it and of the scripts around it; the TLC configurations that
model-check them on small instances; and proofs, checked by TLAPS, of the properties
that matter most for every value of the constants.  The definitions are translated
from the Python source; where the documentation promises something else, a run shows
the difference (section "Disagreements").

## The system

The repository is a teaching engine with production-shaped parts, and around it a
FastAPI service, benchmarks, experiments and deployment data.

| Component | State it keeps | Operations | Module |
|---|---|---|---|
| `BlockAllocator`, `Block` | free list; state, reference count and fill of each block | allocate, share, free, reset | `KVCache` |
| `BlockManager`, `BlockTable` | a block table per request | allocate, share, append blocks, append a token, free | `KVCache` |
| `PrefixCache` | map from token prefixes to block lists | find longest prefix (deletes stale entries), cache a prefix, clear | `KVCache` |
| `KVCacheManager` | cached token count per request | facade over the three | `KVCache` |
| `Scheduler` | waiting, running and finished queue, ids finished since the last step | add, schedule, update from output, reset | `Scheduler` |
| admission policies | memory in use, running count, count per priority | can admit, record admission, record completion, reset | `Scheduler` |
| `ChunkedPrefillHelper` | progress through each prompt | register, mark a chunk done, remove, reset | `Scheduler` |
| `Request` | status, computed positions, output tokens, cached prefix | changed by the scheduler only | `Scheduler` |
| `ModelRunner`, `GPUWorker` | request cache | execute a step, reset | `Scheduler` |
| `InferenceEngine` | the parts above, wired by callbacks | add a request, run a step, run, reset | `EngineCore`, `ExecutorBackends` |
| ONNX and TensorRT backends | model and engine files; what an executor has loaded; token count | export, convert, build, load, run a prefill or a decode | `ExecutorBackends` |
| `ContinuousBatchingRunner` | pending requests, simulated clock, timestamps | add a request, run | `ContinuousBatching` |
| `StaticBatchingRunner` | the batches, one shared policy | drive one engine per batch | not modelled |
| attention kernels | maximum, sum and output of each row | tile by tile, the two loop orders | `TiledAttention` |
| HTTP front end (`app/`) | counters by path, status and outcome | proxy chat and streaming chat to a vLLM server, show `/metrics` | `ChatService` |
| load client (`benchmarks/`) | results of concurrent calls | run a case in a thread pool, read a stream, give up waiting | `ChatService` |
| `hf_benchmark.py` | records of a case, rows of a batch | decode a batch in lock step, collect the records | `HFGeneration` |
| benchmark and comparison scripts | files of the artifact directories | measure, write, read two directories, compare | `BenchmarkArtifacts` |
| profiling session | server processes, sampler threads, traces, metadata | start, poll, warm up, profile, stop, analyse | `ProfilingSession` |
| GPU monitor, experiments, plots, deployment | samples; none | sample; run and draw | not modelled |

How they interact.  `InferenceEngine.run` calls `run_step` while the scheduler has
work.  A step is three calls in sequence: `Scheduler.schedule` admits waiting
requests (asking the policy, then calling `kv_alloc_fn` into the KV cache) and
divides a token budget among the running ones; `GPUWorker.execute_model` lets the
model runner compute and sample; `Scheduler.update_from_output` adds up the progress,
appends each sampled token to the cache (`kv_append_fn`) and finishes requests
(policy, `kv_free_fn`, chunk helper, notice to the runner).  The engine runs in one
thread, so its hard behaviour is not preemption.  It is that several books are kept
about the same thing and updated in different places:

* block tables, reference counts, free list and prefix entries, over any
  sequence of allocations, failures, releases and resets;
* queues, request statuses, the policy's counters, the chunk helper's progress
  and the runner's request cache, while a loop is in the middle of changing them;
* a step that is abandoned half-way by an exception;
* a pool, a token budget or a policy that is at its limit;
* prefix entries that outlive the blocks they name, or that are published before
  they are true.

Around the engine there is real concurrency.  Handlers of the service run in a thread
pool; each increments its counters one by one while Prometheus reads them one by one,
and a client that gives up does not stop the handler that works for it.  The profiling
script, the vLLM servers it starts and its sampler threads go on independently, and
servers survive a script that is killed.  The benchmark scripts overwrite the files of
a directory one after the other while a comparison may be reading it.  The export and
build scripts leave files behind that an engine loads later, or half of them.

`PROJECT.json` lists these hazards at their lines, with the properties aimed at each.

## The modules

**`SharedBlockPool`** is what the KV cache promises: every block has a set of
holders; a request acquires blocks once, shared ones from their present holders and
fresh ones held by nobody, grows by fresh blocks, and releases everything at once.

**`KVCache`** models block pool, block tables, prefix cache and facade.  One action
per call of the facade: `AllocateBlocks` (hit or miss), `AllocateBlocksFails` (the
`None` paths with their rollback), `AppendInPlace` and `AppendInNewBlock`,
`FreeRequest`, `Reset`.  Calls are atomic because the engine is single-threaded and
none of them calls back.  Prompts are short sequences over model values, so "the same
prefix" means what it means in the code.  Four history variables record what
the code does not know: the prefix whose KV state each block holds (`content`), the
prompt and the stored tokens of each request, and the keys whose entry names a block
that was freed since (`lapsed`); `misled` says that a lookup was answered by such a
key.  `live` are the requests the scheduler holds blocks for; after a reset the
code keeps old block tables, which are replaced when their id is allocated again.

**`RequestLifecycle`** is what the engine promises to a request: wait, run when there
is room, emit tokens one by one, finish with the last one asked for.  A request
for zero tokens may finish with none, or with one.

**`Scheduler`** models the scheduler with its policy, the chunk helper, the request
objects and the model runner.  `pc` says where a step is and each loop iteration
of `schedule` and `update_from_output` is an action, so that the invariants are
checked in the middle of the loops: `BeginStep` (the finished ids are taken),
`AdmitRequest`, `SkipRequest` (no blocks: the scan goes on), `EndAdmission` (queue
exhausted, or the policy refuses and the scan stops; `del` of the admitted
indices), `SelectRequest`, `PassOver` (a whole prompt waits for a larger rest of the
budget), `SelectRaises` (the `ValueError`), `EndSelection`, `ExecuteModel`,
`UpdateUnfinished`, `UpdateFinished` (`_finish_request`), `EndUpdate`; between
steps `AddRequest` and `Reset`.  The code deletes admitted requests from the waiting
queue after its loop; the model moves each at once and keeps those passed over in
`skipped`, which `EndAdmission` puts back in front: nothing reads the queue in
between.  The policy is a `CompositePolicy` of a memory budget and a priority policy;
`MaxSeqPolicy` is the latter with a large `MaxPerPriority`.

The KV cache appears in `Scheduler` through its callbacks: an allocation finds a
cached prefix that ends at a block boundary, or fails.  Two facts are assumed of it:
a prefix is only found while something runs, and with nothing running the allocation
succeeds.  `EngineCore` discharges them (`CallbacksAsAssumed`) for prompts that fit
the pool, on its instance in a run and for every instance in a proof.

**`EngineCore`** composes `S == INSTANCE Scheduler` and `KV == INSTANCE KVCache`.  Its
actions join an action of the scheduler to what it makes the cache do: admission to
the allocation, completion to the release, reset to reset.  The append of a sampled
token is a step of its own (`AppendToken`), whose failure the code ignores.
`dropped` records the requests that lost a slot this way and `filled` the blocks
whose prompt tokens were computed.

**`ContinuousBatching`** is `ContinuousBatchingRunner` around `S == INSTANCE Scheduler`.
`phase` says where `run` is: `AddPending` and `StartRun` (the stable sort: `IsByArrival`
says of a list that it is the pending one in order of arrival, those that arrive together
in the order of the calls; there is exactly one); then, for each iteration, `BeginIteration` (the fast-forward of an idle engine),
`Inject` for every request that has arrived, `BeginStep` (which keeps the statuses),
the actions of the scheduler's step, `EndStep(d)` (the clock moves by the measured
duration `d` and the events of the step are stamped), and `FreeFinished`, the hook
`_free_finished_requests`.  `add_request` puts a request into the engine's queue and
takes it out again, so before its injection it is absent for the scheduler.  The
scheduler stamps its own events with the wall clock (`WallClock`), which the runner is
to replace: a timestamp is `Unset`, `WallClock` or a time of the simulated clock.

**`TiledAttention`** is the loop of `FlashAttentionCPU.forward` (queries outside, keys
inside) and of `flash_attention_simulated` (the other way round), one action per tile,
against the softmax over all keys of `StandardAttention`.  `exp` is replaced by the powers
of a whole number (`Pow`, two in the run), which turn sums into products just as well and
are exact in fixed point; the output is kept as its coefficients of the values.  A masked score is `NegInf`, and the
arithmetic on it that gives `nan` in the code gives `NaN`.

**`ExecutorBackends`** puts `LegacyExecutorModelRunner` with the ONNX or TensorRT executor
in the place of the model runner of `S == INSTANCE Scheduler`.  The scripts are a process
of their own (`Scripts`: export, conversion, build, saving, each of which may fail or be
killed), whose files are absent, torn or whole; the
engine is created at some point (`CreateEngine`) and loads what it finds, falling back
to the simulation as the code does.  `executing` is no longer one step: each request of
the batch is one call, which may raise, and then `run_step` is left between `schedule`
and `update_from_output`.  `shape` is the input length set in the TensorRT context, which
stays when `set_input_shape` refuses a length; `ran` is the sequence length a model ran
for a request.  A profile is a range of lengths: its batch dimension is left out, as the
executors run one request at a time and the default `--min-batch` admits that.  onnxruntime, TensorRT and torch are external.

**`ChatService`** has one handler and one client per request: middleware, validation,
call to vLLM, each increment of a counter and the reply are steps, in the code's order,
and a scrape reads the two counters in two steps.  A call to vLLM answers, raises, or
never returns.  `run_case` first makes its warmup calls one after the other
(`run_warmup`), which the service counts like any other and whose results are dropped;
then the measured requests take turns in a pool.  Any client may give up (`GiveUp`),
after which the handler goes on.  The text of replies, the pieces of a stream and the
token counts are left out.

**`HFGeneration`** is `run_hf_case` with `generate_batch`: warmup and measured prompts cut
into batches, one action per call of the model, which ends any set of rows or raises.
What is stored of an exception is its text, `str(exc)`, which may be empty
(`MemoryError()`): its rows then look like those that ended by themselves.  `ErrorsTell`
therefore speaks of batches that ended, or some record of which carries an error.
**`BenchmarkArtifacts`** runs it (`HF == INSTANCE HFGeneration`) inside a benchmark script
that then writes its files one after the other, possibly over those of an earlier run
and possibly killed in the middle of one, while a comparison reads metadata and rows of
two directories, checks and reports.  The content of a file is the number of the run
that wrote it.  `dirty` and `touched` are history: a directory whose files are not all of
one finished run, and a comparison that read one or was written to meanwhile.

**`ProfilingSession`** is the profiling script over several invocations: the loop over the
variants, `run_variant` with its `try`, `except` and `finally`, `stop_process` with its
SIGINT and SIGKILL, `metadata.json` and `session.json`.  Servers come up, exit or hang
whenever they like, whoever listens answers the poll, and a sampler thread that is stuck
outlives its stop.  The four calls of `gpu_snapshot` are steps of their own (`Snapshot`,
`SnapshotFails`), for nothing limits how long nvidia-smi takes.  The script may be killed
or interrupted wherever it is: Ctrl-C in the `try` runs the `finally` clause; anywhere
else, in that clause too, nothing catches it, so the rest of the cleanup is skipped and a
server that is alive stays behind (`abandoned`).  Every launch has a number, which names
the attempt, its server and its sampler; a trace is the pair of the attempt that stopped
the profile and the server that wrote it.  The profile's end goes into the metadata
before the script sleeps and takes its next snapshot, where it can still fail.  The
variants of an invocation may repeat, as `--variants` allows.  What
`analyze_vllm_profile.py` accepts is an operator (`Analyzable`).

**`CollectionLemmas`** holds proved lemmas about sequences without repetition and about
sums over finite sets.  `KVCacheProofs`, `SchedulerProofs`, `EngineCoreProofs`,
`ContinuousBatchingProofs` and `ChatServiceProofs` hold the theorems about the modules they
are named after, `ExecutionProofs` those about what runs a model (`ExecutorBackends` and
`TiledAttention`) and `ScriptsProofs` those about `BenchmarkArtifacts` with `HFGeneration` and
about `ProfilingSession`.  The `MC` modules give constants their values for TLC.  Operators named `Faulty...` (and
`StingySoleBlocks`) are wrong variants of the definition they stand before; no
specification uses them.  Each property was seen to fail when one of them is put in
that definition's place (`mutants` in `PROJECT.json`).

## The runs

| Run | What is asked | Outcome |
|---|---|---|
| `kv_cache` | Do free list, reference counts, tables and prefix entries stay consistent over all sequences of calls, is a shared block sound and never written to, does the cache implement `SharedBlockPool`? | holds |
| `scheduler` | With chunked prefill: do policy, chunk helper, progress and runner cache agree at every point of a step, is `RequestLifecycle` implemented, does every request finish? | holds |
| `scheduler_whole` | Without chunks: are the queues consistent, also after a step that raised, and is the oldest never passed over? | holds |
| `engine` | Composed: do exactly the running requests hold blocks, does the cache answer as `Scheduler` assumes, do slots match progress, do failures mean overload, does every request finish? | holds |
| `batching` | Is nobody served before it arrives and nobody who has arrived left out, do all events carry simulated timestamps that fit, does the time to first token stand, does the run serve everything? | holds |
| `attention` | Is the online softmax, between any two tiles and in either order of the loops, the softmax of the keys so far, and at the end that of `StandardAttention`? | holds, but for rows with a wholly masked tile |
| `backends` | With a backend that fails whenever it likes: are tokens reported once, does the model run the sequence the scheduler counts, does a failed build keep the last engine, is `RequestLifecycle` still implemented? | holds |
| `service` | Do scrapes show no reply without its inference, do the client's summary and its warmup agree with the counters, does the case end although the service may hang? | holds |
| `benchmarks` | Do comparisons report on the same workload only, do completion tokens stop at the end of a row, do records tell what failed? | holds, for exceptions that have a text |
| `profiling` | Is no server left behind, do traces, reports and session entries belong to the attempt they are filed under, does every invocation end? | holds; a server is left behind by a kill, an interrupt outside the `try` or a SIGKILL without effect, and an invocation is held by nvidia-smi alone |
| `kv_stale_prefix`, `engine_reused_prefix` | Does the code do what its documentation says? | violated |

### Bounds

* `kv_cache`: two requests, three blocks of two tokens, three prompts, at most
  `MaxTokens` = 5 tokens per request.  The prompts are one that fills a block, one
  that extends it into a second, half-full block, and an unrelated one that recycles
  blocks.  With two requests a block can be shared, outlive its first owner and be
  released in either order; with three blocks allocations fail both with and without
  a shared prefix; five tokens are enough to grow beyond the prompt across a block
  boundary.  Requests are symmetric, so they are a symmetry set (the run checks no
  liveness).  Deadlock is not checked: `MaxTokens` bounds the growth, not the code.
* `scheduler`: four requests with a budget of three tokens, chunks of two, three
  running at most and two per priority.  The prompts have 5, 2, 3 and 2 tokens: one
  takes several chunks, the last chunk is shorter, one is exactly a block, so it
  can be found whole in the cache.  One request asks for no tokens.  The memory
  budget of 14 refuses some combinations and accepts each request alone.
* `scheduler_whole`: prompts of 3, 2, 4 and 1 tokens with the same budget of three:
  the second often has to wait for the first, the third never fits and raises.
* `engine`: three requests and four blocks of two tokens, of which they would like
  to use seven; every request fits the pool alone.  Chunk, budget and policy are
  tight as above.  Deadlock is checked in the scheduler and engine runs.
* `batching`: four requests with prompts of 1, 2, 1 and 4 tokens and arrivals at 0, 2,
  2 and 3, added in any order; a step takes 0, 1 or 3 units, so arrivals fall before,
  at and after the end of a step, and the engine falls idle in between or not.  One
  request asks for no token; the last one exceeds the budget of two, unless the
  cache holds its beginning, and then the step raises.  `MaxSteps` = 12 is the code's
  `max_steps`; `RunServesAll` shows that no run is stopped by it.
  Deadlock is not checked: a run ends.
* `attention`: three keys, up to two queries for `FlashAttentionCPU` and three for the
  simulated kernel, every matrix of scores 0, 1, 2 (and masked, where the code takes a
  mask), and blocks of 1, 2 and 4: single keys, a last block that is short, one that
  holds everything.  Three scores let the maximum move twice.  Deadlock is not
  checked: a kernel ends.
* `backends`: three requests with prompts of 1, 2 and 3 tokens for 2, 2 and 1 tokens, a
  budget of two, so the last one raises `ValueError` unless it was found in the cache, two
  running at most; a profile of lengths 1 to 2, so sequences grow out of it; one
  call that raises (`MaxFailures`) and two runs of the scripts (`MaxTools`), the second of which
  writes over the files of the first.  Deadlock is checked.
* `service`: one warmup call, then two chat requests in a pool of one, so each starts when
  the one before has its result or was given up, and works beside it on the server; one
  stream; two scrapes (`MaxScrapes`).  Deadlock is not checked: clients and scrapes come to an end.
* `benchmarks`: a directory for each kind of script, two workloads and two models (both
  symmetry sets; the run checks no liveness), two sets of levels, two runs (`MaxRuns`),
  into the same directory or different ones, one kill (`MaxKills`).  Three requests after
  one warmup in batches of two: a full batch and a short one; two tokens at most, so rows
  end before, at and after the limit.  Deadlock is not checked: the runs come to an end.
* `profiling`: two variants with different models, two launches (`MaxAttempts`) over any
  number of invocations, two kills or interrupts (`MaxStops`) and one poll before the
  deadline (`MaxPolls`).  Two launches suffice to profile one variant twice or to meet a
  server the first one left; with two interrupts the second can hit the cleanup that the
  first one started.  Deadlock is not checked: the
  launches come to an end.

In the scheduler and engine runs every request is added at most once between resets,
which bounds the state without excluding an order: ids may be added in any order, before or between steps, and again
after a reset.

### Fairness

`Scheduler` and `EngineCore` assume weak fairness of two things.  A step that has
begun runs to its end (`WF(Advance)`): there is nothing a step waits for.  While there
is work another step is begun (`WF(BeginStep /\ ~IsDone)`): this is the loop of
`InferenceEngine.run` without its `max_steps` limit.  Nothing is assumed about requests
being added, about the answers of the cache or about resets.  `EveryRequestFinishes` is
checked where no step raises: after a `ValueError` the code leaves `run`.
`ContinuousBatching` assumes that a run which was started goes on
(`WF(phase # "adding" /\ Next)`); nothing is assumed about `add_request`.

`ChatService` assumes that the client's threads run and that their timeout comes: weak
fairness of `Send` and `GiveUp` of each chat request and of `EndCase`.  Nothing is assumed
of the service or of vLLM, so `CaseEnds` holds although they may hang.  `ProfilingSession`
assumes weak fairness of `ScriptStep`: what the script waits for there, startup, requests,
the sampler's thread and the exit of a server, has a time limit in the code, after which a
failing branch is enabled (that of a request counts from one piece of the answer to the
next; a server that sends its answer forever is not considered).  `gpu_snapshot` has no
limit, so nothing is assumed of `Snapshot` and `SnapshotFails`: `ScriptEnds` says that an
invocation ends unless the script stays in a snapshot for ever.  Nor is anything assumed
of servers, threads or the user.  `ExecutorBackends` and `BenchmarkArtifacts` check safety only and assume nothing.

`EveryRequestFinishes` supposes, as the configurations do, that each request fits the
policy and the pool alone; the code has no check for requests that do not, and `run`
would then spin until `max_steps`.

## What is proved

For all requests, prompts, pool sizes, block sizes, budgets, chunk sizes, limits, numbers
of launches, runs and scrapes, under the named assumptions of the modules (finite sets,
positive block size, chunk size, token budget, concurrency and token limit; in `EngineCore`
a mark for generated tokens that is no prompt token; in `TiledAttention` at least one key and
a base whose powers multiply as powers do):

| Module | Theorems | What they say |
|---|---|---|
| `KVCacheProofs` | `TypeCorrect`, `FreeListCorrect`, `ReferencesCorrect`, `ImplementsSharedBlockPool` | the accounting of blocks is exact and implements the abstract pool |
| | `TablesCorrect`, `UsableEntriesKept`, `SharingSound`, `SharedNeverWritten` | no table repeats a block, usable entries survive, and without a stale hit shared blocks hold the right content and are never written to |
| `SchedulerProofs` | `SchedulerTypeCorrect`, `QueuesCorrect`, `CountsCorrect`, `MemoryCorrect`, `ProgressCorrect`, `ImplementsRequestLifecycle` | queues, policy counts, memory and progress agree, and the lifecycle is implemented |
| | `OldestServed`, `ChunkProgress`, `PromptsWhole`, `RunnerCurrent` | who is served, how prompts are computed, and what the runner knows |
| `EngineCoreProofs` | `EngineImplementsScheduler`, `EngineImplementsKVCache`, `EngineImplementsRequestLifecycle` | put together, scheduler and cache each do only what they do alone |
| | `BlocksReturned`, `CallbacksCorrect`, `SlotsCorrect`, `FailuresJustified`, `EngineTablesSound`, `EngineTypeCorrect` | who holds blocks, what the cache answers, how many slots a request has, and that a refusal means overload |
| `ContinuousBatchingProofs` | `ArrivalsCorrect`, `EventsCorrect`, `FirstTokenTimesStand`, `BatchingKeepsBooks`, `BatchingImplementsRequestLifecycle`, `BatchingTypeCorrect` | for all arrivals and durations: who is seen when, what the timestamps are, and that the hook which finishes requests outside a step upsets neither the books nor the lifecycle |
| `ExecutionProofs` | `TokensCorrect`, `SequencesCorrect`, `BuildsCorrect`, `BackendsImplementRequestLifecycle`, `BackendsTypeCorrect` | a backend may raise at any call: tokens are counted once, the planned sequences are run, and the lifecycle is kept |
| | `AttentionCorrect` | for all numbers of queries and keys, masks and tile sizes, in both loop orders, tiles merge into the softmax of the row |
| `ChatServiceProofs` | `CountersCorrect`, `ScrapesCorrect`, `SummaryCorrect`, `LoadCorrect` | counters, scrapes, summary and load of the service |
| `ScriptsProofs` | `TokensCorrect`, `ErrorsCorrect`, `RecordsCorrect`, `DirectoriesCorrect`, `ComparisonsCorrect` (and the invariants `CaseCorrect`, `BenchmarksCorrect`, `BenchmarksTypeCorrect`) | what a case records, what directories hold, what is compared |
| | `ServersCorrect`, `ProfilesCorrect`, `AnalysisCorrect`, `SessionCorrect`, `OneLateRowCorrect` | servers, traces, reports, session entries and sampler rows |

All follow one line: a property is seldom inductive alone, a stronger invariant is, and a
lemma per action shows that it is kept.

* *Block accounting* (`IInv` of `KVCacheProofs`).  That a release returns the right blocks
  to the free list needs tables without repetition, which needs that fresh blocks are
  free and that the blocks of an entry are distinct, which needs the form of every cache
  entry.  `IInv` is the conjunction of types, exact free list, exact reference counts,
  injective tables and well-formed entries (`EntriesWellFormed`); the counting is reduced to
  adding or removing one element of a finite set of holders, and the refinement is a second
  lemma per action from the same invariant.
* *Block contents* (`Soundness`, `Fullness`).  On top of `IInv`: a table covers its prompt,
  an entry that has not lapsed names allocated blocks that hold its very prefix, and so
  does the table of every live request.  An allocation is the hard case: its table is the
  entry's blocks followed by fresh ones, and the keys it files are longer prefixes of the
  same prompt.  That decode writes into nobody else's block needs that a block which ends
  at a boundary of its prefix is full, and a shared one is such a block.
* *The step* (`IInv` of `SchedulerProofs`).  Types, queues, counts, the progress of each
  request, and two facts about the step in progress: who is scheduled is running, once,
  with a positive grant within the remaining prompt, and who was sampled has reached the end
  of its prompt.  Removing one element of a sequence without repetition keeps the others,
  each once; that is the first part of `CollectionLemmas`.
* *Sums*.  The memory on the policy's books, the demand on the pool and the tokens emitted
  are sums over finite sets, which the community module defines by a recursion that picks
  an element at a time.  `CollectionLemmas` proves that the function this recursion asks
  for exists and is the only one, and from it what adding, removing or changing one term
  does.  No induction theorem is needed: each lemma looks at a smallest subset for which it
  fails, which exists in a finite set (`MinimalSubset`), and takes one element out.
* *Service* (`OrderOK`, `ChunksOK`, `WholeOK`, `RunnerOK` of `SchedulerProofs`).  The
  scheduled requests are a part of the running queue up to the cursor that begins with its
  head; chunk progress is kept for whoever runs; a finished request the runner still holds
  is named in a notice on its way.  A step that raises loses that notice, so
  `RunnerCurrent` supposes `PromptsFit`: prompts come in chunks, or none is larger than the
  budget.
* *The engine* (`EInv` of `EngineCoreProofs`).  `SP` and `KP` are the proof modules of the
  components, instantiated as `EngineCore` instantiates the components; each action of the
  engine is shown to be an action of both, or of one while the other stands still, so
  their invariants need no second proof.  Three conjuncts join them.  `HoldersRun`: the
  requests with live tables are the running ones, with their prompts.  `OwnOK`: a token is
  appended only during the update that samples it.  `SlotsOK`: the slots of a table are the
  tokens due, or fewer if one was dropped.  From these, `CallbacksAsAssumed`: with nothing
  running no block is held, so the free list is the pool and no entry is valid.  And
  `FailuresMeanOverload`: the blocks in use are a union of tables, which has no more
  members than the sum of what the holders may come to need (`CoverBound`, `PoolBound`).
* *Backends* (`BInv` of `ExecutionProofs`).  Two steps are none of `Scheduler`: an
  exception out of a call, and the end of an execution without a request cache.  Its
  invariant is shown to survive both.  To it come `WholeOK` (prompts are granted whole, so
  the length an executor takes from the request is the one the scheduler plans), that
  nothing is sampled except during the update, and that what is loaded does not change
  while a batch runs.  `TokensReported` then moves one token from the set of those sampled to
  the sum of those emitted.
* *Batching* (`BInv` of `ContinuousBatchingProofs`).  The invariant of `SchedulerProofs` is kept
  by the one step the runner adds, finishing a running request between two steps of the
  engine (`FreedIInv`).  `ArrivalsOK`: the pending requests are absent for the scheduler, the
  others have arrived, and the pending ones are sorted.  The clock may be set
  back, to the arrival of the head of the pending list; that whoever the scheduler knows
  has arrived survives this because he arrived no later than everybody pending, which
  is therefore a part of the invariant.
  `StampsOK` follows a request through a step: with the kept status it says which of its
  timestamps is unset, the wall clock's or the runner's until the step ends.
* *Attention* (`TilesInv` of `ExecutionProofs`).  Between two tiles each row holds the
  softmax of the keys it has covered, and which these are follows from the two loop
  counters (`Coverage`: one tile adds its block to its rows and to no other, also where a loop
  wraps).  The step is `MergeRow`: bringing sum and output from one maximum to a larger one
  is exact, term by term and in the sum (`Rescaling`), and the exponentials of disjoint
  sets of keys add up (`ExpToUnion`).  A row is `nan` from its first wholly masked tile on.
* *Counters*.  Each counter is the size of a set of requests in certain control states;
  a scrape in progress has read its first counter before the second, and the one
  only grows past the other.
* *Benchmarks* (`BenchmarksInv`).  A row's tokens are the calls of the model before its end;
  the files written so far are of the current run, in order; what a comparison has read
  of a clean directory, nobody touched since, is of one run.
* *Profiling* (`TracesFiled`, `SessionWritten`, `SamplersStop`).  A server that is alive is
  of the attempt in progress, or was let go of, which is inductive as it stands; while none
  was let go of, whoever answers is the attempt's own server, so every trace pairs the two;
  a profile whose end is in the metadata has its trace; session entries carry numbers that
  the metadata has reached; a sampler that was told to stop is at most in its last round.

## What is only model-checked

* Liveness: `EveryRequestFinishes`, `RunServesAll`, `CaseEnds`, `ScriptEnds`.  The provers
  handle neither `ENABLED` nor fairness.
* The violations of the next section: a counterexample is an instance.

## Disagreements between code and documentation

Two runs show the code doing something else than its documentation says:

* A prefix entry whose block was freed and handed out again passes the validity
  check of `find_longest_prefix`: the new request shares blocks with another prompt's
  KV state (`kv_stale_prefix`).  The properties that mention `misled` say how far the
  consequences reach.
* A cached prefix can be reused before it is computed (`engine_reused_prefix`).

More was met while modelling; the models do what the code does, and no run is spent on it:

* Scheduler and engine.  The `ValueError` of `_select_scheduled_requests` loses the ids of
  requests that finished in the step before, so the runner keeps their entries (this is
  why `RunnerCurrent` supposes `PromptsFit`).  A token for which the pool has no slot is
  emitted and counted all the same (`dropped` in `EngineCore`).  `cache_prefix` also files the
  unaligned end of a prompt, which no lookup can find.  `PriorityPolicy` limits
  classes but does not admit urgent requests first.
* Batching.  The fast-forward sets the clock to the next arrival even when that lies in
  the past, so the simulated time can go back; `ArrivalsCorrect` shows that nobody is served
  too early for all that.  The statuses kept before a step are those of running and waiting
  requests only, so a request that finished earlier seems to finish again: its
  `finish_time` becomes that of the last step.  Static batches reuse the same request ids.
  The percentile of a single sample weighs it with zero.
* Kernels.  A row with a wholly masked tile becomes `nan` in `FlashAttentionCPU` where
  `StandardAttention` gives a result (stated in `MatchesStandard`); nothing in the repository
  passes a mask.
* Backends.  When a model cannot be loaded the executor simulates and goes on under
  the name of the backend.  What the verification functions of `export_onnx.py` and
  `build_trt_engine.py` find is not looked at.
* Service.  Streams are never counted as inferences, although the metric's help says
  "Total inference requests completed at the application layer".  `run_stream_once` takes the text of an error for output.
* Scripts.  `generate_batch` leaves records that are `ok` and carry an error, and, after an
  exception without text, failed ones that carry none.  Metadata written after Ctrl-C
  carries no error.  Ctrl-C while the script cleans up leaves a server that is alive
  running, with the port, and its attempt without metadata.

## What is not modelled

* `StaticBatchingRunner`: a sequential loop that runs an engine to completion per batch,
  with the actions of `EngineCore`; what it adds is arithmetic on timelines.
* Statistics, percentiles, the `Batch` summary, the GPU monitor, plots and reports: they
  decide nothing and are read back by nothing; they are functions of the records whose
  counting is modelled.
* `executor.py` and the `update_*` methods of the executors, `BlockAllocator.allocate_many`
  and `PrefixCache.invalidate`: the engine never calls them.
* `benchmarks/streaming.py`, `runner.py` and `collector.py`: the first is the pool of
  `run_case` again, against vLLM itself; the others call the stages in sequence.
* Experiments (written against an interface the engine no longer has),
  `attention_kernel_probe.py` and `main.py`: sequential drivers without state.
* Rounding: `exp` is a power of a whole number, so that sums and products are exact.
* Errors of the disk other than a script killed while it writes and, in the profiling
  script, a file that cannot be written beside a snapshot.
* Deployment and monitoring data, which contain no program logic.
