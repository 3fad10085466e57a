-------------------------- MODULE ContinuousBatching --------------------------
(***************************************************************************)
(* ContinuousBatchingRunner: it holds requests back until their arrival on *)
(* a simulated clock, drives the engine step by step and replaces the      *)
(* wall-clock timestamps of the scheduler by simulated ones.  The engine   *)
(* is Scheduler, with its step in progress as the runner's phase "step".   *)
(*                                                                         *)
(* add_request puts the request into the engine's waiting queue and takes  *)
(* it out again, so nobody sees it before the runner injects it: in        *)
(* Scheduler's terms it is absent until then.                              *)
(***************************************************************************)
EXTENDS Integers, Sequences, FiniteSets, Functions

CONSTANTS
    (* The requests and the configuration of the scheduler. *)
    Requests, PromptLength, MaxNewTokens, Priority, MaxNumScheduledTokens,
    ChunkedPrefill, PrefillChunkSize, MemoryBudget, MaxNumSeqs, MaxPerPriority,
    BlockSize,
    Arrival,         \* arrival_times
    StepDurations,   \* what run_step may measure as step_duration
    MaxSteps,        \* max_steps of run
    Unset,           \* a timestamp that is None
    WallClock        \* a timestamp taken from time.time()

ASSUME RequestsAssumption == IsFiniteSet(Requests)
ASSUME ShapesAssumption ==
    /\ PromptLength \in [Requests -> Nat]
    /\ MaxNewTokens \in [Requests -> Nat]
    /\ Priority \in [Requests -> Int]
ASSUME SchedulerAssumption ==
    /\ MaxNumScheduledTokens \in Nat \ {0} /\ BlockSize \in Nat \ {0}
    /\ ChunkedPrefill \in BOOLEAN /\ PrefillChunkSize \in Nat \ {0}
    /\ MemoryBudget \in Nat /\ MaxNumSeqs \in Nat /\ MaxPerPriority \in Nat
ASSUME ArrivalAssumption == Arrival \in [Requests -> Nat]
ASSUME DurationsAssumption == StepDurations \subseteq Nat
ASSUME MaxStepsAssumption == MaxSteps \in Nat
ASSUME TimestampAssumption == {Unset, WallClock} \cap Nat = {} /\ Unset # WallClock

VARIABLES
    (* Scheduler *)
    waiting, running, finished, status, cached, computed, generated, sent,
    finished_since, current_memory, total_running, priority_counts, tracked,
    processed, runner_cache, pc, skipped, cursor, budget, scheduled, tokens,
    finished_ids, sampled,
    (* The runner. *)
    phase,           \* "adding", then where run is
    pending,         \* _pending_requests from pending_idx on
    sim_time,
    step_count,      \* InferenceEngine._step_count
    prev_status,     \* the statuses before the step, "absent" for ids not in it
    (* Request *)
    prefill_finish,  \* prefill_finish_time
    finish_time

S == INSTANCE Scheduler

engine == <<waiting, running, finished, status, cached, computed, generated, sent,
            finished_since, current_memory, total_running, priority_counts, tracked,
            processed, runner_cache, pc, skipped, cursor, budget, scheduled, tokens,
            finished_ids, sampled>>
stamps == <<prefill_finish, finish_time>>
own == <<phase, pending, sim_time, step_count, prev_status, stamps>>
vars == <<engine, own>>

Phases == {"adding", "loop", "inject", "step", "free", "raised"}

-----------------------------------------------------------------------------
(* list.sort by arrival time, which is stable: those that arrive together    *)
(* stay in the order of the calls.                                           *)
Before(s, q, r) == \E i, j \in DOMAIN s : i < j /\ s[i] = q /\ s[j] = r
FaultyIsByArrival(sorted, s) == sorted = s   \* left in the order of the calls
IsByArrival(sorted, s) ==
    /\ IsInjective(sorted)
    /\ \A i, j \in DOMAIN sorted :
           i < j => \/ Arrival[sorted[i]] < Arrival[sorted[j]]
                    \/ /\ Arrival[sorted[i]] = Arrival[sorted[j]]
                       /\ Before(s, sorted[i], sorted[j])

(* Stamped by the runner, on the simulated clock. *)
Simulated(t) == t \notin {Unset, WallClock}

Init ==
    /\ S!Init
    /\ phase = "adding"
    /\ pending = <<>>
    /\ sim_time = 0
    /\ step_count = 0
    /\ prev_status = [r \in Requests |-> "absent"]
    /\ prefill_finish = [r \in Requests |-> Unset]
    /\ finish_time = [r \in Requests |-> Unset]

(* add_request *)
AddPending(r) ==
    /\ phase = "adding"
    /\ r \notin Range(pending)
    /\ pending' = Append(pending, r)
    /\ UNCHANGED <<engine, phase, sim_time, step_count, prev_status, stamps>>

(* run *)
StartRun ==
    /\ phase = "adding"
    /\ phase' = "loop"
    /\ pending' \in [DOMAIN pending -> Range(pending)]
    /\ IsByArrival(pending', pending)
    /\ UNCHANGED <<engine, sim_time, step_count, prev_status, stamps>>

Work == (pending # <<>> \/ ~S!IsDone) /\ step_count < MaxSteps

(* "Fast-forward to the next arrival if the GPU is idle." *)
FaultyTimeOfIteration == sim_time   \* no fast-forward
TimeOfIteration ==
    IF S!IsDone /\ pending # <<>> THEN Arrival[Head(pending)] ELSE sim_time

BeginIteration ==
    /\ phase = "loop"
    /\ Work
    /\ phase' = "inject"
    /\ sim_time' = TimeOfIteration
    /\ UNCHANGED <<engine, pending, step_count, prev_status, stamps>>

Arrived == pending # <<>> /\ Arrival[Head(pending)] <= sim_time

Inject(r) ==
    /\ phase = "inject"
    /\ Arrived /\ r = Head(pending)
    /\ S!AddRequest(r)
    /\ pending' = Tail(pending)
    /\ UNCHANGED <<phase, sim_time, step_count, prev_status, stamps>>

(* The statuses of the running and the waiting requests are kept, and the   *)
(* engine begins its step.                                                   *)
FaultySnapshot ==   \* requests admitted and served in one step are missed
    [r \in Requests |-> IF r \in Range(running) THEN status[r] ELSE "absent"]
Snapshot ==
    [r \in Requests |-> IF r \in Range(running \o waiting) THEN status[r] ELSE "absent"]

BeginStep ==
    /\ phase = "inject"
    /\ ~Arrived
    /\ S!BeginStep
    /\ phase' = "step"
    /\ step_count' = step_count + 1
    /\ prev_status' = Snapshot
    /\ UNCHANGED <<pending, sim_time, stamps>>

(* The scheduler stamps a first token and a finished request with time.time(). *)
StampFirstToken(r) ==
    prefill_finish' = IF r \in sampled /\ prefill_finish[r] = Unset
                      THEN [prefill_finish EXCEPT ![r] = WallClock]
                      ELSE prefill_finish
StampFinish(r) == finish_time' = [finish_time EXCEPT ![r] = WallClock]

UpdateUnfinished(r) ==
    /\ S!UpdateUnfinished(r)
    /\ StampFirstToken(r)
    /\ UNCHANGED <<phase, pending, sim_time, step_count, prev_status, finish_time>>

UpdateFinished(r) ==
    /\ S!UpdateFinished(r)
    /\ StampFirstToken(r)
    /\ StampFinish(r)
    /\ UNCHANGED <<phase, pending, sim_time, step_count, prev_status>>

(* The ValueError of schedule leaves run as well. *)
StepRaises(r) ==
    /\ S!SelectRaises(r)
    /\ phase' = "raised"
    /\ UNCHANGED <<pending, sim_time, step_count, prev_status, stamps>>

RestOfStep ==
    /\ \/ \E r \in Requests : \E l \in 0 .. PromptLength[r] : S!AdmitRequest(r, l)
       \/ \E r \in Requests : S!SkipRequest(r) \/ S!SelectRequest(r) \/ S!PassOver(r)
       \/ S!EndAdmission
       \/ S!EndSelection
       \/ S!ExecuteModel
    /\ UNCHANGED own

(* run_step returns d as the duration of the step, and the events of the step *)
(* are stamped with its end on the simulated clock.                           *)
FaultyGotFirstToken(r) == status[r] \in {"decode", "finished"}   \* whatever it was before
GotFirstToken(r) ==
    prev_status[r] \in {"waiting", "prefill"} /\ status[r] \in {"decode", "finished"}
GotFinished(r) == prev_status[r] # "finished" /\ status[r] = "finished"

EndStep(d) ==
    /\ S!EndUpdate
    /\ phase' = "free"
    /\ sim_time' = sim_time + d
    /\ LET listed == Range(running \o finished)
       IN /\ prefill_finish' = [r \in Requests |->
                 IF r \in listed /\ GotFirstToken(r) THEN sim_time' ELSE prefill_finish[r]]
          /\ finish_time' = [r \in Requests |->
                 IF r \in listed /\ GotFinished(r) THEN sim_time' ELSE finish_time[r]]
    /\ UNCHANGED <<pending, step_count, prev_status>>

(* _free_finished_requests: a running request that wants no tokens and that    *)
(* the step passed over is finished without one.                               *)
ToFree == {r \in Range(running) : S!IsFinishedWith(r, generated[r])}

FreeFinished(r) ==
    /\ phase = "free"
    /\ r \in ToFree
    /\ S!FinishRequest(r)
    /\ StampFinish(r)
    /\ UNCHANGED <<waiting, cached, computed, generated, sent, runner_cache, pc, skipped,
                   cursor, budget, scheduled, tokens, finished_ids, sampled, phase,
                   pending, sim_time, step_count, prev_status, prefill_finish>>

EndIteration ==
    /\ phase = "free"
    /\ ToFree = {}
    /\ phase' = "loop"
    /\ UNCHANGED <<engine, pending, sim_time, step_count, prev_status, stamps>>

Next ==
    \/ \E r \in Requests : AddPending(r)
    \/ StartRun
    \/ BeginIteration
    \/ \E r \in Requests : Inject(r)
    \/ BeginStep
    \/ RestOfStep
    \/ \E r \in Requests : UpdateUnfinished(r) \/ UpdateFinished(r) \/ StepRaises(r)
    \/ \E d \in StepDurations : EndStep(d)
    \/ \E r \in Requests : FreeFinished(r)
    \/ EndIteration

(* A run that was started goes on: nothing in it waits for anybody. *)
Spec == Init /\ [][Next]_vars /\ WF_vars(phase # "adding" /\ Next)

-----------------------------------------------------------------------------
(* Type correctness of what the runner adds to the engine. *)
TypeOK ==
    /\ S!TypeOK
    /\ phase \in Phases /\ (phase = "step" <=> pc # "idle")
    /\ pending \in Seq(Requests) /\ IsInjective(pending)
    /\ sim_time \in Nat
    /\ step_count \in 0 .. MaxSteps
    /\ prev_status \in [Requests -> {"absent", "waiting", "prefill", "decode"}]
    /\ prefill_finish \in [Requests -> Nat \cup {Unset, WallClock}]
    /\ finish_time \in [Requests -> Nat \cup {Unset, WallClock}]

(* run: a step sees exactly the requests that have arrived when it begins.    *)
(* Nobody is served before its arrival, and sorting, fast-forward and         *)
(* injection together leave no arrived request out.                           *)
ArrivalsRespected ==
    phase = "step" =>
        /\ \A r \in Requests : status[r] # "absent" => Arrival[r] <= sim_time
        /\ \A r \in Range(pending) : Arrival[r] > sim_time

(* "Override wall-clock timestamps set by the Scheduler": between two steps   *)
(* every request with a first token, and every finished one, carries          *)
(* simulated timestamps, none before its arrival, so that no latency mixes    *)
(* two clocks or is negative.  A request for no tokens is left out: when a    *)
(* step passes it over, the hook after the stamping finishes it.              *)
EventsStamped ==
    phase = "loop" =>
        \A r \in {q \in Requests : MaxNewTokens[q] > 0} :
            /\ status[r] \in {"decode", "finished"} =>
                   Simulated(prefill_finish[r]) /\ prefill_finish[r] >= Arrival[r]
            /\ status[r] = "finished" =>
                   Simulated(finish_time[r]) /\ finish_time[r] >= Arrival[r]
            /\ status[r] \in {"absent", "waiting", "prefill"} =>
                   prefill_finish[r] = Unset /\ finish_time[r] = Unset

(* The time to first token that the results report is that of the step the    *)
(* token came from: once stamped it stands, whatever is scheduled later.      *)
FirstTokenTimeStands ==
    [][\A r \in Requests :
           Simulated(prefill_finish[r]) => prefill_finish'[r] = prefill_finish[r]]_vars

(* run: "Run continuous batching until all requests finish."  It ends before  *)
(* the step limit with nothing left, unless a step raises.                    *)
RunServesAll ==
    phase = "loop" ~> \/ phase = "raised"
                      \/ phase = "loop" /\ pending = <<>> /\ S!IsDone

-----------------------------------------------------------------------------
(* Refinement: seen through the runner the life of a request is the same.  It *)
(* comes into being when it arrives, and one that wants no token may end in   *)
(* the hook of the runner instead of in a step.                               *)
RefinesRequestLifecycle == S!RefinesRequestLifecycle

=============================================================================
