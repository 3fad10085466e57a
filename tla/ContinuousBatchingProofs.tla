----------------------- MODULE ContinuousBatchingProofs -----------------------
(***************************************************************************)
(* Proofs about ContinuousBatching for every set of requests, every order  *)
(* of their arrivals, every duration of a step and every configuration of  *)
(* the scheduler: requests are seen when they have arrived, and events     *)
(* carry times of the simulated clock.                                     *)
(***************************************************************************)
EXTENDS ContinuousBatching, CollectionLemmas

SP == INSTANCE SchedulerProofs

LEMMA SchedulerAssumptions ==
    /\ SP!IsFiniteSet(Requests)
    /\ PromptLength \in [Requests -> Nat] /\ MaxNewTokens \in [Requests -> Nat]
    /\ Priority \in [Requests -> Int]
    /\ MaxNumScheduledTokens \in Nat \ {0}
    /\ ChunkedPrefill \in BOOLEAN /\ PrefillChunkSize \in Nat \ {0}
    /\ MemoryBudget \in Nat /\ MaxNumSeqs \in Nat /\ MaxPerPriority \in Nat
    /\ BlockSize \in Nat \ {0}
<1>1. SP!IsFiniteSet(Requests)
  BY RequestsAssumption DEF IsFiniteSet, SP!IsFiniteSet
<1> QED BY <1>1, ShapesAssumption, SchedulerAssumption

(* The scheduler as ContinuousBatching instantiates it, and as its proofs do. *)
LEMMA SameScheduler ==
    /\ S!Init <=> SP!Init
    /\ S!Next <=> SP!Next
    /\ S!vars = SP!vars /\ S!vars' = SP!vars'
    /\ S!TypeOK <=> SP!TypeOK
    /\ \A r \in Requests : /\ S!Updating(r) <=> SP!Updating(r)
                           /\ S!FinishRequest(r) <=> SP!FinishRequest(r)
                           /\ \A n : S!IsFinishedWith(r, n) <=> SP!IsFinishedWith(r, n)
BY
   DEF S!queues, SP!queues, S!requests, SP!requests, S!policy, SP!policy, S!helper,
       SP!helper, S!output, SP!output, S!vars, SP!vars, S!Priorities, SP!Priorities,
       S!Steps, SP!Steps, S!Smaller, SP!Smaller, S!Larger, SP!Larger,
       S!EstimatedKvSize, SP!EstimatedKvSize, S!RemainingPrefill, SP!RemainingPrefill,
       S!IsFinishedWith, SP!IsFinishedWith, S!CachedLengths, SP!CachedLengths,
       S!CanAdmit, SP!CanAdmit, S!Prefilling, SP!Prefilling, S!DesiredTokens,
       SP!DesiredTokens, S!Whole, SP!Whole, S!TooLarge, SP!TooLarge, S!MustWait,
       SP!MustWait, S!Grant, SP!Grant, S!BudgetAfter, SP!BudgetAfter,
       S!ReachesSamplingPoint, SP!ReachesSamplingPoint, S!PrefillComputed,
       SP!PrefillComputed, S!RemoveAt, SP!RemoveAt, S!IndexOf, SP!IndexOf, S!Without,
       SP!Without, S!Idle, SP!Idle, S!StepEnds, SP!StepEnds, S!Init, SP!Init,
       S!AddRequest, SP!AddRequest, S!BeginStep, SP!BeginStep, S!AdmitRequest,
       SP!AdmitRequest, S!SkipRequest, SP!SkipRequest, S!BackToWaiting,
       SP!BackToWaiting, S!EndAdmission, SP!EndAdmission, S!Selecting, SP!Selecting,
       S!SelectRequest, SP!SelectRequest, S!PassOver, SP!PassOver, S!SelectRaises,
       SP!SelectRaises, S!EndSelection, SP!EndSelection, S!RunnerCacheAfterStep,
       SP!RunnerCacheAfterStep, S!ExecuteModel, SP!ExecuteModel, S!TotalPrefill,
       SP!TotalPrefill, S!ProcessedAfter, SP!ProcessedAfter, S!GeneratedAfter,
       SP!GeneratedAfter, S!Updating, SP!Updating, S!UpdateUnfinished,
       SP!UpdateUnfinished, S!MemoryAfter, SP!MemoryAfter, S!FinishRequest,
       SP!FinishRequest, S!UpdateFinished, SP!UpdateFinished, S!EndUpdate,
       SP!EndUpdate, S!Reset, SP!Reset, S!Advance, SP!Advance, S!Next, SP!Next,
       S!TypeOK, SP!TypeOK, S!Running, SP!Running, SP!Range, S!Range, Range

LEMMA Ranges == \A s : Range(s) = SP!Range(s)
BY DEF Range, SP!Range

-----------------------------------------------------------------------------
(* The inductive invariant.                                                   *)

(* The requests arrive in the order of pending, and none of them has been     *)
(* seen.  Those that were seen arrived before all of them, so that setting    *)
(* the clock to the next arrival, even back to it, forgets no arrival.        *)
Early == {"absent", "waiting", "prefill"}

ArrivalsOK ==
    /\ phase = "adding" => \A r \in Requests : status[r] = "absent"
    /\ phase = "inject" => step_count < MaxSteps
    /\ phase # "adding" =>
           \A i, j \in 1 .. Len(pending) :
               i < j => Arrival[pending[i]] <= Arrival[pending[j]]
    /\ \A q \in Range(pending) : status[q] = "absent"
    /\ \A r \in Requests : status[r] # "absent" =>
           /\ Arrival[r] <= sim_time
           /\ \A q \in Range(pending) : Arrival[r] <= Arrival[q]
    /\ phase = "step" => \A q \in Range(pending) : Arrival[q] > sim_time

(* A request without a first token has no stamps, and one that got it in this *)
(* step has that of the wall clock, if any; the others carry their stamps.    *)
FirstTokenStamped(r) == Simulated(prefill_finish[r]) /\ prefill_finish[r] >= Arrival[r]
FinishStamped(r) == Simulated(finish_time[r]) /\ finish_time[r] >= Arrival[r]

Unstamped(r) ==
    /\ status[r] \in Early => prefill_finish[r] = Unset
    /\ status[r] # "finished" => finish_time[r] = Unset
    /\ phase = "step" /\ prev_status[r] \in {"waiting", "prefill"} =>
           ~Simulated(prefill_finish[r])

Stamped(r) ==
    /\ phase \notin {"step", "raised"} =>
           /\ status[r] \in {"decode", "finished"} => FirstTokenStamped(r)
           /\ status[r] = "finished" => FinishStamped(r)
    /\ phase = "step" =>
           /\ status[r] \in {"waiting", "prefill"} => prev_status[r] \in {"waiting", "prefill"}
           /\ status[r] \in {"decode", "finished"} =>
                  prev_status[r] \in {"waiting", "prefill"} \/ FirstTokenStamped(r)

StampsOK ==
    /\ \A r \in Requests : Unstamped(r)
    /\ \A r \in Requests : MaxNewTokens[r] > 0 => Stamped(r)

BInv ==
    /\ SP!IInv
    /\ TypeOK
    /\ ArrivalsOK
    /\ StampsOK
-----------------------------------------------------------------------------
(* The scheduler's part: every step is one of the scheduler's, leaves it      *)
(* alone, or frees a running request that wants no more tokens.               *)
Aside ==
    \/ UNCHANGED vars
    \/ \E r \in Requests : AddPending(r)
    \/ StartRun \/ BeginIteration \/ EndIteration

EngineStep ==
    \/ \E r \in Requests : Inject(r)
    \/ BeginStep
    \/ RestOfStep
    \/ \E r \in Requests : UpdateUnfinished(r) \/ UpdateFinished(r) \/ StepRaises(r)
    \/ \E d \in StepDurations : EndStep(d)

LEMMA StepKinds ==
    ASSUME [Next]_vars
    PROVE  Aside \/ EngineStep \/ \E r \in Requests : FreeFinished(r)
BY DEF Next, Aside, EngineStep

LEMMA AsideStands ==
    ASSUME Aside
    PROVE  UNCHANGED engine /\ UNCHANGED S!vars
BY DEF Aside, vars, AddPending, StartRun, BeginIteration, EndIteration, engine, S!vars

LEMMA StepsOfScheduler ==
    ASSUME EngineStep
    PROVE  S!Next
<1>1. ASSUME NEW r \in Requests, Inject(r) PROVE S!Next
  BY <1>1 DEF Inject, S!Next
<1>2. CASE BeginStep
  BY <1>2 DEF BeginStep, S!Next
<1>3. CASE RestOfStep
  <2>1. S!Advance
    BY <1>3 DEF RestOfStep, S!Advance
  <2> QED BY <2>1 DEF S!Next
<1>4. ASSUME NEW r \in Requests, UpdateUnfinished(r) \/ UpdateFinished(r) \/ StepRaises(r)
      PROVE  S!Next
  <2>1. S!Advance
    BY <1>4 DEF UpdateUnfinished, UpdateFinished, StepRaises, S!Advance
  <2> QED BY <2>1 DEF S!Next
<1>5. ASSUME NEW d \in StepDurations, EndStep(d) PROVE S!Next
  <2>1. S!Advance
    BY <1>5 DEF EndStep, S!Advance
  <2> QED BY <2>1 DEF S!Next
<1> QED BY <1>1, <1>2, <1>3, <1>4, <1>5 DEF EngineStep

(* What the invariant says of the queues and of where a step is. *)
LEMMA Books ==
    ASSUME SP!IInv
    PROVE  /\ S!TypeOK
           /\ \A r \in Requests : r \in Range(skipped \o waiting) <=> status[r] = "waiting"
           /\ \A r \in Requests : r \in Range(running) <=> status[r] \in {"prefill", "decode"}
           /\ \A r \in Requests : r \in Range(finished) <=> status[r] = "finished"
           /\ pc # "admitting" => skipped = <<>>
           /\ waiting # <<>> => Head(waiting) \in Requests /\ status[Head(waiting)] = "waiting"
<1>1. SP!TypeOK /\ SP!QueuesMatchStatus /\ SP!LocalsOK
  BY DEF SP!IInv
<1>2. /\ \A r \in Requests : r \in SP!Range(skipped \o waiting) <=> status[r] = "waiting"
      /\ \A r \in Requests : r \in SP!Range(running) <=> status[r] \in {"prefill", "decode"}
      /\ \A r \in Requests : r \in SP!Range(finished) <=> status[r] = "finished"
  BY <1>1 DEF SP!QueuesMatchStatus, SP!Waiting, SP!Running, SP!Finished
<1>3. waiting # <<>> => Head(waiting) \in Requests /\ status[Head(waiting)] = "waiting"
  BY <1>1, SP!HeadOfWaiting, SchedulerAssumptions
<1> QED BY <1>1, <1>2, <1>3, Ranges, SameScheduler DEF SP!LocalsOK

LEMMA FreedSteps ==
    ASSUME SP!IInv, TypeOK, NEW r \in Requests, FreeFinished(r)
    PROVE  SP!Freed(r) /\ SP!IsFinishedWith(r, generated[r])
<1>1. /\ phase = "free" /\ pc = "idle"
      /\ r \in Range(running) /\ S!IsFinishedWith(r, generated[r]) /\ S!FinishRequest(r)
      /\ UNCHANGED <<waiting, cached, computed, generated, sent, runner_cache, pc, skipped,
                     cursor, budget, scheduled, tokens, finished_ids, sampled>>
  BY DEF FreeFinished, ToFree, TypeOK
<1>2. r \in SP!Running
  BY <1>1, Books DEF SP!Running
<1> QED BY <1>1, <1>2, SameScheduler DEF SP!Freed

LEMMA StepScheduler == SP!IInv /\ TypeOK /\ [Next]_vars => SP!IInv'
<1> SUFFICES ASSUME SP!IInv, TypeOK, [Next]_vars
             PROVE  SP!IInv'
  OBVIOUS
<1>1. CASE Aside \/ EngineStep
  <2>1. [SP!Next]_(SP!vars)
    BY <1>1, AsideStands, StepsOfScheduler, SameScheduler
  <2> QED BY <2>1, SP!StepIInv, SchedulerAssumptions
<1>2. ASSUME NEW r \in Requests, FreeFinished(r) PROVE SP!IInv'
  BY <1>2, FreedSteps, SP!FreedIInv, SchedulerAssumptions
<1> QED BY <1>1, <1>2, StepKinds

-----------------------------------------------------------------------------
(* How the statuses move, action by action: what the rest of the proof needs *)
(* to know of the scheduler.                                                 *)

Same(q) == status'[q] = status[q]
MayAdmit(q) == Same(q) \/ (status[q] = "waiting" /\ status'[q] = "prefill")

LEMMA InjectMoves ==
    ASSUME TypeOK, NEW r \in Requests, Inject(r)
    PROVE  /\ phase = "inject" /\ phase' = "inject" /\ pc' = pc
           /\ status[r] = "absent" /\ status' = [status EXCEPT ![r] = "waiting"]
           /\ pending # <<>> /\ r = Head(pending) /\ pending' = Tail(pending)
           /\ Arrival[r] <= sim_time
           /\ UNCHANGED <<sim_time, step_count, prev_status, prefill_finish, finish_time>>
BY DEF Inject, Arrived, S!AddRequest, stamps

LEMMA RestMoves ==
    ASSUME SP!IInv, TypeOK, RestOfStep
    PROVE  /\ phase = "step" /\ pc' # "idle" /\ UNCHANGED own
           /\ \A q \in Requests : MayAdmit(q)
<1>1. ASSUME NEW r \in Requests, NEW l \in 0 .. PromptLength[r], S!AdmitRequest(r, l)
      PROVE  /\ pc # "idle" /\ pc' # "idle"
             /\ \A q \in Requests : MayAdmit(q)
  <2>1. /\ pc = "admitting" /\ pc' = pc /\ waiting # <<>> /\ r = Head(waiting)
        /\ status' = [status EXCEPT ![r] = "prefill"]
    BY <1>1 DEF S!AdmitRequest
  <2>2. status[r] = "waiting"
    BY <2>1, Books
  <2> QED BY <2>1, <2>2 DEF TypeOK, S!TypeOK, Same, MayAdmit
<1>2. ASSUME NEW r \in Requests,
             S!SkipRequest(r) \/ S!SelectRequest(r) \/ S!PassOver(r)
      PROVE  pc # "idle" /\ pc' # "idle" /\ status' = status
  BY <1>2 DEF S!SkipRequest, S!SelectRequest, S!PassOver, S!Selecting, S!requests
<1>3. ASSUME S!EndAdmission \/ S!EndSelection \/ S!ExecuteModel
      PROVE  pc # "idle" /\ pc' # "idle" /\ status' = status
  BY <1>3 DEF S!EndAdmission, S!EndSelection, S!ExecuteModel, S!requests
<1> QED BY <1>1, <1>2, <1>3 DEF RestOfStep, TypeOK, Same, MayAdmit

(* A request that wants tokens leaves the prefill with a sampled one only.    *)
LEMMA UpdateMoves ==
    ASSUME SP!IInv, TypeOK, NEW r \in Requests, UpdateUnfinished(r) \/ UpdateFinished(r)
    PROVE  /\ phase = "step" /\ phase' = "step" /\ pc' # "idle"
           /\ UNCHANGED <<pending, sim_time, step_count, prev_status>>
           /\ StampFirstToken(r)
           /\ status[r] \in {"prefill", "decode"}
           /\ \A q \in Requests : q # r => Same(q)
           /\ \/ /\ status'[r] = (IF r \in sampled THEN "decode" ELSE status[r])
                 /\ finish_time' = finish_time
              \/ /\ status'[r] = "finished" /\ StampFinish(r)
                 /\ MaxNewTokens[r] > 0 => r \in sampled \/ status[r] = "decode"
<1>0. S!TypeOK /\ SP!ComputedMatchesGenerated
  BY DEF TypeOK, SP!IInv
<1>1. /\ S!Updating(r) /\ StampFirstToken(r) /\ pc = "updating" /\ pc' = pc
      /\ UNCHANGED <<phase, pending, sim_time, step_count, prev_status>>
  BY DEF UpdateUnfinished, UpdateFinished, S!UpdateUnfinished, S!UpdateFinished, S!Updating
<1>2. status[r] \in {"prefill", "decode"}
  BY <1>1, SameScheduler, SP!UpdateFacts, SchedulerAssumptions
<1>3. CASE UpdateUnfinished(r)
  <2>1. /\ status' = IF r \in sampled THEN [status EXCEPT ![r] = "decode"] ELSE status
        /\ finish_time' = finish_time
    BY <1>3 DEF UpdateUnfinished, S!UpdateUnfinished
  <2> QED BY <1>0, <1>1, <1>2, <2>1 DEF TypeOK, S!TypeOK, Same
<1>4. CASE UpdateFinished(r)
  <2>1. /\ status' = [status EXCEPT ![r] = "finished"] /\ StampFinish(r)
        /\ S!GeneratedAfter(r) >= MaxNewTokens[r]
    BY <1>4 DEF UpdateFinished, S!UpdateFinished, S!FinishRequest, S!IsFinishedWith
  <2>2. MaxNewTokens[r] > 0 => r \in sampled \/ status[r] = "decode"
    <3>1. status[r] = "prefill" => generated[r] = 0
      BY <1>0 DEF SP!ComputedMatchesGenerated, SP!CountsAgree
    <3>2. r \notin sampled => generated[r] >= MaxNewTokens[r]
      BY <2>1 DEF S!GeneratedAfter
    <3> QED BY <1>2, <3>1, <3>2, ShapesAssumption
  <2> QED BY <1>0, <1>1, <1>2, <2>1, <2>2 DEF TypeOK, S!TypeOK, Same
<1> QED BY <1>3, <1>4

LEMMA RaiseMoves ==
    ASSUME NEW r \in Requests, StepRaises(r)
    PROVE  /\ phase' = "raised" /\ pc' = "idle" /\ status' = status
           /\ UNCHANGED <<pending, sim_time, step_count, prev_status, prefill_finish, finish_time>>
BY DEF StepRaises, S!SelectRaises, S!StepEnds, S!requests, stamps

LEMMA EndMoves ==
    ASSUME TypeOK, NEW d \in StepDurations, EndStep(d)
    PROVE  /\ phase = "step" /\ phase' = "free" /\ pc' = "idle" /\ status' = status
           /\ sim_time' = sim_time + d /\ d \in Nat
           /\ running' = running /\ finished' = finished
           /\ UNCHANGED <<pending, step_count, prev_status>>
BY DurationsAssumption
   DEF EndStep, S!EndUpdate, S!StepEnds, S!requests, S!queues, TypeOK

(* Only a request that wants no token is left to the hook.                    *)
LEMMA FreeMoves ==
    ASSUME SP!IInv, TypeOK, NEW r \in Requests, FreeFinished(r)
    PROVE  /\ phase = "free" /\ phase' = "free" /\ pc' = pc
           /\ status[r] \in {"prefill", "decode"} /\ MaxNewTokens[r] = 0
           /\ status' = [status EXCEPT ![r] = "finished"] /\ StampFinish(r)
           /\ UNCHANGED <<pending, sim_time, step_count, prev_status, prefill_finish>>
<1>1. /\ phase = "free" /\ phase' = "free" /\ pc' = pc /\ StampFinish(r)
      /\ r \in Range(running) /\ generated[r] >= MaxNewTokens[r]
      /\ status' = [status EXCEPT ![r] = "finished"]
      /\ UNCHANGED <<pending, sim_time, step_count, prev_status, prefill_finish>>
  BY DEF FreeFinished, ToFree, S!IsFinishedWith, S!FinishRequest
<1>2. status[r] \in {"prefill", "decode"}
  BY <1>1, Books
<1>3. generated[r] \in Nat /\ SP!CountsAgree(r)
  BY DEF TypeOK, S!TypeOK, SP!IInv, SP!ComputedMatchesGenerated
<1> QED BY <1>1, <1>2, <1>3, ShapesAssumption DEF SP!CountsAgree

LEMMA BeginMoves ==
    ASSUME SP!IInv, TypeOK, BeginStep
    PROVE  /\ phase = "inject" /\ ~Arrived /\ phase' = "step" /\ pc' # "idle"
           /\ status' = status /\ step_count' = step_count + 1
           /\ prev_status' = [r \in Requests |->
                  IF status[r] \in {"waiting", "prefill", "decode"} THEN status[r] ELSE "absent"]
           /\ UNCHANGED <<pending, sim_time, prefill_finish, finish_time>>
<1>1. /\ phase = "inject" /\ ~Arrived /\ phase' = "step" /\ pc = "idle" /\ pc' = "admitting"
      /\ status' = status /\ step_count' = step_count + 1 /\ prev_status' = Snapshot
      /\ UNCHANGED <<pending, sim_time, prefill_finish, finish_time>>
  BY DEF BeginStep, S!BeginStep, S!requests, stamps
<1>2. waiting \in Seq(Requests) /\ running \in Seq(Requests) /\ skipped = <<>>
  BY <1>1, Books DEF TypeOK, S!TypeOK
<1>3. Range(running \o waiting) = Range(running) \cup Range(waiting)
  BY <1>2, RangeConcatenation
<1>4. skipped \o waiting = waiting
  BY <1>2
<1>5. \A r \in Requests : r \in Range(running \o waiting) <=>
                              status[r] \in {"waiting", "prefill", "decode"}
  BY <1>3, <1>4, Books
<1> QED BY <1>1, <1>5 DEF Snapshot

-----------------------------------------------------------------------------
(* Types. *)

LEMMA InitBInv == Init => BInv
<1> SUFFICES ASSUME Init PROVE BInv
  OBVIOUS
<1>1. SP!IInv
  BY SP!InitIInv, SchedulerAssumptions, SameScheduler DEF Init
<1>2. /\ phase = "adding" /\ pending = <<>> /\ sim_time = 0 /\ step_count = 0 /\ pc = "idle"
      /\ prev_status = [r \in Requests |-> "absent"] /\ status = [r \in Requests |-> "absent"]
      /\ prefill_finish = [r \in Requests |-> Unset]
      /\ finish_time = [r \in Requests |-> Unset]
  BY DEF Init, S!Init, S!Idle
<1>3. <<>> \in Seq(Requests) /\ IsInjective(<<>>) /\ Range(<<>>) = {} /\ Len(<<>>) = 0
  BY DEF Range, IsInjective
<1>4. TypeOK
  BY <1>1, <1>2, <1>3, Books, MaxStepsAssumption DEF TypeOK, Phases
<1>5. ArrivalsOK
  BY <1>2, <1>3 DEF ArrivalsOK
<1>6. StampsOK
  BY <1>2, TimestampAssumption DEF StampsOK, Stamped, Unstamped, Early, Simulated
<1> QED BY <1>1, <1>4, <1>5, <1>6 DEF BInv

LEMMA SameTypes == SP!IInv' => S!TypeOK'
BY DEF SP!IInv, S!TypeOK, SP!TypeOK, S!Priorities, SP!Priorities, S!Steps, SP!Steps,
       SP!Range, S!Range, Range

LEMMA HeadAndRest ==
    ASSUME TypeOK, pending # <<>>
    PROVE  /\ Head(pending) \in Requests /\ Head(pending) = pending[1]
           /\ Len(pending) \in Nat \ {0}
           /\ Head(pending) \in Range(pending) /\ Range(pending) \subseteq Requests
           /\ Tail(pending) \in Seq(Requests) /\ IsInjective(Tail(pending))
           /\ Range(Tail(pending)) = Range(pending) \ {Head(pending)}
           /\ Len(Tail(pending)) = Len(pending) - 1
           /\ \A i \in 1 .. Len(pending) - 1 : Tail(pending)[i] = pending[i + 1]
<1>1. pending \in Seq(Requests) /\ IsInjective(pending)
  BY DEF TypeOK
<1>2. /\ Head(pending) \in Range(pending)
      /\ Tail(pending) \in Seq(Requests) /\ IsInjective(Tail(pending))
      /\ Range(Tail(pending)) = Range(pending) \ {Head(pending)}
  BY <1>1, TailInjective
<1>3. Range(pending) \subseteq Requests
  BY <1>1, RangeMembers
<1> QED BY <1>1, <1>2, <1>3, HeadTailProperties

(* The sorted list is a list of the same requests. *)
LEMMA SortedTyped ==
    ASSUME TypeOK, StartRun
    PROVE  /\ pending' \in Seq(Requests) /\ IsInjective(pending')
           /\ Range(pending') \subseteq Range(pending)
           /\ \A i, j \in 1 .. Len(pending') :
                  i < j => Arrival[pending'[i]] <= Arrival[pending'[j]]
<1>1. /\ pending' \in [DOMAIN pending -> Range(pending)] /\ IsByArrival(pending', pending)
      /\ pending \in Seq(Requests)
  BY DEF StartRun, TypeOK
<1>2. DOMAIN pending = 1 .. Len(pending) /\ Len(pending) \in Nat /\ Range(pending) \subseteq Requests
  BY <1>1, RangeMembers, LenProperties
<1>3. pending' \in [1 .. Len(pending) -> Requests]
  BY <1>1, <1>2
<1>4. pending' \in Seq(Requests) /\ Len(pending') = Len(pending)
  BY <1>2, <1>3, SeqDef, LenProperties
<1>5. IsInjective(pending') /\ Range(pending') \subseteq Range(pending)
  BY <1>1 DEF IsByArrival, Range
<1>6. \A i \in 1 .. Len(pending') : pending'[i] \in Requests
  BY <1>3, <1>4
<1>7. \A i, j \in 1 .. Len(pending') : i < j => Arrival[pending'[i]] <= Arrival[pending'[j]]
  <2>1. DOMAIN pending' = 1 .. Len(pending') /\ Len(pending') \in Nat
    BY <1>4, LenProperties
  <2>2. \A i \in 1 .. Len(pending') : Arrival[pending'[i]] \in Nat
    BY <1>6, ArrivalAssumption
  <2>3. ASSUME NEW i \in DOMAIN pending', NEW j \in DOMAIN pending', i < j
        PROVE  \/ Arrival[pending'[i]] < Arrival[pending'[j]]
               \/ Arrival[pending'[i]] = Arrival[pending'[j]]
    BY <1>1, <2>3 DEF IsByArrival
  <2>4. ASSUME NEW i \in 1 .. Len(pending'), NEW j \in 1 .. Len(pending'), i < j
        PROVE  Arrival[pending'[i]] <= Arrival[pending'[j]]
    <3>1. \/ Arrival[pending'[i]] < Arrival[pending'[j]]
          \/ Arrival[pending'[i]] = Arrival[pending'[j]]
      BY <2>1, <2>3, <2>4
    <3> QED BY <2>2, <3>1
  <2> QED BY <2>4
<1> QED BY <1>4, <1>5, <1>7

LEMMA StepTypes == BInv /\ SP!IInv' /\ [Next]_vars => TypeOK'
<1> SUFFICES ASSUME BInv, SP!IInv', [Next]_vars
             PROVE  TypeOK'
  OBVIOUS
<1>0. TypeOK /\ SP!IInv /\ ArrivalsOK /\ S!TypeOK'
  BY SameTypes DEF BInv
<1> DEFINE Times == [Requests -> Nat \cup {Unset, WallClock}]
<1>1. CASE UNCHANGED vars
  BY <1>0, <1>1 DEF vars, engine, own, stamps, TypeOK
<1>2. ASSUME NEW r \in Requests, AddPending(r) PROVE TypeOK'
  <2>1. pending' \in Seq(Requests) /\ IsInjective(pending')
    BY <1>0, <1>2, AppendDistinct DEF AddPending, TypeOK
  <2> QED BY <1>0, <1>2, <2>1 DEF AddPending, engine, stamps, TypeOK
<1>3. CASE StartRun
  BY <1>0, <1>3, SortedTyped DEF StartRun, engine, stamps, TypeOK, Phases
<1>4. CASE BeginIteration
  <2>1. sim_time' \in Nat
    BY <1>0, <1>4, HeadAndRest, ArrivalAssumption DEF BeginIteration, TimeOfIteration, TypeOK
  <2> QED BY <1>0, <1>4, <2>1 DEF BeginIteration, engine, stamps, TypeOK, Phases
<1>5. ASSUME NEW r \in Requests, Inject(r) PROVE TypeOK'
  BY <1>0, <1>5, InjectMoves, HeadAndRest DEF TypeOK
<1>6. CASE BeginStep
  <2>1. step_count' \in 0 .. MaxSteps
    BY <1>0, <1>6, BeginMoves, MaxStepsAssumption DEF ArrivalsOK, TypeOK
  <2>2. prev_status' \in [Requests -> {"absent", "waiting", "prefill", "decode"}]
    BY <1>0, <1>6, BeginMoves
  <2> QED BY <1>0, <1>6, <2>1, <2>2, BeginMoves DEF TypeOK, Phases
<1>7. CASE RestOfStep
  BY <1>0, <1>7, RestMoves DEF own, stamps, TypeOK
<1>8. ASSUME NEW r \in Requests, UpdateUnfinished(r) \/ UpdateFinished(r) PROVE TypeOK'
  <2>1. prefill_finish' \in Times
    BY <1>0, <1>8, UpdateMoves DEF StampFirstToken, TypeOK
  <2>2. finish_time' \in Times
    BY <1>0, <1>8, UpdateMoves DEF StampFinish, TypeOK
  <2> QED BY <1>0, <1>8, <2>1, <2>2, UpdateMoves DEF TypeOK
<1>9. ASSUME NEW r \in Requests, StepRaises(r) PROVE TypeOK'
  BY <1>0, <1>9, RaiseMoves DEF TypeOK, Phases
<1>10. ASSUME NEW d \in StepDurations, EndStep(d) PROVE TypeOK'
  <2>1. sim_time' \in Nat
    BY <1>0, <1>10, EndMoves DEF TypeOK
  <2>2. prefill_finish' \in Times /\ finish_time' \in Times
    BY <1>0, <1>10, <2>1 DEF EndStep, TypeOK
  <2> QED BY <1>0, <1>10, <2>1, <2>2, EndMoves DEF TypeOK, Phases
<1>11. ASSUME NEW r \in Requests, FreeFinished(r) PROVE TypeOK'
  <2>1. finish_time' \in Times
    BY <1>0, <1>11, FreeMoves DEF StampFinish, TypeOK
  <2> QED BY <1>0, <1>11, <2>1, FreeMoves DEF TypeOK
<1>12. CASE EndIteration
  BY <1>0, <1>12 DEF EndIteration, engine, stamps, TypeOK, Phases
<1> QED BY <1>1, <1>2, <1>3, <1>4, <1>5, <1>6, <1>7, <1>8, <1>9, <1>10, <1>11, <1>12 DEF Next

-----------------------------------------------------------------------------
(* Arrivals. *)

(* The next request of a sorted list arrives first. *)
LEMMA HeadFirst ==
    ASSUME TypeOK, pending # <<>>,
           \A i, j \in 1 .. Len(pending) : i < j => Arrival[pending[i]] <= Arrival[pending[j]],
           NEW q \in Range(pending)
    PROVE  q \in Requests /\ Arrival[q] \in Nat
           /\ Arrival[Head(pending)] \in Nat /\ Arrival[Head(pending)] <= Arrival[q]
<1>1. pending \in Seq(Requests)
  BY DEF TypeOK
<1>2. PICK j \in 1 .. Len(pending) : q = pending[j]
  BY <1>1, RangeMembers
<1>3. Head(pending) = pending[1] /\ Head(pending) \in Requests /\ Len(pending) \in Nat \ {0}
      /\ q \in Requests
  BY HeadAndRest
<1>4. Arrival[Head(pending)] \in Nat /\ Arrival[q] \in Nat
  BY <1>3, ArrivalAssumption
<1>5. CASE j = 1
  BY <1>2, <1>3, <1>4, <1>5
<1>6. CASE j # 1
  <2>1. 1 \in 1 .. Len(pending) /\ 1 < j
    BY <1>2, <1>3, <1>6
  <2>2. Arrival[pending[1]] <= Arrival[pending[j]]
    BY <1>2, <2>1
  <2> QED BY <1>2, <1>3, <1>4, <2>2
<1> QED BY <1>5, <1>6

(* Nothing is at stake in a step that moves neither the clock, nor the list,  *)
(* nor whether a request has been seen.                                       *)
LEMMA ArrivalsStand ==
    ASSUME ArrivalsOK, UNCHANGED <<pending, sim_time>>, phase # "adding",
           phase' \notin {"adding", "inject"}, phase' = "step" => phase = "step",
           \A q \in Requests : status'[q] = "absent" <=> status[q] = "absent",
           Range(pending) \subseteq Requests
    PROVE  ArrivalsOK'
BY DEF ArrivalsOK

LEMMA StepArrivals == BInv /\ [Next]_vars => ArrivalsOK'
<1> SUFFICES ASSUME BInv, [Next]_vars
             PROVE  ArrivalsOK'
  OBVIOUS
<1>0. /\ TypeOK /\ SP!IInv /\ ArrivalsOK
      /\ sim_time \in Nat /\ \A r \in Requests : Arrival[r] \in Nat
      /\ Range(pending) \subseteq Requests
  BY ArrivalAssumption, RangeMembers DEF BInv, TypeOK
<1>a. status \in [Requests -> {"absent", "waiting", "prefill", "decode", "finished"}]
  BY <1>0 DEF TypeOK, S!TypeOK
<1>1. CASE UNCHANGED vars
  BY <1>0, <1>1 DEF vars, engine, own, ArrivalsOK
<1>2. ASSUME NEW r \in Requests, AddPending(r) PROVE ArrivalsOK'
  <2>1. phase = "adding" /\ phase' = "adding" /\ status' = status
    BY <1>2 DEF AddPending, engine
  <2>2. Range(pending') \subseteq Requests
    <3>1. pending' \in Seq(Requests)
      BY <1>0, <1>2 DEF AddPending, TypeOK
    <3> QED BY <3>1, RangeMembers
  <2> QED BY <1>0, <2>1, <2>2 DEF ArrivalsOK
<1>3. CASE StartRun
  <2>1. phase = "adding" /\ phase' = "loop" /\ status' = status
    BY <1>3 DEF StartRun, engine
  <2> QED BY <1>0, <1>3, <2>1, SortedTyped DEF ArrivalsOK
<1>4. CASE BeginIteration
  <2>1. /\ phase = "loop" /\ phase' = "inject" /\ status' = status /\ pending' = pending
        /\ step_count < MaxSteps /\ step_count' = step_count
        /\ sim_time' = sim_time \/ (pending # <<>> /\ sim_time' = Arrival[Head(pending)])
    BY <1>4 DEF BeginIteration, Work, TimeOfIteration, engine
  <2>2. pending # <<>> => Head(pending) \in Range(pending)
    BY <1>0, HeadAndRest
  <2> QED BY <1>0, <2>1, <2>2 DEF ArrivalsOK
<1>5. ASSUME NEW r \in Requests, Inject(r) PROVE ArrivalsOK'
  <2>1. /\ phase = "inject" /\ phase' = "inject"
        /\ status' = [status EXCEPT ![r] = "waiting"]
        /\ pending # <<>> /\ r = Head(pending) /\ pending' = Tail(pending)
        /\ Arrival[r] <= sim_time /\ UNCHANGED <<sim_time, step_count>>
    BY <1>0, <1>5, InjectMoves
  <2>2. /\ Range(pending') = Range(pending) \ {r} /\ Len(pending') = Len(pending) - 1
        /\ Len(pending) \in Nat
        /\ \A i \in 1 .. Len(pending) - 1 : pending'[i] = pending[i + 1]
    BY <1>0, <2>1, HeadAndRest
  <2>3. \A q \in Range(pending) : Arrival[r] <= Arrival[q]
    BY <1>0, <2>1, HeadFirst DEF ArrivalsOK
  <2>4. ASSUME NEW i \in 1 .. Len(pending'), NEW j \in 1 .. Len(pending'), i < j
        PROVE  Arrival[pending'[i]] <= Arrival[pending'[j]]
    <3>1. i + 1 \in 1 .. Len(pending) /\ j + 1 \in 1 .. Len(pending) /\ i + 1 < j + 1
      BY <2>2, <2>4
    <3>2. Arrival[pending[i + 1]] <= Arrival[pending[j + 1]]
      BY <1>0, <2>1, <3>1 DEF ArrivalsOK
    <3> QED BY <2>2, <3>2
  <2>5. \A q \in Range(pending') : q # r /\ status'[q] = "absent"
    BY <1>0, <1>a, <2>1, <2>2 DEF ArrivalsOK
  <2>6. \A q \in Requests : status'[q] # "absent" =>
            /\ Arrival[q] <= sim_time'
            /\ \A p \in Range(pending') : Arrival[q] <= Arrival[p]
    BY <1>0, <1>a, <2>1, <2>2, <2>3 DEF ArrivalsOK
  <2> QED BY <1>0, <2>1, <2>4, <2>5, <2>6 DEF ArrivalsOK
<1>6. CASE BeginStep
  <2>1. /\ phase = "inject" /\ phase' = "step" /\ ~Arrived /\ status' = status
        /\ UNCHANGED <<pending, sim_time>>
    BY <1>0, <1>6, BeginMoves
  <2>2. pending # <<>> => Head(pending) \in Requests /\ ~(Arrival[Head(pending)] <= sim_time)
    BY <1>0, <2>1, HeadAndRest DEF Arrived
  <2>3. ASSUME NEW q \in Range(pending) PROVE Arrival[q] > sim_time
    <3>1. pending # <<>>
      BY <2>3 DEF Range
    <3>2. Arrival[Head(pending)] <= Arrival[q]
      BY <1>0, <2>1, <3>1, HeadFirst DEF ArrivalsOK
    <3> QED BY <1>0, <2>2, <3>1, <3>2
  <2> QED BY <1>0, <2>1, <2>3 DEF ArrivalsOK
<1>7. CASE RestOfStep
  <2>1. /\ phase = "step" /\ phase' = phase /\ UNCHANGED <<pending, sim_time>>
        /\ \A q \in Requests : MayAdmit(q)
    BY <1>0, <1>7, RestMoves DEF own
  <2> QED BY <1>0, <2>1, ArrivalsStand DEF MayAdmit, Same
<1>8. ASSUME NEW r \in Requests, UpdateUnfinished(r) \/ UpdateFinished(r) PROVE ArrivalsOK'
  <2>1. /\ phase = "step" /\ phase' = "step" /\ UNCHANGED <<pending, sim_time>>
        /\ \A q \in Requests : q # r => Same(q)
        /\ status[r] # "absent" /\ status'[r] # "absent"
    BY <1>0, <1>8, UpdateMoves
  <2> QED BY <1>0, <2>1, ArrivalsStand DEF Same
<1>9. ASSUME NEW r \in Requests, StepRaises(r) PROVE ArrivalsOK'
  <2>1. phase' = "raised" /\ status' = status /\ UNCHANGED <<pending, sim_time>>
    BY <1>9, RaiseMoves
  <2>2. phase = "step"
    BY <1>0, <1>9 DEF StepRaises, S!SelectRaises, S!Selecting, TypeOK
  <2> QED BY <1>0, <2>1, <2>2, ArrivalsStand
<1>10. ASSUME NEW d \in StepDurations, EndStep(d) PROVE ArrivalsOK'
  <2>1. /\ phase = "step" /\ phase' = "free" /\ status' = status /\ pending' = pending
        /\ sim_time' >= sim_time /\ sim_time' \in Nat
    BY <1>0, <1>10, EndMoves
  <2> QED BY <1>0, <2>1 DEF ArrivalsOK
<1>11. ASSUME NEW r \in Requests, FreeFinished(r) PROVE ArrivalsOK'
  <2>1. /\ phase = "free" /\ phase' = "free" /\ UNCHANGED <<pending, sim_time>>
        /\ status[r] # "absent" /\ status' = [status EXCEPT ![r] = "finished"]
    BY <1>0, <1>11, FreeMoves
  <2> QED BY <1>0, <1>a, <2>1, ArrivalsStand
<1>12. CASE EndIteration
  <2>1. /\ phase = "free" /\ phase' = "loop" /\ status' = status
        /\ UNCHANGED <<pending, sim_time>>
    BY <1>12 DEF EndIteration, engine
  <2> QED BY <1>0, <2>1, ArrivalsStand
<1> QED BY <1>1, <1>2, <1>3, <1>4, <1>5, <1>6, <1>7, <1>8, <1>9, <1>10, <1>11, <1>12 DEF Next

-----------------------------------------------------------------------------
(* Stamps. *)

Holds(r) == Unstamped(r) /\ (MaxNewTokens[r] > 0 => Stamped(r))

(* Outside a step one phase is as good as another. *)
Between == {"adding", "loop", "inject", "free"}

LEMMA StampsStand ==
    ASSUME NEW r \in Requests, Holds(r), Same(r),
           prefill_finish'[r] = prefill_finish[r], finish_time'[r] = finish_time[r],
           prev_status'[r] = prev_status[r],
           phase' = phase \/ phase' = "raised" \/ {phase, phase'} \subseteq Between
    PROVE  Holds(r)'
BY DEF Holds, Unstamped, Stamped, FirstTokenStamped, FinishStamped, Same, Between

LEMMA StampsBegin ==
    ASSUME SP!IInv, TypeOK, NEW r \in Requests, Holds(r), BeginStep
    PROVE  Holds(r)'
<1>1. /\ phase = "inject" /\ phase' = "step" /\ status' = status
      /\ prev_status'[r] = IF status[r] \in {"waiting", "prefill", "decode"} THEN status[r]
                                                                         ELSE "absent"
      /\ UNCHANGED <<prefill_finish, finish_time>>
  BY BeginMoves
<1>2. status[r] \in {"absent", "waiting", "prefill", "decode", "finished"}
  BY DEF TypeOK, S!TypeOK
<1> QED BY <1>1, <1>2, TimestampAssumption
        DEF Holds, Unstamped, Stamped, FirstTokenStamped, FinishStamped, Early, Simulated

LEMMA StampsUpdate ==
    ASSUME SP!IInv, TypeOK, NEW r \in Requests, Holds(r), UpdateUnfinished(r) \/ UpdateFinished(r)
    PROVE  Holds(r)'
<1>1. /\ phase = "step" /\ phase' = "step" /\ prev_status' = prev_status
      /\ StampFirstToken(r) /\ status[r] \in {"prefill", "decode"}
  BY UpdateMoves
<1>2. \/ /\ status'[r] = (IF r \in sampled THEN "decode" ELSE status[r])
         /\ finish_time' = finish_time
      \/ status'[r] = "finished"
  BY UpdateMoves
<1>3. prefill_finish'[r] = IF r \in sampled /\ prefill_finish[r] = Unset
                           THEN WallClock ELSE prefill_finish[r]
  BY <1>1 DEF StampFirstToken, TypeOK
<1>4. Unstamped(r)'
  BY <1>1, <1>2, <1>3 DEF Holds, Unstamped, Early, Simulated
<1>5. ASSUME MaxNewTokens[r] > 0 PROVE Stamped(r)'
  <2>1. /\ status[r] = "prefill" => prev_status[r] \in {"waiting", "prefill"}
        /\ status[r] = "decode" => prev_status[r] \in {"waiting", "prefill"} \/ FirstTokenStamped(r)
    BY <1>1, <1>5 DEF Holds, Stamped
  <2>2. FirstTokenStamped(r) => FirstTokenStamped(r)'
    BY <1>3 DEF FirstTokenStamped, Simulated
  <2> QED BY <1>1, <1>2, <2>1, <2>2 DEF Stamped
<1> QED BY <1>4, <1>5 DEF Holds

LEMMA StampsEnd ==
    ASSUME SP!IInv, TypeOK, ArrivalsOK, NEW r \in Requests, Holds(r),
           NEW d \in StepDurations, EndStep(d)
    PROVE  Holds(r)'
<1>1. /\ phase = "step" /\ phase' = "free" /\ status' = status /\ prev_status' = prev_status
      /\ sim_time' \in Nat /\ sim_time' >= sim_time
  BY EndMoves DEF TypeOK
<1>2. status[r] \in {"absent", "waiting", "prefill", "decode", "finished"}
      /\ prev_status[r] \in {"absent", "waiting", "prefill", "decode"}
  BY DEF TypeOK, S!TypeOK
<1>3. status[r] \in {"decode", "finished"} => r \in Range(running \o finished)
  <2>1. Range(running \o finished) = Range(running) \cup Range(finished)
    BY RangeConcatenation DEF TypeOK, S!TypeOK
  <2> QED BY <2>1, Books
<1>4. running' = running /\ finished' = finished
  BY EndMoves
<1>5. /\ prefill_finish'[r] =
             IF prev_status[r] \in {"waiting", "prefill"} /\ status[r] \in {"decode", "finished"}
             THEN sim_time' ELSE prefill_finish[r]
      /\ finish_time'[r] = IF status[r] = "finished" THEN sim_time' ELSE finish_time[r]
  BY <1>2, <1>3 DEF EndStep, GotFirstToken, GotFinished
<1>6. Simulated(sim_time')
  BY <1>1, TimestampAssumption DEF Simulated
<1>7. status[r] # "absent" => sim_time' >= Arrival[r]
  <2>1. sim_time \in Nat /\ Arrival[r] \in Nat
    BY ArrivalAssumption DEF TypeOK
  <2> QED BY <1>1, <2>1 DEF ArrivalsOK
<1>8. Unstamped(r)'
  BY <1>1, <1>2, <1>5 DEF Holds, Unstamped, Early
<1>9. ASSUME MaxNewTokens[r] > 0 PROVE Stamped(r)'
  <2>1. status[r] \in {"decode", "finished"} => FirstTokenStamped(r)'
    <3>1. status[r] \in {"decode", "finished"} =>
              prev_status[r] \in {"waiting", "prefill"} \/ FirstTokenStamped(r)
      BY <1>1, <1>9 DEF Holds, Stamped
    <3> QED BY <1>5, <1>6, <1>7, <3>1 DEF FirstTokenStamped, Simulated
  <2>2. status[r] = "finished" => FinishStamped(r)'
    BY <1>5, <1>6, <1>7 DEF FinishStamped, Simulated
  <2> QED BY <1>1, <2>1, <2>2 DEF Stamped
<1> QED BY <1>8, <1>9 DEF Holds

LEMMA StepStamps == BInv /\ [Next]_vars => StampsOK'
<1> SUFFICES ASSUME BInv, [Next]_vars, NEW q \in Requests
             PROVE  Holds(q)'
  BY DEF StampsOK, Holds
<1>0. /\ TypeOK /\ SP!IInv /\ ArrivalsOK /\ Holds(q)
      /\ prefill_finish \in [Requests -> Nat \cup {Unset, WallClock}]
      /\ finish_time \in [Requests -> Nat \cup {Unset, WallClock}]
      /\ status \in [Requests -> {"absent", "waiting", "prefill", "decode", "finished"}]
  BY DEF BInv, TypeOK, S!TypeOK, StampsOK, Holds
<1>1. CASE Aside
  <2>1. /\ status' = status /\ prev_status' = prev_status
        /\ UNCHANGED <<prefill_finish, finish_time>>
        /\ phase' = phase \/ {phase, phase'} \subseteq Between
    BY <1>1 DEF Aside, vars, own, AddPending, StartRun, BeginIteration, EndIteration,
                engine, stamps, Between
  <2> QED BY <1>0, <2>1, StampsStand DEF Same
<1>2. ASSUME NEW r \in Requests, Inject(r) PROVE Holds(q)'
  <2>1. /\ phase' = phase /\ phase = "inject" /\ prev_status' = prev_status
        /\ status[r] = "absent" /\ status' = [status EXCEPT ![r] = "waiting"]
        /\ UNCHANGED <<prefill_finish, finish_time>>
    BY <1>0, <1>2, InjectMoves
  <2>2. CASE q = r
    BY <1>0, <2>1, <2>2 DEF Holds, Unstamped, Stamped, Early
  <2>3. CASE q # r
    BY <1>0, <2>1, <2>3, StampsStand DEF Same
  <2> QED BY <2>2, <2>3
<1>3. CASE BeginStep
  BY <1>0, <1>3, StampsBegin
<1>4. CASE RestOfStep
  <2>1. /\ phase = "step" /\ phase' = phase /\ prev_status' = prev_status /\ MayAdmit(q)
        /\ UNCHANGED <<prefill_finish, finish_time>>
    BY <1>0, <1>4, RestMoves DEF own, stamps
  <2>2. CASE Same(q)
    BY <1>0, <2>1, <2>2, StampsStand
  <2>3. CASE status[q] = "waiting" /\ status'[q] = "prefill"
    BY <1>0, <2>1, <2>3 DEF Holds, Unstamped, Stamped, Early
  <2> QED BY <2>1, <2>2, <2>3 DEF MayAdmit
<1>5. ASSUME NEW r \in Requests, UpdateUnfinished(r) \/ UpdateFinished(r) PROVE Holds(q)'
  <2>1. CASE q = r
    BY <1>0, <1>5, <2>1, StampsUpdate
  <2>2. CASE q # r
    <3>1. /\ phase' = phase /\ prev_status' = prev_status /\ Same(q) /\ StampFirstToken(r)
          /\ finish_time' = finish_time \/ StampFinish(r)
      BY <1>0, <1>5, <2>2, UpdateMoves
    <3>2. prefill_finish'[q] = prefill_finish[q] /\ finish_time'[q] = finish_time[q]
      BY <1>0, <2>2, <3>1 DEF StampFirstToken, StampFinish
    <3> QED BY <1>0, <3>1, <3>2, StampsStand
  <2> QED BY <2>1, <2>2
<1>6. ASSUME NEW r \in Requests, StepRaises(r) PROVE Holds(q)'
  BY <1>0, <1>6, RaiseMoves, StampsStand DEF Same
<1>7. ASSUME NEW d \in StepDurations, EndStep(d) PROVE Holds(q)'
  BY <1>0, <1>7, StampsEnd
<1>8. ASSUME NEW r \in Requests, FreeFinished(r) PROVE Holds(q)'
  <2>1. /\ phase = "free" /\ phase' = phase /\ prev_status' = prev_status
        /\ MaxNewTokens[r] = 0 /\ status' = [status EXCEPT ![r] = "finished"]
        /\ StampFinish(r) /\ prefill_finish' = prefill_finish
    BY <1>0, <1>8, FreeMoves
  <2>2. CASE q = r
    BY <1>0, <2>1, <2>2 DEF Holds, Unstamped, Early
  <2>3. CASE q # r
    BY <1>0, <2>1, <2>3, StampsStand DEF Same, StampFinish
  <2> QED BY <2>2, <2>3
<1> QED BY <1>1, <1>2, <1>3, <1>4, <1>5, <1>6, <1>7, <1>8, StepKinds DEF EngineStep

-----------------------------------------------------------------------------
LEMMA StepBInv == BInv /\ [Next]_vars => BInv'
<1> SUFFICES ASSUME BInv, [Next]_vars
             PROVE  BInv'
  OBVIOUS
<1>1. SP!IInv'
  BY StepScheduler DEF BInv
<1> QED BY <1>1, StepTypes, StepArrivals, StepStamps DEF BInv

LEMMA BatchingInvariant == Spec => []BInv
BY InitBInv, StepBInv, PTL DEF Spec

(* ContinuousBatchingRunner keeps to its types: what is pending is a list     *)
(* without repetition, and the scheduler steps in the phase "step" only.      *)
THEOREM BatchingTypeCorrect == Spec => []TypeOK
<1>1. BInv => TypeOK
  BY DEF BInv
<1> QED BY <1>1, BatchingInvariant, PTL

(* run: in a step exactly the requests that have arrived are there, whatever  *)
(* the order in which they were added, the durations of the steps and the     *)
(* jumps of the clock, forwards and back.                                     *)
THEOREM ArrivalsCorrect == Spec => []ArrivalsRespected
<1>1. BInv => ArrivalsRespected
  BY DEF BInv, ArrivalsOK, ArrivalsRespected
<1> QED BY <1>1, BatchingInvariant, PTL

(* "Override wall-clock timestamps set by the Scheduler": between two steps   *)
(* the events of every request that wants tokens carry times of the simulated *)
(* clock, none before its arrival.                                            *)
THEOREM EventsCorrect == Spec => []EventsStamped
<1>1. BInv => EventsStamped
  <2> SUFFICES ASSUME BInv, phase = "loop", NEW r \in Requests, MaxNewTokens[r] > 0
               PROVE  /\ status[r] \in {"decode", "finished"} => FirstTokenStamped(r)
                      /\ status[r] = "finished" => FinishStamped(r)
                      /\ status[r] \in {"absent", "waiting", "prefill"} =>
                             prefill_finish[r] = Unset /\ finish_time[r] = Unset
    BY DEF EventsStamped, FirstTokenStamped, FinishStamped
  <2>1. Unstamped(r) /\ Stamped(r)
    BY DEF BInv, StampsOK
  <2> QED BY <2>1 DEF Unstamped, Stamped, Early
<1> QED BY <1>1, BatchingInvariant, PTL

(* A first token keeps its time: neither the scheduler, which stamps only     *)
(* what has no stamp, nor the comparison of the statuses before and after a   *)
(* step touches it again.                                                     *)
THEOREM FirstTokenTimesStand == Spec => FirstTokenTimeStands
<1>1. BInv /\ [Next]_vars =>
          \A r \in Requests :
              Simulated(prefill_finish[r]) => prefill_finish'[r] = prefill_finish[r]
  <2> SUFFICES ASSUME BInv, [Next]_vars, NEW q \in Requests, Simulated(prefill_finish[q])
               PROVE  prefill_finish'[q] = prefill_finish[q]
    OBVIOUS
  <2>0. /\ TypeOK /\ SP!IInv /\ Unstamped(q)
        /\ prefill_finish \in [Requests -> Nat \cup {Unset, WallClock}]
    BY DEF BInv, StampsOK, TypeOK
  <2>1. CASE Aside
    BY <2>1 DEF Aside, vars, own, AddPending, StartRun, BeginIteration, EndIteration, stamps
  <2>2. ASSUME NEW r \in Requests, Inject(r) \/ StepRaises(r) \/ FreeFinished(r)
        PROVE  prefill_finish' = prefill_finish
    BY <2>2 DEF Inject, StepRaises, FreeFinished, stamps
  <2>3. CASE BeginStep \/ RestOfStep
    BY <2>3 DEF BeginStep, RestOfStep, own, stamps
  <2>4. ASSUME NEW r \in Requests, UpdateUnfinished(r) \/ UpdateFinished(r)
        PROVE  prefill_finish'[q] = prefill_finish[q]
    <3>1. StampFirstToken(r)
      BY <2>4 DEF UpdateUnfinished, UpdateFinished
    <3> QED BY <2>0, <3>1 DEF StampFirstToken, Simulated
  <2>5. ASSUME NEW d \in StepDurations, EndStep(d)
        PROVE  prefill_finish'[q] = prefill_finish[q]
    <3>1. phase = "step"
      BY <2>0, <2>5, EndMoves
    <3>2. ~GotFirstToken(q)
      BY <2>0, <3>1 DEF Unstamped, GotFirstToken
    <3> QED BY <2>5, <3>2 DEF EndStep
  <2> QED BY <2>1, <2>2, <2>3, <2>4, <2>5, StepKinds DEF EngineStep
<1> QED BY <1>1, BatchingInvariant, PTL DEF Spec, FirstTokenTimeStands

-----------------------------------------------------------------------------
(* What the scheduler keeps by itself, it keeps under the runner.             *)

LEMMA SameBooks ==
    /\ SP!QueuesMatchStatus => S!QueuesMatchStatus
    /\ SP!CountsMatchRunning => S!CountsMatchRunning
    /\ SP!MemoryMatchesRunning => S!MemoryMatchesRunning
<1>1. S!Waiting = SP!Waiting /\ S!Running = SP!Running /\ S!Finished = SP!Finished
  BY DEF S!Waiting, SP!Waiting, S!Running, SP!Running, S!Finished, SP!Finished
<1>2. SP!QueuesMatchStatus => S!QueuesMatchStatus
  BY <1>1 DEF S!QueuesMatchStatus, SP!QueuesMatchStatus, S!IsInjective, SP!IsInjective,
              S!Range, SP!Range
<1>3. SP!CountsMatchRunning => S!CountsMatchRunning
  BY <1>1 DEF S!CountsMatchRunning, SP!CountsMatchRunning, S!Priorities, SP!Priorities,
              S!Range, SP!Range, S!Cardinality, SP!Cardinality
<1>4. SP!MemoryMatchesRunning => S!MemoryMatchesRunning
  BY <1>1 DEF S!MemoryMatchesRunning, SP!MemoryMatchesRunning, S!EstimatedKvSize,
              SP!EstimatedKvSize, S!SumFunctionOnSet, SP!SumFunctionOnSet,
              S!FoldFunctionOnSet, SP!FoldFunctionOnSet, S!MapThenFoldSet, SP!MapThenFoldSet
<1> QED BY <1>2, <1>3, <1>4

(* The hook that finishes requests between the steps tells the policy of each *)
(* of them once: queues, counts and memory agree at every moment of a run.    *)
THEOREM BatchingKeepsBooks ==
    Spec => [](S!QueuesMatchStatus /\ S!CountsMatchRunning /\ S!MemoryMatchesRunning)
<1>1. Init => SP!MemoryMatchesRunning
  BY SameScheduler, SP!InitMemory, SchedulerAssumptions DEF Init
<1>2. BInv /\ SP!MemoryMatchesRunning /\ [Next]_vars => SP!MemoryMatchesRunning'
  <2> SUFFICES ASSUME BInv, SP!MemoryMatchesRunning, [Next]_vars
               PROVE  SP!MemoryMatchesRunning'
    OBVIOUS
  <2>0. SP!IInv /\ TypeOK
    BY DEF BInv
  <2>1. CASE Aside \/ EngineStep
    <3>1. [SP!Next]_(SP!vars)
      BY <2>1, AsideStands, StepsOfScheduler, SameScheduler
    <3> QED BY <2>0, <3>1, SP!StepMemory, SchedulerAssumptions
  <2>2. ASSUME NEW r \in Requests, FreeFinished(r) PROVE SP!MemoryMatchesRunning'
    <3>1. SP!TypeOK /\ r \in SP!Running /\ SP!FinishRequest(r)
      BY <2>0, <2>2, FreedSteps DEF SP!Freed, SP!IInv
    <3> QED BY <3>1, SP!FinishMemory, SchedulerAssumptions
  <2> QED BY <2>1, <2>2, StepKinds
<1>3. BInv => SP!QueuesMatchStatus /\ SP!CountsMatchRunning
  BY DEF BInv, SP!IInv
<1> QED BY <1>1, <1>2, <1>3, SameBooks, BatchingInvariant, PTL DEF Spec

LEMMA SameLifecycle ==
    /\ S!Lifecycle!Init <=> SP!Lifecycle!Init
    /\ S!Lifecycle!Next <=> SP!Lifecycle!Next
    /\ S!Lifecycle!vars = SP!Lifecycle!vars /\ S!Lifecycle!vars' = SP!Lifecycle!vars'
BY DEF S!Phase, SP!Phase, S!Lifecycle!Init, SP!Lifecycle!Init, S!Lifecycle!vars,
       SP!Lifecycle!vars, S!Lifecycle!In, SP!Lifecycle!In, S!Lifecycle!Submit,
       SP!Lifecycle!Submit, S!Lifecycle!Admit, SP!Lifecycle!Admit, S!Lifecycle!Emit,
       SP!Lifecycle!Emit, S!Lifecycle!CompleteEmpty, SP!Lifecycle!CompleteEmpty,
       S!Lifecycle!ForgetAll, SP!Lifecycle!ForgetAll, S!Lifecycle!Next, SP!Lifecycle!Next,
       S!Lifecycle!Cardinality, SP!Lifecycle!Cardinality

(* The runner implements the life of a request: it comes into being when it   *)
(* is injected, however long it was pending, and one that the hook finishes   *)
(* wanted no token and ends without one.                                      *)
THEOREM BatchingImplementsRequestLifecycle == Spec => RefinesRequestLifecycle
<1>1. Init => S!Lifecycle!Init
  BY SameScheduler, SameLifecycle, SP!LifecycleInit, SchedulerAssumptions DEF Init
<1>2. BInv /\ [Next]_vars => [S!Lifecycle!Next]_(S!Lifecycle!vars)
  <2> SUFFICES ASSUME BInv, [Next]_vars
               PROVE  SP!Lifecycle!Next \/ UNCHANGED SP!Lifecycle!vars
    BY SameLifecycle
  <2>0. SP!IInv /\ TypeOK
    BY DEF BInv
  <2>1. CASE Aside \/ EngineStep
    <3>1. [SP!Next]_(SP!vars)
      BY <2>1, AsideStands, StepsOfScheduler, SameScheduler
    <3> QED BY <2>0, <3>1, SP!LifecycleStep, SchedulerAssumptions
  <2>2. ASSUME NEW r \in Requests, FreeFinished(r) PROVE SP!Lifecycle!Next
    <3>1. SP!Lifecycle!CompleteEmpty(r)
      BY <2>0, <2>2, FreedSteps, SP!LifecycleFreed, SchedulerAssumptions
    <3> QED BY <3>1 DEF SP!Lifecycle!Next
  <2> QED BY <2>1, <2>2, StepKinds
<1> QED BY <1>1, <1>2, BatchingInvariant, PTL
        DEF Spec, RefinesRequestLifecycle, S!RefinesRequestLifecycle, S!Lifecycle!Spec
=============================================================================
