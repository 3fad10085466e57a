-------------------------- MODULE SchedulerProofs --------------------------
(***************************************************************************)
(* Proofs about Scheduler for every set of requests, every shape of them,  *)
(* every policy limit, token budget and chunk size: the queues and the     *)
(* books kept about them, the order of service, the progress through the   *)
(* prompts, what the model runner knows, and the life of each request.     *)
(***************************************************************************)
EXTENDS Scheduler, CollectionLemmas

-----------------------------------------------------------------------------
(* Removing a request from a queue. *)

LEMMA IndexOfFacts ==
    ASSUME NEW S, NEW s \in Seq(S), NEW x \in Range(s)
    PROVE  IndexOf(s, x) \in 1 .. Len(s) /\ s[IndexOf(s, x)] = x
<1>1. \E i \in DOMAIN s : s[i] = x
  BY RangeMembers, LenProperties
<1> QED BY <1>1, LenProperties DEF IndexOf

LEMMA WithoutDistinct ==
    ASSUME NEW S, NEW s \in Seq(S), IsInjective(s), NEW x \in Range(s)
    PROVE  /\ Without(s, x) \in Seq(S)
           /\ IsInjective(Without(s, x))
           /\ Range(Without(s, x)) = Range(s) \ {x}
           /\ Len(Without(s, x)) = Len(s) - 1
<1> DEFINE i == IndexOf(s, x)
           front == SubSeq(s, 1, i - 1)
           back == SubSeq(s, i + 1, Len(s))
           upto == SubSeq(s, 1, i)
<1>1. Len(s) \in Nat /\ i \in 1 .. Len(s) /\ s[i] = x
  BY IndexOfFacts, LenProperties
<1>2. i \in 0 .. Len(s) /\ i - 1 \in 0 .. Len(s)
  BY <1>1
<1>3. /\ front \in Seq(S) /\ IsInjective(front) /\ Len(front) = i - 1
  BY <1>2, CutInjective
<1>4. /\ upto \in Seq(S) /\ IsInjective(upto) /\ Len(upto) = i
      /\ back \in Seq(S) /\ IsInjective(back)
      /\ Range(upto) \cap Range(back) = {}
      /\ Range(upto) \cup Range(back) = Range(s)
  BY <1>2, CutInjective
<1>5. upto = Append(front, x)
  <2>1. /\ \A j \in 1 .. i - 1 : front[j] = s[j]
        /\ \A j \in 1 .. i : upto[j] = s[j]
    BY <1>1, SubSeqProperties, ElementOfSeq
  <2>2. x \in S
    BY RangeMembers
  <2> HIDE DEF i, front, upto
  <2> QED BY <1>1, <1>3, <1>4, <2>1, <2>2
<1>6. Without(s, x) = front \o back
  BY DEF Without, RemoveAt
<1> HIDE DEF i, front, back, upto
<1>7. x \in S
  BY RangeMembers
<1>8. x \notin Range(front) /\ Range(upto) = Range(front) \cup {x}
  <2>1. Range(<<x>>) = {x}
    BY DEF Range
  <2>2. <<x>> \in Seq(S)
    BY <1>7
  <2>3. upto = front \o <<x>>
    BY <1>3, <1>5, <1>7, AppendIsConcat
  <2>4. Range(front) \cap Range(<<x>>) = {} /\ Range(upto) = Range(front) \cup Range(<<x>>)
    BY <1>3, <1>4, <2>2, <2>3, SplitInjective
  <2> QED BY <2>1, <2>4
<1>9. Range(front) \cap Range(back) = {} /\ x \notin Range(back)
  BY <1>4, <1>8
<1>10. /\ front \o back \in Seq(S) /\ IsInjective(front \o back)
       /\ Range(front \o back) = Range(front) \cup Range(back)
  BY <1>3, <1>4, <1>9, JoinInjective
<1>11. Range(front \o back) = Range(s) \ {x}
  BY <1>4, <1>8, <1>9, <1>10
<1>12. Len(front \o back) = Len(s) - 1
  <2>1. /\ IsFiniteSet(Range(s)) /\ Cardinality(Range(s)) = Len(s)
        /\ Cardinality(Range(front \o back)) = Len(front \o back)
    BY <1>10, InjectiveCardinality
  <2> QED BY <1>11, <2>1, FS_RemoveElement
<1> QED BY <1>6, <1>10, <1>11, <1>12

-----------------------------------------------------------------------------
(* The inductive invariant.  The queues and the counts need to know where the *)
(* step is: who was passed over, and that what is scheduled are distinct      *)
(* running requests, found before the cursor.                                 *)
LocalsOK ==
    /\ pc # "admitting" => skipped = <<>>
    /\ pc \in {"idle", "admitting"} => scheduled = <<>>
    /\ IsInjective(scheduled) /\ Range(scheduled) \subseteq Running
    /\ pc = "selecting" =>
           /\ cursor \in 1 .. Len(running) + 1
           /\ budget <= MaxNumScheduledTokens
           /\ \A r \in Range(scheduled) : \E j \in 1 .. cursor - 1 : running[j] = r

(* The count of computed tokens needs to know what a scheduled request was    *)
(* granted, and that the runner sampled by the count it was sent.             *)
GrantsOK ==
    /\ \A r \in Requests : cached[r] <= PromptLength[r]
    /\ \A r \in Requests : status[r] = "prefill" => cached[r] <= computed[r]
    /\ \A r \in Range(scheduled) :
           /\ tokens[r] > 0
           /\ IF Prefilling(r) THEN tokens[r] <= RemainingPrefill(r) ELSE tokens[r] = 1
    /\ pc = "updating" =>
           \A r \in Range(scheduled) : r \in sampled <=> ReachesSamplingPoint(r)

IInv ==
    /\ TypeOK
    /\ QueuesMatchStatus
    /\ LocalsOK
    /\ CountsMatchRunning
    /\ ComputedMatchesGenerated
    /\ GrantsOK

-----------------------------------------------------------------------------
(* Types. *)

LEMMA SmallerLarger ==
    ASSUME NEW m \in Int, NEW n \in Int
    PROVE  /\ Smaller(m, n) \in Int /\ Smaller(m, n) <= m /\ Smaller(m, n) <= n
           /\ Smaller(m, n) = m \/ Smaller(m, n) = n
           /\ Larger(m, n) \in Int /\ Larger(m, n) >= m /\ Larger(m, n) >= n
           /\ Larger(m, n) = m \/ Larger(m, n) = n
BY DEF Smaller, Larger

(* Every amount the scheduler reckons with is a natural number. *)
LEMMA AmountsTyped ==
    ASSUME TypeOK, NEW r \in Requests
    PROVE  /\ PromptLength[r] \in Nat /\ MaxNewTokens[r] \in Nat
           /\ Priority[r] \in Priorities
           /\ EstimatedKvSize(r) \in Nat
           /\ RemainingPrefill(r) \in Nat
           /\ DesiredTokens(r) \in Nat \ {0}
           /\ budget > 0 => Grant(r) \in 1 .. budget
<1>1. PromptLength[r] \in Nat /\ MaxNewTokens[r] \in Nat
  BY ShapesAssumption
<1>2. Priority[r] \in Priorities
  BY ShapesAssumption DEF Priorities, Range
<1>3. EstimatedKvSize(r) \in Nat
  BY <1>1 DEF EstimatedKvSize
<1>4. RemainingPrefill(r) \in Nat
  <2>1. cached[r] \in Int /\ computed[r] \in Int
    BY DEF TypeOK
  <2>2. Larger(cached[r], computed[r]) \in Int
    BY <2>1, SmallerLarger
  <2>3. PromptLength[r] - Larger(cached[r], computed[r]) \in Int
    BY <1>1, <2>2
  <2> QED BY <2>3, SmallerLarger DEF RemainingPrefill
<1>5. DesiredTokens(r) \in Nat \ {0}
  BY <1>4, ChunkAssumption DEF DesiredTokens, Prefilling, Smaller
<1>6. budget > 0 => Grant(r) \in 1 .. budget
  BY <1>5 DEF Grant, Smaller, TypeOK
<1> QED BY <1>1, <1>2, <1>3, <1>4, <1>5, <1>6

LEMMA RunningTyped ==
    ASSUME TypeOK, QueuesMatchStatus, NEW i \in DOMAIN running
    PROVE  /\ i \in 1 .. Len(running)
           /\ running[i] \in Requests /\ running[i] \in Running
<1>1. i \in 1 .. Len(running)
  BY LenProperties DEF TypeOK
<1>2. running[i] \in Range(running) /\ running[i] \in Requests
  BY <1>1, RangeMembers DEF TypeOK
<1> QED BY <1>1, <1>2 DEF QueuesMatchStatus

LEMMA StepTypeOK == IInv /\ [Next]_vars => TypeOK'
<1> SUFFICES ASSUME IInv, [Next]_vars
             PROVE  TypeOK'
  OBVIOUS
<1>0. TypeOK
  BY DEF IInv
<1>1. ASSUME NEW r \in Requests, AddRequest(r) PROVE TypeOK'
  <2>1. /\ status' \in [Requests -> {"absent", "waiting", "prefill", "decode", "finished"}]
        /\ waiting' \in Seq(Requests)
    BY <1>0, <1>1 DEF AddRequest, TypeOK
  <2>2. UNCHANGED <<running, finished, cached, computed, generated, sent, finished_since,
                    policy, helper, runner_cache, pc, skipped, cursor, budget, output,
                    sampled>>
    BY <1>1 DEF AddRequest
  <2> QED BY <1>0, <2>1, <2>2 DEF TypeOK, policy, helper, output
<1>2. CASE BeginStep
  BY <1>0, <1>2 DEF BeginStep, TypeOK, Steps, queues, requests, policy, helper
<1>3. ASSUME NEW r \in Requests, NEW l \in 0 .. PromptLength[r], AdmitRequest(r, l)
      PROVE  TypeOK'
  <2>1. l \in Nat /\ EstimatedKvSize(r) \in Nat /\ Priority[r] \in Priorities
    BY <1>0, AmountsTyped
  <2>2. Tail(waiting) \in Seq(Requests) /\ Append(running, r) \in Seq(Requests)
    BY <1>0, <1>3 DEF TypeOK, AdmitRequest
  <2>3. /\ waiting' \in Seq(Requests) /\ running' \in Seq(Requests)
        /\ status' \in [Requests -> {"absent", "waiting", "prefill", "decode", "finished"}]
        /\ cached' \in [Requests -> Nat] /\ computed' \in [Requests -> Nat]
        /\ current_memory' \in Nat /\ total_running' \in Nat
        /\ tracked' \subseteq Requests
    <3>1. /\ waiting' = Tail(waiting) /\ running' = Append(running, r)
          /\ status' = [status EXCEPT ![r] = "prefill"]
          /\ cached' = [cached EXCEPT ![r] = l]
          /\ computed' = [computed EXCEPT ![r] = l]
          /\ current_memory' = current_memory + EstimatedKvSize(r)
          /\ total_running' = total_running + 1
          /\ tracked' = IF ChunkedPrefill THEN tracked \cup {r} ELSE tracked
      BY <1>3 DEF AdmitRequest
    <3>2. status' \in [Requests -> {"absent", "waiting", "prefill", "decode", "finished"}]
      BY <1>0, <3>1 DEF TypeOK
    <3>3. cached' \in [Requests -> Nat] /\ computed' \in [Requests -> Nat]
      BY <1>0, <2>1, <3>1 DEF TypeOK
    <3>4. current_memory' \in Nat /\ total_running' \in Nat
      BY <1>0, <2>1, <3>1 DEF TypeOK
    <3> QED BY <1>0, <2>2, <3>1, <3>2, <3>3, <3>4 DEF TypeOK
  <2>4. priority_counts' \in [Priorities -> Nat]
    <3>1. priority_counts' =
              [priority_counts EXCEPT ![Priority[r]] = priority_counts[Priority[r]] + 1]
      BY <1>3 DEF AdmitRequest
    <3>2. priority_counts[Priority[r]] + 1 \in Nat
      BY <1>0, <2>1 DEF TypeOK
    <3> QED BY <1>0, <2>1, <3>1, <3>2 DEF TypeOK
  <2> QED BY <1>0, <1>3, <2>3, <2>4 DEF AdmitRequest, TypeOK, output
<1>4. ASSUME NEW r \in Requests, SkipRequest(r) PROVE TypeOK'
  <2>1. Tail(waiting) \in Seq(Requests) /\ Append(skipped, r) \in Seq(Requests)
    BY <1>0, <1>4 DEF TypeOK, SkipRequest
  <2> QED BY <1>0, <1>4, <2>1 DEF SkipRequest, TypeOK, requests, policy, helper, output
<1>5. CASE EndAdmission
  <2>1. /\ pc' \in Steps /\ waiting' \in Seq(Requests) /\ skipped' \in Seq(Requests)
        /\ cursor' \in Nat /\ budget' \in Nat
    BY <1>0, <1>5, BudgetAssumption DEF EndAdmission, BackToWaiting, TypeOK, Steps
  <2>2. UNCHANGED <<running, finished, requests, finished_since, policy, helper,
                    runner_cache, output, sampled>>
    BY <1>5 DEF EndAdmission
  <2> QED BY <1>0, <2>1, <2>2 DEF TypeOK, requests, policy, helper, output
<1>6. ASSUME NEW r \in Requests, SelectRequest(r) PROVE TypeOK'
  <2>1. Grant(r) \in Nat /\ BudgetAfter(r) \in Nat
    <3>1. budget \in Nat /\ budget > 0
      BY <1>0, <1>6 DEF SelectRequest, Selecting, TypeOK
    <3>2. Grant(r) \in 1 .. budget
      BY <1>0, <3>1, AmountsTyped
    <3> QED BY <3>1, <3>2 DEF BudgetAfter
  <2>2. scheduled' \in Seq(Requests) /\ tokens' \in [Requests -> Nat]
        /\ cursor' \in Nat /\ budget' \in Nat
    BY <1>0, <1>6, <2>1 DEF SelectRequest, TypeOK
  <2> QED BY <1>0, <1>6, <2>2 DEF SelectRequest, TypeOK, queues, requests, policy, helper
<1>7. ASSUME NEW r \in Requests, PassOver(r) PROVE TypeOK'
  BY <1>0, <1>7 DEF PassOver, TypeOK, queues, requests, policy, helper, output
<1>8. ASSUME NEW r \in Requests, SelectRaises(r) PROVE TypeOK'
  BY <1>0, <1>8 DEF SelectRaises, StepEnds, TypeOK, Steps, queues, requests, policy, helper
<1>9. CASE EndSelection
  <2>1. sent' \subseteq Requests
    BY <1>0, <1>9, RangeMembers DEF EndSelection, TypeOK
  <2> QED BY <1>0, <1>9, <2>1 DEF EndSelection, TypeOK, Steps, queues, policy, helper, output
<1>10. CASE ExecuteModel
  <2>1. Range(scheduled) \subseteq Requests
    BY <1>0, RangeMembers DEF TypeOK
  <2> QED BY <1>0, <1>10, <2>1
          DEF ExecuteModel, RunnerCacheAfterStep, TypeOK, Steps, queues, requests, policy,
              helper, output
<1>11. ASSUME NEW r \in Requests, Updating(r)
       PROVE  /\ scheduled' \in Seq(Requests)
              /\ computed' \in [Requests -> Nat]
              /\ generated' \in [Requests -> Nat]
              /\ r \in Running
  <2>1. scheduled # <<>> /\ r = Head(scheduled) /\ scheduled' = Tail(scheduled)
    BY <1>11 DEF Updating
  <2>2. r \in Range(scheduled) /\ scheduled' \in Seq(Requests)
    BY <1>0, <2>1, TailInjective DEF IInv, LocalsOK, TypeOK
  <2>3. computed' \in [Requests -> Nat] /\ generated' \in [Requests -> Nat]
    <3>1. computed[r] + tokens[r] \in Nat /\ GeneratedAfter(r) \in Nat
      BY <1>0 DEF GeneratedAfter, TypeOK
    <3> QED BY <1>0, <1>11, <3>1 DEF Updating, TypeOK
  <2> QED BY <2>2, <2>3 DEF IInv, LocalsOK
<1>12. ASSUME NEW r \in Requests, UpdateUnfinished(r) PROVE TypeOK'
  <2>1. ProcessedAfter(r) \in Nat
    <3>1. RemainingPrefill(r) \in Nat
      BY <1>0, AmountsTyped
    <3>2. PrefillComputed(r) \in Nat
      BY <1>0, <3>1 DEF PrefillComputed, Smaller, TypeOK
    <3>3. TotalPrefill(r) \in Nat
      <4>1. PromptLength[r] \in Nat /\ cached[r] \in Nat
        BY <1>0, AmountsTyped DEF TypeOK
      <4>2. cached[r] <= PromptLength[r]
        BY DEF IInv, GrantsOK
      <4> QED BY <4>1, <4>2 DEF TotalPrefill
    <3> QED BY <1>0, <3>2, <3>3 DEF ProcessedAfter, Smaller, TypeOK
  <2>2. Updating(r)
    BY <1>12 DEF UpdateUnfinished
  <2> QED BY <1>0, <1>11, <1>12, <2>1, <2>2
          DEF UpdateUnfinished, Updating, TypeOK, policy, helper, queues
<1>13. ASSUME NEW r \in Requests, UpdateFinished(r) PROVE TypeOK'
  <2>1. Updating(r)
    BY <1>13 DEF UpdateFinished, FinishRequest
  <2>2. running' \in Seq(Requests)
    <3>1. r \in Range(running) /\ running \in Seq(Requests) /\ IsInjective(running)
      BY <1>0, <1>11, <2>1 DEF IInv, QueuesMatchStatus, TypeOK
    <3> QED BY <1>13, <3>1, WithoutDistinct DEF UpdateFinished, FinishRequest
  <2>3. /\ current_memory' \in Nat /\ total_running' \in Nat
        /\ priority_counts' \in [Priorities -> Nat]
    <3>1. EstimatedKvSize(r) \in Nat
      BY <1>0, AmountsTyped
    <3>2. MemoryAfter(r) \in Nat
      BY <1>0, <3>1 DEF MemoryAfter, Larger, TypeOK
    <3>3. Larger(0, total_running - 1) \in Nat
      BY <1>0 DEF Larger, TypeOK
    <3>4. Larger(0, priority_counts[Priority[r]] - 1) \in Nat
      <4>1. Priority[r] \in Priorities
        BY <1>0, AmountsTyped
      <4>2. priority_counts[Priority[r]] \in Nat
        BY <1>0, <4>1 DEF TypeOK
      <4> QED BY <4>2 DEF Larger
    <3> QED BY <1>0, <1>13, <3>2, <3>3, <3>4 DEF UpdateFinished, FinishRequest, TypeOK
  <2>4. finished' \in Seq(Requests) /\ finished_since' \subseteq Requests
        /\ tracked' \subseteq Requests /\ processed' \in [Requests -> Nat]
        /\ status' \in [Requests -> {"absent", "waiting", "prefill", "decode", "finished"}]
    BY <1>0, <1>13 DEF UpdateFinished, FinishRequest, TypeOK
  <2>5. /\ scheduled' \in Seq(Requests)
        /\ computed' \in [Requests -> Nat]
        /\ generated' \in [Requests -> Nat]
    BY <1>11, <2>1
  <2>6. UNCHANGED <<waiting, cached, sent, runner_cache, pc, skipped, cursor, budget,
                    tokens, finished_ids, sampled>>
    BY <2>1 DEF Updating
  <2> QED BY <1>0, <2>2, <2>3, <2>4, <2>5, <2>6 DEF TypeOK
<1>14. CASE EndUpdate
  BY <1>0, <1>14 DEF EndUpdate, StepEnds, TypeOK, Steps, queues, requests, policy, helper
<1>15. CASE Reset
  BY <1>0, <1>15 DEF Reset, TypeOK, output
<1>16. CASE UNCHANGED vars
  BY <1>0, <1>16 DEF vars, TypeOK
<1> QED BY <1>1, <1>2, <1>3, <1>4, <1>5, <1>6, <1>7, <1>8, <1>9, <1>10, <1>12, <1>13,
           <1>14, <1>15, <1>16 DEF Next, Advance

-----------------------------------------------------------------------------
(* Queues. *)

(* What the scan of the waiting queue starts from at each request. *)
LEMMA HeadOfWaiting ==
    ASSUME TypeOK, QueuesMatchStatus, waiting # <<>>
    PROVE  /\ Head(waiting) \in Requests /\ status[Head(waiting)] = "waiting"
           /\ Tail(waiting) \in Seq(Requests)
           /\ IsInjective(skipped \o Tail(waiting))
           /\ Range(skipped \o Tail(waiting)) = Waiting \ {Head(waiting)}
           /\ Append(skipped, Head(waiting)) \o Tail(waiting) = skipped \o waiting
<1>1. waiting \in Seq(Requests) /\ skipped \in Seq(Requests)
  BY DEF TypeOK
<1>2. /\ IsInjective(skipped) /\ IsInjective(waiting)
      /\ Range(skipped) \cap Range(waiting) = {}
      /\ Waiting = Range(skipped) \cup Range(waiting)
  BY <1>1, SplitInjective DEF QueuesMatchStatus
<1>3. /\ Head(waiting) \in Requests /\ Head(waiting) \in Range(waiting)
      /\ Tail(waiting) \in Seq(Requests) /\ IsInjective(Tail(waiting))
      /\ Range(Tail(waiting)) = Range(waiting) \ {Head(waiting)}
  BY <1>1, <1>2, TailInjective
<1>4. Range(skipped) \cap Range(Tail(waiting)) = {}
  BY <1>2, <1>3
<1>5. /\ IsInjective(skipped \o Tail(waiting))
      /\ Range(skipped \o Tail(waiting)) = Range(skipped) \cup Range(Tail(waiting))
  BY <1>1, <1>2, <1>3, <1>4, JoinInjective
<1>6. Append(skipped, Head(waiting)) \o Tail(waiting) = skipped \o waiting
  BY <1>1, <1>3
<1>7. Head(waiting) \in Waiting
  BY <1>2, <1>3
<1>8. Range(skipped \o Tail(waiting)) = Waiting \ {Head(waiting)}
  BY <1>2, <1>3, <1>5
<1> QED BY <1>3, <1>5, <1>6, <1>7, <1>8 DEF Waiting

(* The request whose output is being applied is running, and only once in    *)
(* what is left to apply.                                                     *)
LEMMA HeadOfScheduled ==
    ASSUME IInv, NEW r \in Requests, Updating(r)
    PROVE  /\ r \in Range(scheduled) /\ r \in Running /\ r \in Range(running)
           /\ scheduled' \in Seq(Requests) /\ IsInjective(scheduled')
           /\ Range(scheduled') = Range(scheduled) \ {r}
<1>1. scheduled # <<>> /\ r = Head(scheduled) /\ scheduled' = Tail(scheduled)
  BY DEF Updating
<1>2. scheduled \in Seq(Requests) /\ IsInjective(scheduled)
  BY DEF IInv, TypeOK, LocalsOK
<1> QED BY <1>1, <1>2, TailInjective DEF IInv, LocalsOK, QueuesMatchStatus

(* A running request leaves the running queue for the finished one. *)
LEMMA FinishQueues ==
    ASSUME TypeOK, QueuesMatchStatus, NEW r \in Running, FinishRequest(r),
           UNCHANGED <<waiting, skipped>>
    PROVE  QueuesMatchStatus' /\ Running' = Running \ {r}
<1>0. /\ running \in Seq(Requests) /\ finished \in Seq(Requests)
      /\ IsInjective(running) /\ IsInjective(finished)
      /\ r \in Requests /\ r \in Range(running) /\ r \notin Range(finished)
  BY DEF TypeOK, QueuesMatchStatus, Running, Finished
<1>1. /\ status' = [status EXCEPT ![r] = "finished"]
      /\ running' = Without(running, r)
      /\ finished' = Append(finished, r)
  BY <1>0 DEF FinishRequest
<1>2. /\ Waiting' = Waiting /\ Running' = Running \ {r}
      /\ Finished' = Finished \cup {r}
  BY <1>0, <1>1 DEF Waiting, Running, Finished, TypeOK
<1>3. IsInjective(running') /\ Range(running') = Running \ {r}
  BY <1>0, <1>1, WithoutDistinct DEF QueuesMatchStatus
<1>4. IsInjective(finished') /\ Range(finished') = Finished \cup {r}
  BY <1>0, <1>1, AppendDistinct DEF QueuesMatchStatus
<1> QED BY <1>2, <1>3, <1>4 DEF QueuesMatchStatus

LEMMA StepQueues == IInv /\ [Next]_vars => QueuesMatchStatus'
<1> SUFFICES ASSUME IInv, [Next]_vars
             PROVE  QueuesMatchStatus'
  OBVIOUS
<1>0. /\ TypeOK /\ QueuesMatchStatus /\ TypeOK'
      /\ waiting \in Seq(Requests) /\ running \in Seq(Requests)
      /\ finished \in Seq(Requests) /\ skipped \in Seq(Requests)
      /\ IsInjective(running) /\ IsInjective(finished)
  BY StepTypeOK DEF IInv, TypeOK, QueuesMatchStatus
<1>1. ASSUME NEW r \in Requests, AddRequest(r) PROVE QueuesMatchStatus'
  <2>1. skipped' \o waiting' = Append(skipped \o waiting, r)
    BY <1>0, <1>1 DEF AddRequest
  <2>2. skipped \o waiting \in Seq(Requests) /\ r \notin Range(skipped \o waiting)
    BY <1>0, <1>1 DEF AddRequest, QueuesMatchStatus, Waiting
  <2>3. /\ IsInjective(skipped' \o waiting')
        /\ Range(skipped' \o waiting') = Waiting \cup {r}
    <3> DEFINE q == skipped \o waiting
    <3>1. IsInjective(q) /\ Range(q) = Waiting
      BY <1>0 DEF QueuesMatchStatus
    <3> HIDE DEF q
    <3>2. IsInjective(Append(q, r)) /\ Range(Append(q, r)) = Range(q) \cup {r}
      BY <2>2, <3>1, AppendDistinct DEF q
    <3> QED BY <2>1, <3>1, <3>2 DEF q
  <2>4. Waiting' = Waiting \cup {r} /\ Running' = Running /\ Finished' = Finished
    BY <1>0, <1>1 DEF AddRequest, Waiting, Running, Finished, TypeOK
  <2> QED BY <1>0, <1>1, <2>3, <2>4 DEF AddRequest, QueuesMatchStatus
<1>2. ASSUME NEW r \in Requests, NEW l \in 0 .. PromptLength[r], AdmitRequest(r, l)
      PROVE  QueuesMatchStatus'
  <2>1. /\ waiting # <<>> /\ r = Head(waiting) /\ waiting' = Tail(waiting)
        /\ running' = Append(running, r) /\ UNCHANGED <<skipped, finished>>
        /\ status' = [status EXCEPT ![r] = "prefill"]
    BY <1>2 DEF AdmitRequest
  <2>2. status[r] = "waiting" /\ r \notin Range(running)
    BY <1>0, <2>1, HeadOfWaiting DEF QueuesMatchStatus, Running
  <2>3. /\ Waiting' = Waiting \ {r} /\ Running' = Running \cup {r}
        /\ Finished' = Finished
    BY <1>0, <2>1, <2>2 DEF Waiting, Running, Finished, TypeOK
  <2>4. IsInjective(running') /\ Range(running') = Running \cup {r}
    <3>1. /\ IsInjective(Append(running, r))
          /\ Range(Append(running, r)) = Range(running) \cup {r}
      BY <1>0, <2>2, AppendDistinct
    <3> QED BY <1>0, <2>1, <3>1 DEF QueuesMatchStatus
  <2>5. /\ IsInjective(skipped' \o waiting')
        /\ Range(skipped' \o waiting') = Waiting \ {r}
    BY <1>0, <2>1, HeadOfWaiting
  <2> QED BY <1>0, <2>1, <2>3, <2>4, <2>5 DEF QueuesMatchStatus
<1>3. ASSUME NEW r \in Requests, SkipRequest(r) PROVE QueuesMatchStatus'
  <2>1. skipped' \o waiting' = skipped \o waiting
    BY <1>0, <1>3, HeadOfWaiting DEF SkipRequest
  <2>2. UNCHANGED <<running, finished, status>>
    BY <1>3 DEF SkipRequest, requests
  <2> QED BY <1>0, <2>1, <2>2 DEF QueuesMatchStatus, Waiting, Running, Finished
<1>4. CASE EndAdmission
  <2>1. skipped' \o waiting' = skipped \o waiting
    BY <1>0, <1>4 DEF EndAdmission, BackToWaiting
  <2>2. UNCHANGED <<running, finished, status>>
    BY <1>4 DEF EndAdmission, requests
  <2> QED BY <1>0, <2>1, <2>2 DEF QueuesMatchStatus, Waiting, Running, Finished
<1>5. ASSUME NEW r \in Requests, UpdateUnfinished(r) PROVE QueuesMatchStatus'
  <2>1. Updating(r) /\ UNCHANGED <<waiting, skipped, running, finished>>
    BY <1>5 DEF UpdateUnfinished, Updating
  <2>2. /\ r \in Running
        /\ status' = [status EXCEPT ![r] = "decode"] \/ status' = status
    BY <1>5, <2>1, HeadOfScheduled DEF UpdateUnfinished
  <2>3. Waiting' = Waiting /\ Running' = Running /\ Finished' = Finished
    BY <1>0, <2>2 DEF Waiting, Running, Finished, TypeOK
  <2> QED BY <1>0, <2>1, <2>3 DEF QueuesMatchStatus
<1>6. ASSUME NEW r \in Requests, UpdateFinished(r) PROVE QueuesMatchStatus'
  <2>1. r \in Running /\ FinishRequest(r) /\ UNCHANGED <<waiting, skipped>>
    BY <1>6, HeadOfScheduled DEF UpdateFinished, Updating
  <2> QED BY <1>0, <2>1, FinishQueues
<1>7. CASE Reset
  <2>1. <<>> \o <<>> = <<>> /\ Range(<<>>) = {} /\ IsInjective(<<>>)
    BY DEF Range, IsInjective
  <2>2. /\ skipped' = <<>> /\ waiting' = <<>> /\ running' = <<>> /\ finished' = <<>>
        /\ status' = [r \in Requests |-> "absent"]
    BY <1>7 DEF Reset, IInv, LocalsOK
  <2>3. Waiting' = {} /\ Running' = {} /\ Finished' = {}
    BY <2>2 DEF Waiting, Running, Finished
  <2> QED BY <2>1, <2>2, <2>3 DEF QueuesMatchStatus
<1>8. CASE UNCHANGED <<waiting, skipped, running, finished, status>>
  BY <1>0, <1>8 DEF QueuesMatchStatus, Waiting, Running, Finished
<1>9. CASE BeginStep
  BY <1>8, <1>9 DEF BeginStep, queues, requests
<1>10. ASSUME NEW r \in Requests, SelectRequest(r) \/ PassOver(r) \/ SelectRaises(r)
       PROVE  QueuesMatchStatus'
  <2>1. skipped = <<>>
    BY <1>10 DEF SelectRequest, PassOver, SelectRaises, Selecting, IInv, LocalsOK
  <2> QED BY <1>8, <1>10, <2>1
          DEF SelectRequest, PassOver, SelectRaises, StepEnds, queues, requests
<1>11. CASE EndSelection \/ ExecuteModel \/ UNCHANGED vars
  BY <1>8, <1>11 DEF EndSelection, ExecuteModel, vars, queues, requests
<1>12. CASE EndUpdate
  <2>1. skipped = <<>>
    BY <1>12 DEF EndUpdate, IInv, LocalsOK
  <2> QED BY <1>8, <1>12, <2>1 DEF EndUpdate, StepEnds, queues, requests
<1> QED BY <1>1, <1>2, <1>3, <1>4, <1>5, <1>6, <1>7, <1>9, <1>10, <1>11, <1>12
        DEF Next, Advance

-----------------------------------------------------------------------------
(* The step in progress. *)

LEMMA StepLocals == IInv /\ [Next]_vars => LocalsOK'
<1> SUFFICES ASSUME IInv, [Next]_vars
             PROVE  LocalsOK'
  OBVIOUS
<1>0. /\ TypeOK /\ TypeOK' /\ QueuesMatchStatus /\ QueuesMatchStatus' /\ LocalsOK
      /\ IsInjective(<<>>) /\ Range(<<>>) = {} /\ <<>> \in Seq(Requests)
  BY StepTypeOK, StepQueues DEF IInv, IsInjective, Range
<1>1. ASSUME scheduled' = <<>>, pc' # "admitting" => skipped' = <<>>, pc' # "selecting"
      PROVE  LocalsOK'
  BY <1>0, <1>1 DEF LocalsOK
<1>2. ASSUME NEW r \in Requests, AddRequest(r) PROVE LocalsOK'
  BY <1>0, <1>1, <1>2 DEF AddRequest, output, LocalsOK
<1>3. CASE BeginStep
  BY <1>0, <1>1, <1>3 DEF BeginStep, LocalsOK
<1>4. ASSUME NEW r \in Requests, NEW l \in 0 .. PromptLength[r], AdmitRequest(r, l)
      PROVE  LocalsOK'
  BY <1>0, <1>1, <1>4 DEF AdmitRequest, output, LocalsOK
<1>5. ASSUME NEW r \in Requests, SkipRequest(r) PROVE LocalsOK'
  BY <1>0, <1>1, <1>5 DEF SkipRequest, output, LocalsOK
<1>6. CASE EndAdmission
  <2>1. /\ pc' = "selecting" /\ skipped' = <<>> /\ cursor' = 1 /\ running' = running
        /\ budget' = MaxNumScheduledTokens /\ scheduled' = <<>>
    BY <1>0, <1>6 DEF EndAdmission, output, LocalsOK
  <2>2. Len(running) \in Nat
    BY <1>0, LenProperties DEF TypeOK
  <2>3. 1 \in 1 .. Len(running) + 1 /\ MaxNumScheduledTokens <= MaxNumScheduledTokens
    BY <2>2, BudgetAssumption
  <2> QED BY <1>0, <2>1, <2>3 DEF LocalsOK
<1>7. ASSUME NEW r \in Requests, SelectRequest(r) PROVE LocalsOK'
  <2>1. /\ pc = "selecting" /\ pc' = pc /\ budget > 0 /\ cursor \in DOMAIN running
        /\ r = running[cursor] /\ scheduled' = Append(scheduled, r)
        /\ cursor' = cursor + 1 /\ budget' = budget - Grant(r)
        /\ UNCHANGED <<running, status, skipped>>
    BY <1>7 DEF SelectRequest, Selecting, BudgetAfter, queues, requests
  <2>2. /\ cursor \in 1 .. Len(running) /\ r \in Running
        /\ running \in Seq(Requests) /\ scheduled \in Seq(Requests)
        /\ Len(running) \in Nat
    BY <1>0, <2>1, RunningTyped, LenProperties DEF TypeOK
  <2>3. r \notin Range(scheduled)
    <3> SUFFICES ASSUME r \in Range(scheduled) PROVE FALSE
      OBVIOUS
    <3>1. PICK j \in 1 .. cursor - 1 : running[j] = r
      BY <1>0, <2>1 DEF LocalsOK
    <3>2. j \in 1 .. Len(running) /\ j # cursor
      BY <2>2, <3>1
    <3>3. \A m, n \in 1 .. Len(running) : running[m] = running[n] => m = n
      BY <1>0, <2>2, InjectiveMembers DEF QueuesMatchStatus
    <3> QED BY <2>1, <2>2, <3>1, <3>2, <3>3
  <2>4. IsInjective(scheduled') /\ Range(scheduled') = Range(scheduled) \cup {r}
    <3>1. IsInjective(scheduled)
      BY <1>0 DEF LocalsOK
    <3>2. /\ IsInjective(Append(scheduled, r))
          /\ Range(Append(scheduled, r)) = Range(scheduled) \cup {r}
      BY <2>2, <2>3, <3>1, AppendDistinct
    <3> QED BY <2>1, <3>2
  <2>5. cursor' \in 1 .. Len(running') + 1 /\ budget' <= MaxNumScheduledTokens
    <3>1. Grant(r) \in 1 .. budget /\ budget \in Nat /\ budget <= MaxNumScheduledTokens
      BY <1>0, <2>1, AmountsTyped DEF TypeOK, LocalsOK
    <3> QED BY <2>1, <2>2, <3>1, BudgetAssumption
  <2>6. ASSUME NEW s \in Range(scheduled')
        PROVE  \E j \in 1 .. cursor' - 1 : running'[j] = s
    <3>1. CASE s = r
      <4>1. cursor \in 1 .. cursor' - 1 /\ running'[cursor] = s
        BY <2>1, <2>2, <3>1
      <4> QED BY <4>1
    <3>2. CASE s \in Range(scheduled)
      <4>1. PICK j \in 1 .. cursor - 1 : running[j] = s
        BY <1>0, <2>1, <3>2 DEF LocalsOK
      <4>2. j \in 1 .. cursor' - 1 /\ running'[j] = s
        BY <2>1, <2>2, <4>1
      <4> QED BY <4>2
    <3> QED BY <2>4, <3>1, <3>2
  <2>7. Range(scheduled') \subseteq Running' /\ skipped' = <<>>
    BY <1>0, <2>1, <2>2, <2>4 DEF LocalsOK, Running
  <2> QED BY <2>1, <2>4, <2>5, <2>6, <2>7 DEF LocalsOK
<1>8. ASSUME NEW r \in Requests, PassOver(r) PROVE LocalsOK'
  <2>1. /\ pc = "selecting" /\ pc' = pc /\ cursor \in DOMAIN running /\ cursor' = cursor + 1
        /\ UNCHANGED <<running, status, skipped, scheduled, budget>>
    BY <1>8 DEF PassOver, Selecting, queues, requests, output
  <2>2. cursor \in 1 .. Len(running) /\ Len(running) \in Nat
    BY <1>0, <2>1, RunningTyped, LenProperties DEF TypeOK
  <2>3. cursor' \in 1 .. Len(running') + 1
    BY <2>1, <2>2
  <2>4. ASSUME NEW s \in Range(scheduled')
        PROVE  \E j \in 1 .. cursor' - 1 : running'[j] = s
    <3>1. PICK j \in 1 .. cursor - 1 : running[j] = s
      BY <1>0, <2>1 DEF LocalsOK
    <3>2. j \in 1 .. cursor' - 1 /\ running'[j] = s
      BY <2>1, <2>2, <3>1
    <3> QED BY <3>2
  <2>5. Running' = Running
    BY <2>1 DEF Running
  <2> QED BY <1>0, <2>1, <2>3, <2>4, <2>5 DEF LocalsOK
<1>9. ASSUME NEW r \in Requests, SelectRaises(r) PROVE LocalsOK'
  BY <1>0, <1>1, <1>9 DEF SelectRaises, StepEnds
<1>10. CASE EndSelection \/ ExecuteModel
  <2>1. /\ pc \notin {"idle", "admitting"} /\ pc' \in {"executing", "updating"}
        /\ UNCHANGED <<scheduled, skipped, status>>
    BY <1>10 DEF EndSelection, ExecuteModel, requests, output
  <2> QED BY <1>0, <2>1 DEF LocalsOK, Running
<1>11. ASSUME NEW r \in Requests, UpdateUnfinished(r) \/ UpdateFinished(r)
       PROVE  LocalsOK'
  <2>1. Updating(r) /\ pc = "updating" /\ UNCHANGED <<pc, skipped>>
    BY <1>11 DEF UpdateUnfinished, UpdateFinished, FinishRequest, Updating
  <2>2. IsInjective(scheduled') /\ Range(scheduled') = Range(scheduled) \ {r}
    BY <2>1, HeadOfScheduled
  <2>3. \A s \in Requests \ {r} : status'[s] = status[s]
    BY <1>0, <1>11 DEF UpdateUnfinished, UpdateFinished, FinishRequest, TypeOK
  <2>4. Running \ {r} \subseteq Running'
    BY <2>3 DEF Running
  <2> QED BY <1>0, <2>1, <2>2, <2>4 DEF LocalsOK
<1>12. CASE EndUpdate
  BY <1>0, <1>1, <1>12 DEF EndUpdate, StepEnds
<1>13. CASE Reset
  BY <1>0, <1>1, <1>13 DEF Reset, LocalsOK, output
<1>14. CASE UNCHANGED vars
  BY <1>0, <1>14 DEF vars, LocalsOK, Running
<1> QED BY <1>2, <1>3, <1>4, <1>5, <1>6, <1>7, <1>8, <1>9, <1>10, <1>11, <1>12, <1>13,
           <1>14 DEF Next, Advance

-----------------------------------------------------------------------------
(* The books of the policy. *)

AtLevel(p) == {r \in Running : Priority[r] = p}

LEMMA LevelsFinite ==
    ASSUME NEW p
    PROVE  IsFiniteSet(AtLevel(p)) /\ Cardinality(AtLevel(p)) \in Nat
<1>1. AtLevel(p) \subseteq Requests
  BY DEF AtLevel, Running
<1> QED BY <1>1, RequestsAssumption, FS_Subset, FS_CardinalityType

(* One that finishes is taken off the books of its level. *)
LEMMA FinishCounts ==
    ASSUME TypeOK, QueuesMatchStatus, CountsMatchRunning, NEW r \in Running,
           FinishRequest(r)
    PROVE  CountsMatchRunning'
<1>1. /\ running' = Without(running, r)
      /\ status' = [status EXCEPT ![r] = "finished"]
      /\ total_running' = Larger(0, total_running - 1)
      /\ priority_counts' = [priority_counts EXCEPT ![Priority[r]] =
                                 Larger(0, priority_counts[Priority[r]] - 1)]
  BY DEF FinishRequest
<1>2. r \in Requests /\ r \in Range(running) /\ Priority[r] \in Priorities
  BY AmountsTyped DEF QueuesMatchStatus, Running
<1>3. \A p : AtLevel(p)' = IF p = Priority[r] THEN AtLevel(p) \ {r} ELSE AtLevel(p)
  <2>1. Running' = Running \ {r}
    BY <1>1, <1>2 DEF Running, TypeOK
  <2> QED BY <1>2, <2>1 DEF AtLevel
<1>4. total_running' = Len(running') /\ total_running' <= MaxNumSeqs
  <2>1. running \in Seq(Requests) /\ IsInjective(running)
    BY DEF TypeOK, QueuesMatchStatus
  <2>2. Len(running') = Len(running) - 1 /\ running' \in Seq(Requests)
    BY <1>1, <1>2, <2>1, WithoutDistinct
  <2>3. Len(running') \in Nat /\ Len(running) \in Nat
    BY <2>1, <2>2, LenProperties
  <2>4. total_running = Len(running) /\ total_running <= MaxNumSeqs
    BY DEF CountsMatchRunning
  <2> QED BY <1>1, <2>2, <2>3, <2>4, PolicyAssumption DEF Larger
<1>5. ASSUME NEW p \in Priorities
      PROVE  priority_counts'[p] = Cardinality(AtLevel(p)')
             /\ priority_counts'[p] <= MaxPerPriority
  <2>1. /\ priority_counts[p] = Cardinality(AtLevel(p))
        /\ priority_counts[p] <= MaxPerPriority /\ priority_counts[p] \in Nat
    BY DEF CountsMatchRunning, AtLevel, TypeOK
  <2>2. CASE p = Priority[r]
    <3>1. priority_counts'[p] = Larger(0, priority_counts[p] - 1)
      BY <1>1, <2>2 DEF TypeOK
    <3>2. r \in AtLevel(p)
      BY <2>2 DEF AtLevel
    <3>3. /\ Cardinality(AtLevel(p) \ {r}) = Cardinality(AtLevel(p)) - 1
          /\ Cardinality(AtLevel(p)) \in Nat /\ Cardinality(AtLevel(p)) # 0
      BY <3>2, LevelsFinite, FS_RemoveElement, FS_EmptySet
    <3> QED BY <1>3, <2>1, <2>2, <3>1, <3>3, PolicyAssumption DEF Larger
  <2>3. CASE p # Priority[r]
    <3>1. priority_counts'[p] = priority_counts[p]
      BY <1>1, <2>3 DEF TypeOK
    <3> QED BY <1>3, <2>1, <2>3, <3>1
  <2> QED BY <2>2, <2>3
<1> QED BY <1>4, <1>5 DEF CountsMatchRunning, AtLevel

LEMMA StepCounts == IInv /\ [Next]_vars => CountsMatchRunning'
<1> SUFFICES ASSUME IInv, [Next]_vars
             PROVE  CountsMatchRunning'
  OBVIOUS
<1>0. TypeOK /\ TypeOK' /\ QueuesMatchStatus /\ CountsMatchRunning
  BY StepTypeOK DEF IInv
<1>1. ASSUME UNCHANGED <<running, total_running, priority_counts>>, Running' = Running
      PROVE  CountsMatchRunning'
  BY <1>0, <1>1 DEF CountsMatchRunning
<1>2. ASSUME NEW r \in Requests, AddRequest(r) PROVE CountsMatchRunning'
  <2>1. Running' = Running
    BY <1>0, <1>2 DEF AddRequest, Running, TypeOK
  <2> QED BY <1>1, <1>2, <2>1 DEF AddRequest, policy
<1>3. ASSUME NEW r \in Requests, NEW l \in 0 .. PromptLength[r], AdmitRequest(r, l)
      PROVE  CountsMatchRunning'
  <2>1. /\ r = Head(waiting) /\ waiting # <<>> /\ running' = Append(running, r)
        /\ status' = [status EXCEPT ![r] = "prefill"]
        /\ total_running' = total_running + 1 /\ total_running < MaxNumSeqs
        /\ priority_counts' =
               [priority_counts EXCEPT ![Priority[r]] = priority_counts[Priority[r]] + 1]
        /\ priority_counts[Priority[r]] < MaxPerPriority
    BY <1>3 DEF AdmitRequest, CanAdmit
  <2>2. /\ r \notin Running /\ Priority[r] \in Priorities
        /\ \A p : AtLevel(p)' = IF p = Priority[r] THEN AtLevel(p) \cup {r} ELSE AtLevel(p)
    <3>1. status[r] = "waiting" /\ Priority[r] \in Priorities
      BY <1>0, <2>1, HeadOfWaiting, AmountsTyped
    <3>2. r \notin Running /\ Running' = Running \cup {r}
      <4>1. status' = [status EXCEPT ![r] = "prefill"]
        BY <2>1
      <4> QED BY <1>0, <3>1, <4>1 DEF Running, TypeOK
    <3> QED BY <3>1, <3>2 DEF AtLevel
  <2>3. total_running' = Len(running') /\ total_running' <= MaxNumSeqs
    BY <1>0, <2>1, PolicyAssumption DEF CountsMatchRunning, TypeOK
  <2>4. ASSUME NEW p \in Priorities
        PROVE  priority_counts'[p] = Cardinality(AtLevel(p)')
               /\ priority_counts'[p] <= MaxPerPriority
    <3>1. /\ priority_counts[p] = Cardinality(AtLevel(p))
          /\ priority_counts[p] <= MaxPerPriority /\ priority_counts[p] \in Nat
      BY <1>0 DEF CountsMatchRunning, AtLevel, TypeOK
    <3>2. CASE p = Priority[r]
      <4>1. priority_counts'[p] = priority_counts[p] + 1
        BY <1>0, <2>1, <3>2 DEF TypeOK
      <4>2. r \notin AtLevel(p)
        BY <2>2 DEF AtLevel
      <4>3. Cardinality(AtLevel(p) \cup {r}) = Cardinality(AtLevel(p)) + 1
        BY <4>2, LevelsFinite, FS_AddElement
      <4>4. AtLevel(p)' = AtLevel(p) \cup {r} /\ priority_counts[p] < MaxPerPriority
        BY <2>1, <2>2, <3>2
      <4> QED BY <3>1, <4>1, <4>3, <4>4, PolicyAssumption
    <3>3. CASE p # Priority[r]
      <4>1. priority_counts'[p] = priority_counts[p]
        BY <1>0, <2>1, <3>3 DEF TypeOK
      <4> QED BY <2>2, <3>1, <3>3, <4>1
    <3> QED BY <3>2, <3>3
  <2> QED BY <2>3, <2>4 DEF CountsMatchRunning, AtLevel
<1>4. ASSUME NEW r \in Requests, UpdateUnfinished(r) PROVE CountsMatchRunning'
  <2>1. r \in Running /\ (status' = [status EXCEPT ![r] = "decode"] \/ status' = status)
    BY <1>4, HeadOfScheduled DEF UpdateUnfinished
  <2>2. Running' = Running
    BY <1>0, <2>1 DEF Running, TypeOK
  <2> QED BY <1>1, <1>4, <2>2 DEF UpdateUnfinished, policy
<1>5. ASSUME NEW r \in Requests, UpdateFinished(r) PROVE CountsMatchRunning'
  BY <1>0, <1>5, HeadOfScheduled, FinishCounts DEF UpdateFinished
<1>6. CASE Reset
  <2>1. /\ running' = <<>> /\ total_running' = 0
        /\ priority_counts' = [p \in Priorities |-> 0]
        /\ status' = [r \in Requests |-> "absent"]
    BY <1>6 DEF Reset
  <2>2. Running' = {} /\ Len(<<>>) = 0
    BY <2>1 DEF Running
  <2>3. \A p \in Priorities : {r \in Running' : Priority[r] = p} = {}
    BY <2>2
  <2> QED BY <2>1, <2>2, <2>3, PolicyAssumption, FS_EmptySet DEF CountsMatchRunning
<1>7. CASE BeginStep \/ EndAdmission \/ EndSelection \/ ExecuteModel \/ EndUpdate
  BY <1>1, <1>7 DEF BeginStep, EndAdmission, EndSelection, ExecuteModel, EndUpdate,
                    queues, requests, policy, Running
<1>8. ASSUME NEW r \in Requests,
             SkipRequest(r) \/ SelectRequest(r) \/ PassOver(r) \/ SelectRaises(r)
      PROVE  CountsMatchRunning'
  BY <1>1, <1>8 DEF SkipRequest, SelectRequest, PassOver, SelectRaises, queues,
                    requests, policy, Running
<1>9. CASE UNCHANGED vars
  BY <1>1, <1>9 DEF vars, Running
<1> QED BY <1>2, <1>3, <1>4, <1>5, <1>6, <1>7, <1>8, <1>9 DEF Next, Advance

-----------------------------------------------------------------------------
(* Computed and generated tokens. *)

LEMMA RemainingFacts ==
    ASSUME TypeOK, NEW r \in Requests, cached[r] <= PromptLength[r],
           cached[r] <= computed[r]
    PROVE  RemainingPrefill(r) = IF computed[r] < PromptLength[r]
                                 THEN PromptLength[r] - computed[r] ELSE 0
<1>1. cached[r] \in Nat /\ computed[r] \in Nat /\ PromptLength[r] \in Nat
  BY AmountsTyped DEF TypeOK
<1>2. Larger(cached[r], computed[r]) = computed[r]
  BY <1>1 DEF Larger
<1> QED BY <1>1, <1>2 DEF RemainingPrefill, Larger

(* A request gets what it lacks at most, and one token when it lacks none. *)
LEMMA GrantFacts ==
    ASSUME TypeOK, NEW r \in Requests, budget > 0
    PROVE  /\ Grant(r) > 0
           /\ IF Prefilling(r) THEN Grant(r) <= RemainingPrefill(r) ELSE Grant(r) = 1
<1>1. /\ Grant(r) \in 1 .. budget /\ budget \in Nat
      /\ RemainingPrefill(r) \in Nat /\ DesiredTokens(r) \in Nat
  BY AmountsTyped DEF TypeOK
<1>2. Grant(r) <= DesiredTokens(r)
  BY <1>1, SmallerLarger DEF Grant
<1>3. Prefilling(r) => DesiredTokens(r) <= RemainingPrefill(r)
  BY <1>1, ChunkAssumption, SmallerLarger DEF DesiredTokens
<1>4. ~Prefilling(r) => DesiredTokens(r) = 1
  BY DEF DesiredTokens
<1> QED BY <1>1, <1>2, <1>3, <1>4

(* What a step computed for a request, by the phase it was in. *)
LEMMA UpdateFacts ==
    ASSUME IInv, NEW r \in Requests, Updating(r)
    PROVE  /\ r \in sampled <=> computed[r] + tokens[r] >= PromptLength[r]
           /\ status[r] = "prefill" =>
                  \/ computed[r] < PromptLength[r] /\ tokens[r] \in 1 .. PromptLength[r] - computed[r]
                  \/ computed[r] = PromptLength[r] /\ cached[r] = PromptLength[r] /\ tokens[r] = 1
           /\ status[r] = "decode" => tokens[r] = 1
           /\ status[r] \in {"prefill", "decode"}
           /\ computed' = [computed EXCEPT ![r] = computed[r] + tokens[r]]
           /\ generated' = [generated EXCEPT ![r] = IF r \in sampled THEN generated[r] + 1
                                                                    ELSE generated[r]]
           /\ cached' = cached
<1>0. TypeOK /\ GrantsOK /\ ComputedMatchesGenerated
  BY DEF IInv
<1>1. r \in Range(scheduled) /\ r \in Running /\ pc = "updating"
  BY HeadOfScheduled DEF Updating
<1>2. /\ r \in sampled <=> ReachesSamplingPoint(r)
      /\ tokens[r] > 0
      /\ IF Prefilling(r) THEN tokens[r] <= RemainingPrefill(r) ELSE tokens[r] = 1
      /\ cached[r] <= PromptLength[r]
      /\ status[r] = "prefill" => cached[r] <= computed[r]
  BY <1>0, <1>1 DEF GrantsOK
<1>3. /\ cached[r] \in Nat /\ computed[r] \in Nat /\ PromptLength[r] \in Nat
      /\ tokens[r] \in Nat
  BY <1>0, AmountsTyped DEF TypeOK
<1>4. ASSUME status[r] = "prefill"
      PROVE  \/ computed[r] < PromptLength[r] /\ tokens[r] \in 1 .. PromptLength[r] - computed[r]
             \/ computed[r] = PromptLength[r] /\ cached[r] = PromptLength[r] /\ tokens[r] = 1
  <2>1. RemainingPrefill(r) = IF computed[r] < PromptLength[r]
                              THEN PromptLength[r] - computed[r] ELSE 0
    BY <1>0, <1>2, <1>4, RemainingFacts
  <2>2. computed[r] < PromptLength[r] \/ computed[r] = cached[r]
    BY <1>0, <1>4 DEF ComputedMatchesGenerated, CountsAgree
  <2>3. Prefilling(r) <=> computed[r] < PromptLength[r]
    BY <1>3, <1>4, <2>1 DEF Prefilling
  <2> QED BY <1>2, <1>3, <2>1, <2>2, <2>3
<1>5. status[r] = "decode" => tokens[r] = 1
  BY <1>2 DEF Prefilling
<1>6. status[r] \in {"prefill", "decode"}
  BY <1>1 DEF Running
<1>7. /\ computed' = [computed EXCEPT ![r] = computed[r] + tokens[r]]
      /\ generated' = [generated EXCEPT ![r] = IF r \in sampled THEN generated[r] + 1
                                                               ELSE generated[r]]
      /\ cached' = cached
  BY DEF Updating, GeneratedAfter
<1> QED BY <1>2, <1>4, <1>5, <1>6, <1>7 DEF ReachesSamplingPoint

LEMMA StepProgress == IInv /\ [Next]_vars => ComputedMatchesGenerated' /\ GrantsOK'
<1> SUFFICES ASSUME IInv, [Next]_vars
             PROVE  ComputedMatchesGenerated' /\ GrantsOK'
  OBVIOUS
<1>0. /\ TypeOK /\ TypeOK' /\ QueuesMatchStatus /\ LocalsOK
      /\ ComputedMatchesGenerated /\ GrantsOK
  BY StepTypeOK DEF IInv
<1>1. ASSUME UNCHANGED <<status, cached, computed, generated>>
      PROVE  ComputedMatchesGenerated'
  BY <1>0, <1>1 DEF ComputedMatchesGenerated, CountsAgree
<1>2. ASSUME UNCHANGED <<cached, computed>>, scheduled' = <<>>,
             \A r \in Requests : status'[r] = "prefill" => status[r] = "prefill"
      PROVE  GrantsOK'
  <2>1. Range(<<>>) = {}
    BY DEF Range
  <2> QED BY <1>0, <1>2, <2>1 DEF GrantsOK
<1>3. ASSUME NEW r \in Requests, AddRequest(r)
      PROVE  ComputedMatchesGenerated' /\ GrantsOK'
  <2>1. /\ status[r] = "absent" /\ status' = [status EXCEPT ![r] = "waiting"]
        /\ UNCHANGED <<cached, computed, generated, scheduled>> /\ scheduled = <<>>
    BY <1>0, <1>3 DEF AddRequest, LocalsOK, output
  <2>2. ComputedMatchesGenerated'
    BY <1>0, <2>1 DEF ComputedMatchesGenerated, CountsAgree, TypeOK
  <2>3. \A s \in Requests : status'[s] = "prefill" => status[s] = "prefill"
    BY <1>0, <2>1 DEF TypeOK
  <2> QED BY <1>2, <2>1, <2>2, <2>3
<1>4. ASSUME NEW r \in Requests, NEW l \in 0 .. PromptLength[r], AdmitRequest(r, l)
      PROVE  ComputedMatchesGenerated' /\ GrantsOK'
  <2>1. /\ waiting # <<>> /\ r = Head(waiting)
        /\ status' = [status EXCEPT ![r] = "prefill"]
        /\ cached' = [cached EXCEPT ![r] = l]
        /\ computed' = [computed EXCEPT ![r] = l]
        /\ generated' = generated /\ scheduled' = scheduled /\ pc' = pc
        /\ pc = "admitting" /\ scheduled = <<>>
    BY <1>0, <1>4 DEF AdmitRequest, LocalsOK, output
  <2>2. status[r] = "waiting" /\ l \in Nat /\ l <= PromptLength[r]
    BY <1>0, <2>1, HeadOfWaiting, AmountsTyped
  <2>3. generated[r] = 0
    BY <1>0, <2>2 DEF ComputedMatchesGenerated, CountsAgree
  <2>4. ComputedMatchesGenerated'
    <3> SUFFICES ASSUME NEW s \in Requests
                 PROVE  CountsAgree(s)'
      BY DEF ComputedMatchesGenerated
    <3>1. CASE s = r
      BY <1>0, <2>1, <2>2, <2>3, <3>1 DEF TypeOK, CountsAgree
    <3>2. CASE s # r
      <4>1. /\ status'[s] = status[s] /\ cached'[s] = cached[s]
            /\ computed'[s] = computed[s] /\ generated'[s] = generated[s]
        BY <1>0, <2>1, <3>2 DEF TypeOK
      <4> QED BY <1>0, <4>1 DEF ComputedMatchesGenerated, CountsAgree
    <3> QED BY <3>1, <3>2
  <2>5. GrantsOK'
    <3>1. Range(scheduled') = {}
      BY <2>1 DEF Range
    <3>2. ASSUME NEW s \in Requests
          PROVE  /\ cached'[s] <= PromptLength[s]
                 /\ status'[s] = "prefill" => cached'[s] <= computed'[s]
      <4>1. CASE s = r
        <5>1. cached'[s] = l /\ computed'[s] = l
          BY <1>0, <2>1, <4>1 DEF TypeOK
        <5> QED BY <2>2, <4>1, <5>1
      <4>2. CASE s # r
        <5>1. /\ status'[s] = status[s] /\ cached'[s] = cached[s]
              /\ computed'[s] = computed[s]
          BY <1>0, <2>1, <4>2 DEF TypeOK
        <5> QED BY <1>0, <5>1 DEF GrantsOK
      <4> QED BY <4>1, <4>2
    <3> QED BY <2>1, <3>1, <3>2 DEF GrantsOK
  <2> QED BY <2>4, <2>5
<1>5. CASE EndAdmission
  <2>1. /\ UNCHANGED <<status, cached, computed, generated>>
        /\ scheduled' = <<>>
    BY <1>0, <1>5 DEF EndAdmission, LocalsOK, requests, output
  <2> QED BY <1>1, <1>2, <2>1
<1>6. ASSUME NEW r \in Requests, SelectRequest(r)
      PROVE  ComputedMatchesGenerated' /\ GrantsOK'
  <2>1. /\ pc = "selecting" /\ pc' = pc /\ budget > 0
        /\ scheduled' = Append(scheduled, r)
        /\ tokens' = [tokens EXCEPT ![r] = Grant(r)]
        /\ UNCHANGED <<status, cached, computed, generated>>
    BY <1>6 DEF SelectRequest, Selecting, requests
  <2>2. Range(scheduled') = Range(scheduled) \cup {r}
    <3>1. scheduled \in Seq(Requests) /\ <<r>> \in Seq(Requests)
      BY <1>0 DEF TypeOK
    <3>2. Range(<<r>>) = {r}
      BY DEF Range
    <3>3. Append(scheduled, r) = scheduled \o <<r>>
      BY <3>1, AppendIsConcat
    <3>4. Range(scheduled \o <<r>>) = Range(scheduled) \cup Range(<<r>>)
      BY <3>1, RangeConcatenation
    <3> QED BY <2>1, <3>2, <3>3, <3>4
  <2>3. ASSUME NEW s \in Requests
        PROVE  Prefilling(s)' = Prefilling(s) /\ RemainingPrefill(s)' = RemainingPrefill(s)
    BY <2>1 DEF Prefilling, RemainingPrefill
  <2>4. ASSUME NEW s \in Range(scheduled')
        PROVE  /\ tokens'[s] > 0
               /\ IF Prefilling(s)' THEN tokens'[s] <= RemainingPrefill(s)' ELSE tokens'[s] = 1
    <3>1. s \in Requests
      BY <1>0, RangeMembers DEF TypeOK
    <3>2. CASE s = r
      <4>1. tokens'[s] = Grant(r)
        BY <1>0, <2>1, <3>2 DEF TypeOK
      <4> QED BY <1>0, <2>1, <2>3, <3>2, <4>1, GrantFacts
    <3>3. CASE s # r
      <4>1. tokens'[s] = tokens[s] /\ s \in Range(scheduled)
        BY <1>0, <2>1, <2>2, <3>1, <3>3 DEF TypeOK
      <4> QED BY <1>0, <2>3, <3>1, <4>1 DEF GrantsOK
    <3> QED BY <3>2, <3>3
  <2>5. GrantsOK'
    <3>1. pc' # "updating"
      BY <2>1
    <3> QED BY <1>0, <2>1, <2>4, <3>1 DEF GrantsOK
  <2> QED BY <1>1, <2>1, <2>5
<1>7. ASSUME UNCHANGED <<status, cached, computed, generated, scheduled, tokens>>,
             pc' = "updating" => sampled' = {r \in Range(scheduled) : ReachesSamplingPoint(r)}
      PROVE  ComputedMatchesGenerated' /\ GrantsOK'
  <2>1. \A r \in Requests : /\ Prefilling(r)' = Prefilling(r)
                            /\ RemainingPrefill(r)' = RemainingPrefill(r)
                            /\ ReachesSamplingPoint(r)' = ReachesSamplingPoint(r)
    BY <1>7 DEF Prefilling, RemainingPrefill, ReachesSamplingPoint
  <2>2. Range(scheduled) \subseteq Requests
    BY <1>0, RangeMembers DEF TypeOK
  <2>3. GrantsOK'
    BY <1>0, <1>7, <2>1, <2>2 DEF GrantsOK
  <2> QED BY <1>1, <1>7, <2>3
<1>8. ASSUME NEW r \in Requests, PassOver(r)
      PROVE  ComputedMatchesGenerated' /\ GrantsOK'
  BY <1>7, <1>8 DEF PassOver, Selecting, requests, output
<1>9. ASSUME NEW r \in Requests, SkipRequest(r)
      PROVE  ComputedMatchesGenerated' /\ GrantsOK'
  BY <1>7, <1>9 DEF SkipRequest, requests, output
<1>10. CASE BeginStep \/ EndSelection \/ ExecuteModel
  BY <1>7, <1>10 DEF BeginStep, EndSelection, ExecuteModel, requests, output
<1>11. ASSUME NEW r \in Requests, SelectRaises(r)
       PROVE  ComputedMatchesGenerated' /\ GrantsOK'
  BY <1>1, <1>2, <1>11 DEF SelectRaises, StepEnds, requests
<1>12. CASE EndUpdate
  BY <1>1, <1>2, <1>12 DEF EndUpdate, StepEnds, requests
<1>13. ASSUME NEW r \in Requests, UpdateUnfinished(r) \/ UpdateFinished(r)
       PROVE  ComputedMatchesGenerated' /\ GrantsOK'
  <2>1. /\ Updating(r) /\ pc = "updating" /\ UNCHANGED <<pc, tokens, sampled>>
        /\ \/ /\ ~IsFinishedWith(r, GeneratedAfter(r))
              /\ status' = IF r \in sampled THEN [status EXCEPT ![r] = "decode"] ELSE status
           \/ status' = [status EXCEPT ![r] = "finished"]
    BY <1>13 DEF UpdateUnfinished, UpdateFinished, FinishRequest, Updating
  <2>2. ASSUME NEW s \in Requests \ {r}
        PROVE  /\ status'[s] = status[s] /\ cached'[s] = cached[s]
               /\ computed'[s] = computed[s] /\ generated'[s] = generated[s]
    <3>1. /\ computed' = [computed EXCEPT ![r] = computed[r] + tokens[r]]
          /\ generated' = [generated EXCEPT ![r] = IF r \in sampled
                                                  THEN generated[r] + 1 ELSE generated[r]]
          /\ cached' = cached
      BY <1>0, <2>1, UpdateFacts
    <3>2. /\ computed'[s] = computed[s] /\ generated'[s] = generated[s]
          /\ cached'[s] = cached[s]
      BY <1>0, <3>1 DEF TypeOK
    <3>3. status'[s] = status[s]
      BY <1>0, <2>1 DEF TypeOK
    <3> QED BY <3>2, <3>3
  <2>3. /\ cached[r] \in Nat /\ computed[r] \in Nat /\ PromptLength[r] \in Nat
        /\ tokens[r] \in Nat /\ generated[r] \in Nat /\ MaxNewTokens[r] \in Nat
        /\ cached[r] <= PromptLength[r] /\ CountsAgree(r)
    BY <1>0, AmountsTyped DEF TypeOK, GrantsOK, ComputedMatchesGenerated
  <2>4. /\ computed'[r] = computed[r] + tokens[r] /\ cached'[r] = cached[r]
        /\ generated'[r] = IF r \in sampled THEN generated[r] + 1 ELSE generated[r]
    BY <1>0, <2>1, UpdateFacts DEF TypeOK
  <2>5. \/ status'[r] = "finished"
        \/ /\ ~(generated'[r] >= MaxNewTokens[r])
           /\ status'[r] = IF r \in sampled THEN "decode" ELSE status[r]
    BY <1>0, <2>1, <2>4 DEF IsFinishedWith, GeneratedAfter, TypeOK
  <2>6. CountsAgree(r)'
    <3>1. CASE status[r] = "prefill" /\ computed[r] < PromptLength[r]
      <4>1. /\ tokens[r] \in 1 .. PromptLength[r] - computed[r]
            /\ r \in sampled <=> computed[r] + tokens[r] >= PromptLength[r]
        BY <2>1, <2>3, <3>1, UpdateFacts
      <4>2. generated[r] = 0 /\ cached[r] <= computed[r]
        BY <1>0, <2>3, <3>1 DEF CountsAgree, GrantsOK
      <4> QED BY <2>3, <2>4, <2>5, <3>1, <4>1, <4>2 DEF CountsAgree
    <3>2. CASE status[r] = "prefill" /\ ~(computed[r] < PromptLength[r])
      <4>1. /\ computed[r] = PromptLength[r] /\ cached[r] = PromptLength[r]
            /\ tokens[r] = 1 /\ r \in sampled
        BY <2>1, <2>3, <3>2, UpdateFacts
      <4> QED BY <2>3, <2>4, <2>5, <3>2, <4>1 DEF CountsAgree
    <3>3. CASE status[r] = "decode"
      <4>1. /\ tokens[r] = 1
            /\ r \in sampled <=> computed[r] + tokens[r] >= PromptLength[r]
        BY <2>1, <3>3, UpdateFacts
      <4>2. 0 < generated[r] /\ computed[r] = PromptLength[r] + generated[r]
                                - (IF cached[r] = PromptLength[r] THEN 0 ELSE 1)
        BY <2>3, <3>3 DEF CountsAgree
      <4> QED BY <2>3, <2>4, <2>5, <3>3, <4>1, <4>2 DEF CountsAgree
    <3> QED BY <2>1, <3>1, <3>2, <3>3, UpdateFacts
  <2>7. ComputedMatchesGenerated'
    <3>1. \A s \in Requests \ {r} : CountsAgree(s)'
      BY <1>0, <2>2 DEF ComputedMatchesGenerated, CountsAgree
    <3> QED BY <2>6, <3>1 DEF ComputedMatchesGenerated
  <2>8. status'[r] = "prefill" => cached'[r] <= computed'[r]
    <3>1. status'[r] = "prefill" => status[r] = "prefill"
      BY <2>5
    <3> QED BY <1>0, <2>3, <2>4, <3>1 DEF GrantsOK
  <2>9. ASSUME NEW s \in Range(scheduled')
        PROVE  /\ tokens'[s] > 0
               /\ IF Prefilling(s)' THEN tokens'[s] <= RemainingPrefill(s)' ELSE tokens'[s] = 1
               /\ s \in sampled' <=> ReachesSamplingPoint(s)'
    <3>1. s \in Range(scheduled) /\ s \in Requests \ {r}
      BY <1>0, <2>1, HeadOfScheduled DEF LocalsOK, Running
    <3>2. /\ Prefilling(s)' = Prefilling(s) /\ RemainingPrefill(s)' = RemainingPrefill(s)
          /\ ReachesSamplingPoint(s)' = ReachesSamplingPoint(s)
      BY <2>1, <2>2, <3>1 DEF Prefilling, RemainingPrefill, ReachesSamplingPoint
    <3> QED BY <1>0, <2>1, <3>1, <3>2 DEF GrantsOK
  <2>10. GrantsOK'
    BY <1>0, <2>2, <2>3, <2>4, <2>8, <2>9 DEF GrantsOK
  <2> QED BY <2>7, <2>10
<1>14. CASE Reset
  <2>1. /\ status' = [r \in Requests |-> "absent"]
        /\ cached' = [r \in Requests |-> 0]
        /\ computed' = [r \in Requests |-> 0]
        /\ generated' = [r \in Requests |-> 0]
        /\ scheduled' = <<>>
    BY <1>0, <1>14 DEF Reset, output, LocalsOK
  <2>2. ComputedMatchesGenerated'
    BY <2>1 DEF ComputedMatchesGenerated, CountsAgree
  <2>3. Range(scheduled') = {} /\ \A r \in Requests : 0 <= PromptLength[r]
    BY <1>0, <2>1, AmountsTyped DEF Range
  <2> QED BY <2>1, <2>2, <2>3 DEF GrantsOK
<1>15. CASE UNCHANGED vars
  <2>1. \A r \in Requests : /\ Prefilling(r)' = Prefilling(r)
                            /\ RemainingPrefill(r)' = RemainingPrefill(r)
                            /\ ReachesSamplingPoint(r)' = ReachesSamplingPoint(r)
    BY <1>15 DEF vars, Prefilling, RemainingPrefill, ReachesSamplingPoint
  <2>2. Range(scheduled) \subseteq Requests
    BY <1>0, RangeMembers DEF TypeOK
  <2> QED BY <1>0, <1>1, <1>15, <2>1, <2>2 DEF vars, GrantsOK
<1> QED BY <1>3, <1>4, <1>5, <1>6, <1>8, <1>9, <1>10, <1>11, <1>12, <1>13, <1>14, <1>15
        DEF Next, Advance
-----------------------------------------------------------------------------
(* The invariant is inductive. *)

LEMMA InitIInv == Init => IInv
<1> SUFFICES ASSUME Init PROVE IInv
  OBVIOUS
<1>0. /\ waiting = <<>> /\ running = <<>> /\ finished = <<>>
      /\ skipped = <<>> /\ scheduled = <<>> /\ pc = "idle"
      /\ \A r \in Requests : /\ status[r] = "absent" /\ cached[r] = 0
                             /\ computed[r] = 0 /\ generated[r] = 0
  BY DEF Init, Idle
<1>1. TypeOK
  BY DEF Init, Idle, TypeOK, Steps
<1>2. IsInjective(<<>>) /\ Range(<<>>) = {} /\ <<>> \o <<>> = <<>> /\ Len(<<>>) = 0
  BY DEF IsInjective, Range
<1>3. Waiting = {} /\ Running = {} /\ Finished = {}
  BY <1>0 DEF Waiting, Running, Finished
<1>4. QueuesMatchStatus
  BY <1>0, <1>2, <1>3 DEF QueuesMatchStatus
<1>5. LocalsOK
  BY <1>0, <1>2, <1>3 DEF LocalsOK
<1>6. CountsMatchRunning
  <2>1. \A p \in Priorities : /\ priority_counts[p] = 0
                              /\ {r \in Running : Priority[r] = p} = {}
    BY <1>3 DEF Init
  <2>2. total_running = 0
    BY DEF Init
  <2>3. \A p \in Priorities :
            /\ priority_counts[p] = Cardinality({r \in Running : Priority[r] = p})
            /\ priority_counts[p] <= MaxPerPriority
    BY <2>1, FS_EmptySet, PolicyAssumption
  <2>4. total_running = Len(running) /\ total_running <= MaxNumSeqs
    BY <1>0, <1>2, <2>2, PolicyAssumption
  <2> QED BY <2>3, <2>4 DEF CountsMatchRunning
<1>7. ComputedMatchesGenerated
  BY <1>0 DEF ComputedMatchesGenerated, CountsAgree
<1>8. GrantsOK
  <2>1. \A r \in Requests : cached[r] <= PromptLength[r]
    BY <1>0, ShapesAssumption
  <2> QED BY <1>0, <1>2, <2>1 DEF GrantsOK
<1> QED BY <1>1, <1>4, <1>5, <1>6, <1>7, <1>8 DEF IInv

LEMMA StepIInv == IInv /\ [Next]_vars => IInv'
BY StepTypeOK, StepQueues, StepLocals, StepCounts, StepProgress DEF IInv

(* _free_finished_requests: the batching runner may finish a running request  *)
(* between two steps, which is no step of the engine by itself.               *)
Freed(r) ==
    /\ pc = "idle" /\ r \in Running
    /\ FinishRequest(r)
    /\ UNCHANGED <<waiting, cached, computed, generated, sent, runner_cache, pc, skipped,
                   cursor, budget, scheduled, tokens, finished_ids, sampled>>

LEMMA FreedIInv ==
    ASSUME IInv, NEW r \in Requests, Freed(r)
    PROVE  IInv'
<1>1. /\ TypeOK /\ QueuesMatchStatus /\ CountsMatchRunning
      /\ pc' = "idle" /\ r \in Running /\ FinishRequest(r)
      /\ UNCHANGED <<waiting, skipped>>
      /\ UNCHANGED <<cached, computed, generated, sent, runner_cache, pc, cursor, budget,
                     scheduled, tokens, finished_ids, sampled>>
  BY DEF IInv, Freed
<1>2. QueuesMatchStatus' /\ Running' = Running \ {r} /\ CountsMatchRunning'
  BY <1>1, FinishQueues, FinishCounts
<1>3. \A s \in Requests : status'[s] = IF s = r THEN "finished" ELSE status[s]
  BY <1>1 DEF FinishRequest, TypeOK
<1>4. /\ scheduled' = <<>> /\ skipped' = <<>> /\ Range(<<>>) = {} /\ IsInjective(<<>>)
  BY <1>1 DEF IInv, LocalsOK, Range, IsInjective, Freed
<1>5. LocalsOK'
  BY <1>1, <1>4 DEF LocalsOK
<1>6. ComputedMatchesGenerated' /\ GrantsOK'
  <2>1. ComputedMatchesGenerated /\ GrantsOK
    BY DEF IInv
  <2> QED BY <1>1, <1>3, <1>4, <2>1 DEF ComputedMatchesGenerated, CountsAgree, GrantsOK
<1>7. TypeOK'
  <2>1. /\ running \in Seq(Requests) /\ IsInjective(running) /\ r \in Range(running)
        /\ finished \in Seq(Requests) /\ Priority[r] \in Priorities
    BY <1>1, AmountsTyped DEF TypeOK, QueuesMatchStatus
  <2>2. /\ running' = Without(running, r)
        /\ finished' = IF r \in Range(finished) THEN finished ELSE Append(finished, r)
        /\ status' = [status EXCEPT ![r] = "finished"]
        /\ current_memory' = MemoryAfter(r)
        /\ total_running' = Larger(0, total_running - 1)
        /\ priority_counts' = [priority_counts EXCEPT ![Priority[r]] =
                                   Larger(0, priority_counts[Priority[r]] - 1)]
        /\ finished_since' = finished_since \cup {r}
        /\ tracked' = tracked \ {r} /\ processed' = [processed EXCEPT ![r] = 0]
    BY <1>1 DEF FinishRequest
  <2>3. running' \in Seq(Requests) /\ finished' \in Seq(Requests)
    BY <2>1, <2>2, WithoutDistinct
  <2>4. /\ MemoryAfter(r) \in Nat /\ Larger(0, total_running - 1) \in Nat
        /\ \A p \in Priorities : Larger(0, priority_counts[p] - 1) \in Nat
    <3>1. EstimatedKvSize(r) \in Nat
      BY <1>1, AmountsTyped
    <3> QED BY <1>1, <3>1 DEF TypeOK, MemoryAfter, Larger
  <2>5. /\ status' \in [Requests -> {"absent", "waiting", "prefill", "decode", "finished"}]
        /\ priority_counts' \in [Priorities -> Nat] /\ processed' \in [Requests -> Nat]
    BY <1>1, <2>1, <2>2, <2>4 DEF TypeOK
  <2> QED BY <1>1, <2>2, <2>3, <2>4, <2>5 DEF TypeOK
<1> QED BY <1>2, <1>5, <1>6, <1>7, <1>1 DEF IInv

LEMMA Inductive == Spec => []IInv
BY InitIInv, StepIInv, PTL DEF Spec

-----------------------------------------------------------------------------
(* Results. *)

(* Every field of the engine core has its type, whatever is added, admitted,  *)
(* skipped, scheduled, finished, abandoned or reset, and in whatever order.   *)
THEOREM SchedulerTypeCorrect == Spec => []TypeOK
<1>1. IInv => TypeOK
  BY DEF IInv
<1> QED BY <1>1, Inductive, PTL

(* Scheduler: no request is ever lost, duplicated or left in a queue its      *)
(* status does not name, for any number of requests and any limits.           *)
THEOREM QueuesCorrect == Spec => []QueuesMatchStatus
<1>1. IInv => QueuesMatchStatus
  BY DEF IInv
<1> QED BY <1>1, Inductive, PTL

(* PriorityPolicy: the counts it keeps for itself always agree with the       *)
(* running queue, so its limits hold in all and per priority level.           *)
THEOREM CountsCorrect == Spec => []CountsMatchRunning
<1>1. IInv => CountsMatchRunning
  BY DEF IInv
<1> QED BY <1>1, Inductive, PTL

(* update_from_output: computed positions and emitted tokens stay in step for *)
(* every prompt length, cached prefix, chunk size and budget.                 *)
THEOREM ProgressCorrect == Spec => []ComputedMatchesGenerated
<1>1. IInv => ComputedMatchesGenerated
  BY DEF IInv
<1> QED BY <1>1, Inductive, PTL

-----------------------------------------------------------------------------
(* Refinement: a step of the engine is a step in the life of one request, or  *)
(* of none.                                                                   *)

LEMMA LifecycleInit == Init => Lifecycle!Init
BY DEF Init, Lifecycle!Init, Phase

(* Nothing happens to a request whose status and tokens do not change. *)
LEMMA LifecycleStutter ==
    ASSUME UNCHANGED <<status, generated>>
    PROVE  UNCHANGED Lifecycle!vars
BY DEF Lifecycle!vars, Phase

LEMMA LifecycleSubmit ==
    ASSUME TypeOK, NEW r \in Requests, AddRequest(r)
    PROVE  Lifecycle!Submit(r)
BY DEF TypeOK, AddRequest, requests, Phase, Lifecycle!Submit

(* The policy's count is the number of running requests. *)
LEMMA LifecycleAdmit ==
    ASSUME IInv, NEW r \in Requests, NEW l \in 0 .. PromptLength[r], AdmitRequest(r, l)
    PROVE  Lifecycle!Admit(r)
<1>1. /\ waiting # <<>> /\ r = Head(waiting) /\ total_running < MaxNumSeqs
      /\ status' = [status EXCEPT ![r] = "prefill"] /\ generated' = generated
  BY DEF AdmitRequest, CanAdmit
<1>2. status[r] = "waiting"
  BY <1>1, HeadOfWaiting DEF IInv
<1>3. Phase[r] = "waiting" /\ Phase' = [Phase EXCEPT ![r] = "running"]
  BY <1>1, <1>2 DEF IInv, TypeOK, Phase
<1>4. Cardinality(Lifecycle!In("running")) = total_running
  <2>1. Lifecycle!In("running") = Running
    BY DEF Lifecycle!In, Phase, Running, IInv, TypeOK
  <2>2. running \in Seq(Requests) /\ IsInjective(running) /\ Range(running) = Running
    BY DEF IInv, TypeOK, QueuesMatchStatus
  <2>3. total_running = Len(running)
    BY DEF IInv, CountsMatchRunning
  <2> QED BY <2>1, <2>2, <2>3, InjectiveCardinality
<1>5. Cardinality(Lifecycle!In("running")) < MaxNumSeqs
  BY <1>1, <1>4
<1>6. generated' = generated
  BY <1>1
<1> QED BY <1>3, <1>5, <1>6 DEF Lifecycle!Admit, Lifecycle!Cardinality, Cardinality

(* An update emits the token that was sampled for the request, if any. *)
LEMMA LifecycleUpdate ==
    ASSUME IInv, NEW r \in Requests, UpdateUnfinished(r) \/ UpdateFinished(r)
    PROVE  \/ Lifecycle!Emit(r) \/ Lifecycle!CompleteEmpty(r)
           \/ UNCHANGED Lifecycle!vars
<1>0. TypeOK /\ CountsAgree(r)
  BY DEF IInv, ComputedMatchesGenerated
<1>1. /\ Updating(r)
      /\ \/ /\ ~(GeneratedAfter(r) >= MaxNewTokens[r])
            /\ status' = IF r \in sampled THEN [status EXCEPT ![r] = "decode"] ELSE status
         \/ /\ GeneratedAfter(r) >= MaxNewTokens[r]
            /\ status' = [status EXCEPT ![r] = "finished"]
  BY DEF UpdateUnfinished, UpdateFinished, FinishRequest, IsFinishedWith
<1>2. /\ generated[r] \in Nat /\ MaxNewTokens[r] \in Nat
      /\ status[r] \in {"prefill", "decode"} /\ Phase[r] = "running"
      /\ generated' = [generated EXCEPT ![r] = GeneratedAfter(r)]
  <2>1. status[r] \in {"prefill", "decode"}
    BY <1>1, UpdateFacts
  <2>2. generated' = [generated EXCEPT ![r] = GeneratedAfter(r)]
    BY <1>1 DEF Updating
  <2> QED BY <1>0, <2>1, <2>2, AmountsTyped DEF TypeOK, Phase
<1>3. generated[r] = 0 \/ generated[r] < MaxNewTokens[r]
  BY <1>0, <1>2 DEF CountsAgree
<1>4. /\ status' = [status EXCEPT ![r] = "decode"] => Phase' = Phase
      /\ status' = [status EXCEPT ![r] = "finished"] => Phase' = [Phase EXCEPT ![r] = "finished"]
  BY <1>0, <1>2 DEF TypeOK, Phase
<1>5. CASE r \in sampled
  <2>1. GeneratedAfter(r) = generated[r] + 1
    BY <1>5 DEF GeneratedAfter
  <2>2. Phase' = IF generated[r] + 1 >= MaxNewTokens[r]
                 THEN [Phase EXCEPT ![r] = "finished"] ELSE Phase
    BY <1>1, <1>4, <1>5, <2>1
  <2>3. generated' = [generated EXCEPT ![r] = generated[r] + 1]
    BY <1>2, <2>1
  <2> QED BY <1>2, <1>3, <2>2, <2>3 DEF Lifecycle!Emit
<1>6. CASE r \notin sampled
  <2>1. GeneratedAfter(r) = generated[r]
    BY <1>6 DEF GeneratedAfter
  <2>2. generated' = generated
    BY <1>0, <1>2, <2>1 DEF TypeOK
  <2>3. CASE status' = status
    BY <2>2, <2>3, LifecycleStutter
  <2>4. CASE GeneratedAfter(r) >= MaxNewTokens[r] /\ status' = [status EXCEPT ![r] = "finished"]
    <3>1. generated[r] = 0 /\ MaxNewTokens[r] = 0
      BY <1>2, <1>3, <2>1, <2>4
    <3> QED BY <1>2, <1>4, <2>2, <2>4, <3>1 DEF Lifecycle!CompleteEmpty
  <2> QED BY <1>1, <1>6, <2>3, <2>4
<1> QED BY <1>5, <1>6

LEMMA LifecycleStep == IInv /\ [Next]_vars => [Lifecycle!Next]_(Lifecycle!vars)
<1> SUFFICES ASSUME IInv, [Next]_vars
             PROVE  Lifecycle!Next \/ UNCHANGED Lifecycle!vars
  OBVIOUS
<1>1. ASSUME NEW r \in Requests, AddRequest(r)
      PROVE  Lifecycle!Next
  BY <1>1, LifecycleSubmit DEF Lifecycle!Next, IInv
<1>2. ASSUME NEW r \in Requests, NEW l \in 0 .. PromptLength[r], AdmitRequest(r, l)
      PROVE  Lifecycle!Next
  BY <1>2, LifecycleAdmit DEF Lifecycle!Next
<1>3. ASSUME NEW r \in Requests, UpdateUnfinished(r) \/ UpdateFinished(r)
      PROVE  Lifecycle!Next \/ UNCHANGED Lifecycle!vars
  BY <1>3, LifecycleUpdate DEF Lifecycle!Next
<1>4. CASE Reset
  BY <1>4 DEF Reset, Lifecycle!Next, Lifecycle!ForgetAll, Phase
<1>5. ASSUME NEW r \in Requests,
             SkipRequest(r) \/ SelectRequest(r) \/ PassOver(r) \/ SelectRaises(r)
      PROVE  UNCHANGED <<status, generated>>
  BY <1>5 DEF SkipRequest, SelectRequest, PassOver, SelectRaises, requests
<1>6. CASE BeginStep \/ EndAdmission \/ EndSelection \/ ExecuteModel \/ EndUpdate
  <2>1. UNCHANGED <<status, generated>>
    BY <1>6 DEF BeginStep, EndAdmission, EndSelection, ExecuteModel, EndUpdate, requests
  <2> QED BY <2>1, LifecycleStutter
<1>7. CASE UNCHANGED vars
  <2>1. UNCHANGED <<status, generated>>
    BY <1>7 DEF vars
  <2> QED BY <2>1, LifecycleStutter
<1> QED BY <1>1, <1>2, <1>3, <1>4, <1>5, <1>6, <1>7, LifecycleStutter DEF Next, Advance

(* One that is freed between two steps never got a token, and wants none.     *)
LEMMA LifecycleFreed ==
    ASSUME IInv, NEW r \in Requests, Freed(r), IsFinishedWith(r, generated[r])
    PROVE  Lifecycle!CompleteEmpty(r)
<1>1. /\ TypeOK /\ CountsAgree(r) /\ status[r] \in {"prefill", "decode"}
      /\ status' = [status EXCEPT ![r] = "finished"] /\ generated' = generated
      /\ generated[r] >= MaxNewTokens[r]
  BY DEF IInv, ComputedMatchesGenerated, Freed, FinishRequest, Running, IsFinishedWith
<1>2. generated[r] = 0 /\ MaxNewTokens[r] = 0
  <2>1. generated[r] \in Nat /\ MaxNewTokens[r] \in Nat
    BY <1>1, AmountsTyped DEF TypeOK
  <2>2. /\ status[r] = "prefill" => generated[r] = 0
        /\ status[r] = "decode" => generated[r] < MaxNewTokens[r]
    BY <1>1 DEF CountsAgree
  <2> QED BY <1>1, <2>1, <2>2
<1>3. Phase[r] = "running" /\ Phase' = [Phase EXCEPT ![r] = "finished"]
  BY <1>1 DEF TypeOK, Phase
<1> QED BY <1>1, <1>2, <1>3 DEF Lifecycle!CompleteEmpty

(* Scheduler and its policy implement the life of a request: whatever the     *)
(* queues, the budget and the chunks do, a request is admitted only within    *)
(* the limit, emits one token at a time, never more than it asked for (or     *)
(* one), finishes with the last, and never emits or runs again.               *)
THEOREM ImplementsRequestLifecycle == Spec => RefinesRequestLifecycle
<1>1. Spec => Lifecycle!Init /\ [][Lifecycle!Next]_(Lifecycle!vars)
  BY Inductive, LifecycleInit, LifecycleStep, PTL DEF Spec
<1> QED BY <1>1 DEF RefinesRequestLifecycle, Lifecycle!Spec

-----------------------------------------------------------------------------
(* The order of service.  The head of the running queue is scheduled as the   *)
(* cursor leaves it, for the whole budget is still there; and without prompts *)
(* that must be whole nobody is passed over.                                  *)
OrderOK ==
    /\ pc = "selecting" =>
           /\ cursor = 1 => scheduled = <<>> /\ budget = MaxNumScheduledTokens
           /\ cursor # 1 => scheduled # <<>> /\ Head(scheduled) = Head(running)
           /\ ChunkedPrefill => /\ Len(scheduled) = cursor - 1
                                /\ scheduled = SubSeq(running, 1, Len(scheduled))
    /\ OldestServedFirst

LEMMA HeadIsFirst ==
    ASSUME NEW S, NEW s \in Seq(S), s # <<>>
    PROVE  Head(s) = s[1] /\ 1 \in 1 .. Len(s)
BY HeadTailProperties, LenProperties, EmptySeq

(* The scan's longest prefix grows by the request at the cursor. *)
LEMMA PrefixGrows ==
    ASSUME NEW S, NEW s \in Seq(S), NEW n \in 1 .. Len(s)
    PROVE  /\ Append(SubSeq(s, 1, n - 1), s[n]) = SubSeq(s, 1, n)
           /\ Len(SubSeq(s, 1, n)) = n
<1> DEFINE front == SubSeq(s, 1, n - 1)
           upto == SubSeq(s, 1, n)
<1>1. Len(s) \in Nat /\ s[n] \in S
  BY ElementOfSeq, LenProperties
<1>2. /\ front \in Seq(S) /\ Len(front) = n - 1
      /\ \A i \in 1 .. n - 1 : front[i] = s[i]
  BY <1>1, SubSeqProperties, ElementOfSeq
<1>3. /\ upto \in Seq(S) /\ Len(upto) = n
      /\ \A i \in 1 .. n : upto[i] = s[i]
  BY <1>1, SubSeqProperties, ElementOfSeq
<1> HIDE DEF front, upto
<1>4. Append(front, s[n]) = upto
  BY <1>1, <1>2, <1>3
<1> QED BY <1>3, <1>4 DEF front, upto

LEMMA StepOrder == IInv /\ OrderOK /\ [Next]_vars => OrderOK'
<1> SUFFICES ASSUME IInv, OrderOK, [Next]_vars
             PROVE  OrderOK'
  OBVIOUS
<1>0. /\ TypeOK /\ QueuesMatchStatus /\ LocalsOK
      /\ running \in Seq(Requests) /\ scheduled \in Seq(Requests)
      /\ Len(running) \in Nat /\ Len(scheduled) \in Nat
  BY LenProperties DEF IInv, TypeOK
<1>1. ASSUME pc' \notin {"selecting", "executing"}
      PROVE  OrderOK'
  BY <1>1 DEF OrderOK, OldestServedFirst
<1>2. ASSUME NEW r \in Requests, SelectRequest(r) PROVE OrderOK'
  <2>1. /\ pc = "selecting" /\ pc' = pc /\ cursor \in DOMAIN running /\ r = running[cursor]
        /\ scheduled' = Append(scheduled, r) /\ cursor' = cursor + 1 /\ running' = running
    BY <1>2 DEF SelectRequest, Selecting, queues
  <2>2. cursor \in 1 .. Len(running) /\ r \in Requests
    BY <1>0, <2>1, RunningTyped
  <2>3. scheduled' # <<>> /\ Head(scheduled') = Head(running)
    <3>1. CASE cursor = 1
      <4>1. scheduled' = <<r>>
        BY <2>1, <3>1 DEF OrderOK
      <4>2. running # <<>>
        BY <2>2
      <4>3. Head(running) = r
        BY <1>0, <2>1, <3>1, <4>2, HeadIsFirst
      <4> QED BY <2>2, <4>1, <4>3
    <3>2. CASE cursor # 1
      <4>1. scheduled # <<>> /\ Head(scheduled) = Head(running)
        BY <2>1, <3>2 DEF OrderOK
      <4>2. Head(Append(scheduled, r)) = Head(scheduled) /\ Append(scheduled, r) # <<>>
        BY <1>0, <4>1
      <4> QED BY <2>1, <4>1, <4>2
    <3> QED BY <3>1, <3>2
  <2>4. cursor' # 1
    BY <2>1, <2>2
  <2>5. ASSUME ChunkedPrefill
        PROVE  /\ Len(scheduled') = cursor' - 1
               /\ scheduled' = SubSeq(running', 1, Len(scheduled'))
    <3>1. Len(scheduled) = cursor - 1 /\ scheduled = SubSeq(running, 1, cursor - 1)
      BY <2>1, <2>5 DEF OrderOK
    <3>2. scheduled' = SubSeq(running, 1, cursor) /\ Len(SubSeq(running, 1, cursor)) = cursor
      BY <1>0, <2>1, <2>2, <3>1, PrefixGrows
    <3> QED BY <2>1, <2>2, <3>2
  <2> QED BY <2>1, <2>3, <2>4, <2>5 DEF OrderOK, OldestServedFirst
<1>3. ASSUME NEW r \in Requests, PassOver(r) PROVE OrderOK'
  <2>1. /\ pc = "selecting" /\ pc' = pc /\ cursor \in DOMAIN running /\ cursor' = cursor + 1
        /\ MustWait(r) /\ UNCHANGED <<running, scheduled>>
    BY <1>3 DEF PassOver, Selecting, queues, output
  <2>2. cursor \in 1 .. Len(running)
    BY <1>0, <2>1, RunningTyped
  <2>3. ~ChunkedPrefill /\ DesiredTokens(r) > budget /\ ~(DesiredTokens(r) > MaxNumScheduledTokens)
    BY <2>1 DEF MustWait, TooLarge, Whole
  <2>4. cursor # 1
    BY <2>1, <2>3 DEF OrderOK
  <2>5. scheduled' # <<>> /\ Head(scheduled') = Head(running') /\ cursor' # 1
    BY <2>1, <2>2, <2>4 DEF OrderOK
  <2> QED BY <2>1, <2>3, <2>5 DEF OrderOK, OldestServedFirst
<1>4. CASE EndAdmission
  <2>1. /\ pc' = "selecting" /\ cursor' = 1 /\ budget' = MaxNumScheduledTokens
        /\ scheduled' = <<>> /\ running' = running
    BY <1>0, <1>4 DEF EndAdmission, output, LocalsOK
  <2>2. SubSeq(running, 1, 0) = <<>> /\ Len(<<>>) = 0
    <3>1. SubSeq(running, 1, 0) \in Seq(Requests) /\ Len(SubSeq(running, 1, 0)) = 0
      BY <1>0, SubSeqProperties
    <3> QED BY <3>1, EmptySeq
  <2> QED BY <2>1, <2>2 DEF OrderOK, OldestServedFirst
<1>5. CASE EndSelection
  <2>1. /\ pc = "selecting" /\ pc' = "executing" /\ UNCHANGED <<running, scheduled>>
        /\ budget = 0 \/ cursor \notin DOMAIN running
    BY <1>5 DEF EndSelection, queues, output
  <2>2. ASSUME running # <<>>
        PROVE  scheduled # <<>> /\ Head(scheduled) = Head(running)
    <3>1. 1 \in DOMAIN running
      BY <1>0, <2>2, HeadIsFirst, LenProperties
    <3>2. cursor # 1
      BY <2>1, <3>1, BudgetAssumption DEF OrderOK
    <3> QED BY <2>1, <3>2 DEF OrderOK
  <2>3. ChunkedPrefill => scheduled = SubSeq(running, 1, Len(scheduled))
    BY <2>1 DEF OrderOK
  <2> QED BY <2>1, <2>2, <2>3 DEF OrderOK, OldestServedFirst
<1>6. ASSUME NEW r \in Requests,
             \/ AddRequest(r) \/ SkipRequest(r) \/ SelectRaises(r)
             \/ UpdateUnfinished(r) \/ UpdateFinished(r)
             \/ \E l \in 0 .. PromptLength[r] : AdmitRequest(r, l)
      PROVE  OrderOK'
  <2>1. pc' \notin {"selecting", "executing"}
    BY <1>6 DEF AddRequest, SkipRequest, SelectRaises, StepEnds, UpdateUnfinished,
                UpdateFinished, Updating, AdmitRequest
  <2> QED BY <1>1, <2>1
<1>7. CASE BeginStep \/ ExecuteModel \/ EndUpdate \/ Reset
  BY <1>1, <1>7 DEF BeginStep, ExecuteModel, EndUpdate, StepEnds, Reset
<1>8. CASE UNCHANGED vars
  BY <1>8 DEF vars, OrderOK, OldestServedFirst
<1> QED BY <1>2, <1>3, <1>4, <1>5, <1>6, <1>7, <1>8 DEF Next, Advance

(* _select_scheduled_requests: for every mix of prompts, limits and budgets   *)
(* the oldest running request is served in every step that is not abandoned,  *)
(* and with chunked prefill no request overtakes an older one.                *)
THEOREM OldestServed == Spec => []OldestServedFirst
<1>1. Init => OrderOK
  BY DEF Init, Idle, OrderOK, OldestServedFirst
<1>2. OrderOK => OldestServedFirst
  BY DEF OrderOK
<1> QED BY <1>1, <1>2, Inductive, StepOrder, PTL DEF Spec

-----------------------------------------------------------------------------
(* Progress through the prompts.  The helper's count and the scheduler's      *)
(* differ by what no chunk had to compute, and a prompt that must be whole is *)
(* granted whole.                                                             *)
ChunksOK ==
    /\ tracked = IF ChunkedPrefill THEN Running ELSE {}
    /\ \A r \in Requests \ Running : processed[r] = 0
    /\ \A r \in tracked : processed[r] + RemainingPrefill(r) = TotalPrefill(r)

WholeOK ==
    /\ ~ChunkedPrefill =>
           \A r \in Range(scheduled) : Prefilling(r) => tokens[r] = RemainingPrefill(r)
    /\ PromptsComputedWhole

(* The prompt tokens that remain after a step in which r was scheduled. *)
LEMMA RemainingAfterUpdate ==
    ASSUME IInv, IInv', NEW r \in Requests, Updating(r)
    PROVE  /\ RemainingPrefill(r)' = RemainingPrefill(r) - PrefillComputed(r)
           /\ PrefillComputed(r) \in 0 .. RemainingPrefill(r)
           /\ RemainingPrefill(r) \in Nat
           /\ Prefilling(r) => /\ RemainingPrefill(r) = PromptLength[r] - computed[r]
                               /\ computed[r] < PromptLength[r]
           /\ status[r] = "prefill" /\ ~Prefilling(r) => r \in sampled
<1>0. TypeOK /\ TypeOK' /\ GrantsOK /\ ComputedMatchesGenerated
  BY DEF IInv
<1>1. /\ cached[r] \in Nat /\ computed[r] \in Nat /\ PromptLength[r] \in Nat
      /\ tokens[r] \in Nat /\ RemainingPrefill(r) \in Nat
  BY <1>0, AmountsTyped DEF TypeOK
<1>2. computed'[r] = computed[r] + tokens[r] /\ cached'[r] = cached[r]
  <2>1. computed' = [computed EXCEPT ![r] = computed[r] + tokens[r]] /\ cached' = cached
    BY UpdateFacts
  <2> QED BY <1>0, <2>1 DEF TypeOK
<1>3. cached[r] <= PromptLength[r] /\ cached[r] <= computed[r]
  <2>1. status[r] = "prefill" => cached[r] <= computed[r]
    BY <1>0 DEF GrantsOK
  <2>2. ASSUME status[r] = "decode" PROVE cached[r] <= computed[r]
    <3>1. /\ 0 < generated[r] /\ generated[r] \in Nat
          /\ computed[r] = PromptLength[r] + generated[r]
                              - (IF cached[r] = PromptLength[r] THEN 0 ELSE 1)
      BY <1>0, <2>2 DEF ComputedMatchesGenerated, CountsAgree, TypeOK
    <3>2. cached[r] <= PromptLength[r]
      BY <1>0 DEF GrantsOK
    <3> QED BY <1>1, <3>1, <3>2
  <2> QED BY <1>0, <2>1, <2>2, UpdateFacts DEF GrantsOK
<1>4. RemainingPrefill(r) = IF computed[r] < PromptLength[r]
                            THEN PromptLength[r] - computed[r] ELSE 0
  BY <1>0, <1>3, RemainingFacts
<1>5. RemainingPrefill(r)' = IF computed[r] + tokens[r] < PromptLength[r]
                             THEN PromptLength[r] - (computed[r] + tokens[r]) ELSE 0
  BY <1>1, <1>2, <1>3 DEF RemainingPrefill, Larger
<1>6. PrefillComputed(r) = IF RemainingPrefill(r) <= tokens[r]
                           THEN RemainingPrefill(r) ELSE tokens[r]
  BY DEF PrefillComputed, Smaller
<1>7. /\ RemainingPrefill(r)' = RemainingPrefill(r) - PrefillComputed(r)
      /\ PrefillComputed(r) \in 0 .. RemainingPrefill(r)
  BY <1>1, <1>4, <1>5, <1>6
<1>8. Prefilling(r) => /\ RemainingPrefill(r) = PromptLength[r] - computed[r]
                       /\ computed[r] < PromptLength[r]
  BY <1>1, <1>4 DEF Prefilling
<1>9. status[r] = "prefill" /\ ~Prefilling(r) => r \in sampled
  <2> SUFFICES ASSUME status[r] = "prefill", ~Prefilling(r) PROVE r \in sampled
    OBVIOUS
  <2>1. ~(computed[r] < PromptLength[r])
    BY <1>1, <1>4 DEF Prefilling
  <2> QED BY <1>1, <2>1, UpdateFacts
<1> QED BY <1>1, <1>7, <1>8, <1>9

LEMMA StepChunks == IInv /\ IInv' /\ ChunksOK /\ [Next]_vars => ChunksOK'
<1> SUFFICES ASSUME IInv, IInv', ChunksOK, [Next]_vars
             PROVE  ChunksOK'
  OBVIOUS
<1>0. /\ TypeOK /\ TypeOK' /\ QueuesMatchStatus
      /\ \A r \in Requests : /\ cached[r] \in Nat /\ computed[r] \in Nat
                             /\ PromptLength[r] \in Nat
  BY AmountsTyped DEF IInv, TypeOK
<1>1. ASSUME UNCHANGED <<cached, computed, tracked, processed>>, Running' = Running
      PROVE  ChunksOK'
  BY <1>1 DEF ChunksOK, RemainingPrefill, TotalPrefill
<1>2. ASSUME NEW r \in Requests, AddRequest(r) PROVE ChunksOK'
  <2>1. /\ status[r] = "absent" /\ status' = [status EXCEPT ![r] = "waiting"]
        /\ UNCHANGED <<cached, computed, tracked, processed>>
    BY <1>2 DEF AddRequest, helper
  <2>2. Running' = Running
    BY <1>0, <2>1 DEF Running, TypeOK
  <2> QED BY <1>1, <2>1, <2>2
<1>3. ASSUME NEW r \in Requests, NEW l \in 0 .. PromptLength[r], AdmitRequest(r, l)
      PROVE  ChunksOK'
  <2>1. /\ waiting # <<>> /\ r = Head(waiting)
        /\ status' = [status EXCEPT ![r] = "prefill"]
        /\ cached' = [cached EXCEPT ![r] = l]
        /\ computed' = [computed EXCEPT ![r] = l]
        /\ tracked' = IF ChunkedPrefill THEN tracked \cup {r} ELSE tracked
        /\ processed' = processed
    BY <1>3 DEF AdmitRequest
  <2>2. status[r] = "waiting" /\ r \notin Running
    BY <1>0, <2>1, HeadOfWaiting DEF Running
  <2>3. Running' = Running \cup {r}
    BY <1>0, <2>1 DEF Running, TypeOK
  <2>4. processed[r] = 0
    BY <2>2 DEF ChunksOK
  <2>5. RemainingPrefill(r)' = TotalPrefill(r)' /\ TotalPrefill(r)' \in Nat
    <3>1. cached'[r] = l /\ computed'[r] = l
      BY <1>0, <2>1 DEF TypeOK
    <3>2. l \in Nat /\ l <= PromptLength[r] /\ PromptLength[r] \in Nat
      BY <1>0
    <3> QED BY <3>1, <3>2 DEF RemainingPrefill, TotalPrefill, Larger
  <2>6. ASSUME NEW s \in Requests \ {r}
        PROVE  /\ RemainingPrefill(s)' = RemainingPrefill(s)
               /\ TotalPrefill(s)' = TotalPrefill(s)
    <3>1. cached'[s] = cached[s] /\ computed'[s] = computed[s]
      BY <1>0, <2>1 DEF TypeOK
    <3> QED BY <3>1 DEF RemainingPrefill, TotalPrefill
  <2>7. tracked' = IF ChunkedPrefill THEN Running' ELSE {}
    BY <2>1, <2>3 DEF ChunksOK
  <2>8. \A s \in Requests \ Running' : processed'[s] = 0
    BY <2>1, <2>3 DEF ChunksOK
  <2>9. ASSUME NEW s \in tracked'
        PROVE  processed'[s] + RemainingPrefill(s)' = TotalPrefill(s)'
    <3>1. CASE s = r
      <4>1. 0 + TotalPrefill(r)' = TotalPrefill(r)'
        BY <2>5
      <4> QED BY <2>1, <2>4, <2>5, <3>1, <4>1
    <3>2. CASE s # r
      <4>1. s \in tracked /\ s \in Requests
        BY <1>0, <2>1, <2>9, <3>2 DEF TypeOK
      <4> QED BY <2>1, <2>6, <3>2, <4>1 DEF ChunksOK
    <3> QED BY <3>1, <3>2
  <2> QED BY <2>7, <2>8, <2>9 DEF ChunksOK
<1>4. ASSUME NEW r \in Requests, UpdateUnfinished(r) PROVE ChunksOK'
  <2>1. /\ Updating(r) /\ tracked' = tracked
        /\ processed' = [processed EXCEPT ![r] = ProcessedAfter(r)]
        /\ status' = IF r \in sampled THEN [status EXCEPT ![r] = "decode"] ELSE status
    BY <1>4 DEF UpdateUnfinished
  <2>2. r \in Running /\ Running' = Running
    <3>1. r \in Running
      BY <2>1, HeadOfScheduled
    <3> QED BY <1>0, <2>1, <3>1 DEF Running, TypeOK
  <2>3. /\ computed' = [computed EXCEPT ![r] = computed[r] + tokens[r]]
        /\ cached' = cached
    BY <2>1, UpdateFacts
  <2>4. ASSUME NEW s \in Requests \ {r}
        PROVE  /\ RemainingPrefill(s)' = RemainingPrefill(s) /\ processed'[s] = processed[s]
               /\ TotalPrefill(s)' = TotalPrefill(s)
    <3>1. cached'[s] = cached[s] /\ computed'[s] = computed[s]
      BY <1>0, <2>3 DEF TypeOK
    <3>2. processed'[s] = processed[s]
      BY <1>0, <2>1 DEF TypeOK
    <3> QED BY <3>1, <3>2 DEF RemainingPrefill, TotalPrefill
  <2>5. ASSUME r \in tracked
        PROVE  processed'[r] + RemainingPrefill(r)' = TotalPrefill(r)'
    <3>1. /\ RemainingPrefill(r)' = RemainingPrefill(r) - PrefillComputed(r)
          /\ PrefillComputed(r) \in 0 .. RemainingPrefill(r)
          /\ RemainingPrefill(r) \in Nat
      BY <2>1, RemainingAfterUpdate
    <3>2. processed[r] \in Nat /\ processed[r] + RemainingPrefill(r) = TotalPrefill(r)
      BY <1>0, <2>5 DEF TypeOK, ChunksOK
    <3>3. processed'[r] = ProcessedAfter(r) /\ ChunkedPrefill
      BY <1>0, <2>1, <2>5 DEF TypeOK, ChunksOK
    <3>4. ProcessedAfter(r) = processed[r] + PrefillComputed(r)
      BY <3>1, <3>2, <3>3 DEF ProcessedAfter, Smaller
    <3>5. TotalPrefill(r)' = TotalPrefill(r)
      BY <2>3 DEF TotalPrefill
    <3> QED BY <3>1, <3>2, <3>3, <3>4, <3>5
  <2> QED BY <1>0, <2>1, <2>2, <2>4, <2>5 DEF ChunksOK, TypeOK
<1>5. ASSUME NEW r \in Requests, UpdateFinished(r) PROVE ChunksOK'
  <2>1. /\ Updating(r) /\ tracked' = tracked \ {r}
        /\ processed' = [processed EXCEPT ![r] = 0]
        /\ status' = [status EXCEPT ![r] = "finished"]
    BY <1>5 DEF UpdateFinished, FinishRequest
  <2>2. Running' = Running \ {r}
    BY <1>0, <2>1 DEF Running, TypeOK
  <2>3. /\ computed' = [computed EXCEPT ![r] = computed[r] + tokens[r]]
        /\ cached' = cached
    BY <2>1, UpdateFacts
  <2>4. ASSUME NEW s \in Requests \ {r}
        PROVE  /\ RemainingPrefill(s)' = RemainingPrefill(s) /\ processed'[s] = processed[s]
               /\ TotalPrefill(s)' = TotalPrefill(s)
    <3>1. cached'[s] = cached[s] /\ computed'[s] = computed[s]
      BY <1>0, <2>3 DEF TypeOK
    <3>2. processed'[s] = processed[s]
      BY <1>0, <2>1 DEF TypeOK
    <3> QED BY <3>1, <3>2 DEF RemainingPrefill, TotalPrefill
  <2>5. processed'[r] = 0
    BY <1>0, <2>1 DEF TypeOK
  <2> QED BY <1>0, <2>1, <2>2, <2>4, <2>5 DEF ChunksOK, TypeOK
<1>6. CASE Reset
  <2>1. tracked' = {} /\ Running' = {} /\ \A r \in Requests : processed'[r] = 0
    BY <1>6 DEF Reset, Running
  <2> QED BY <2>1 DEF ChunksOK
<1>7. ASSUME NEW r \in Requests,
             SkipRequest(r) \/ SelectRequest(r) \/ PassOver(r) \/ SelectRaises(r)
      PROVE  ChunksOK'
  <2>1. UNCHANGED <<cached, computed, tracked, processed, status>>
    BY <1>7 DEF SkipRequest, SelectRequest, PassOver, SelectRaises, requests, helper
  <2> QED BY <1>1, <2>1 DEF Running
<1>8. CASE BeginStep \/ EndAdmission \/ EndSelection \/ ExecuteModel \/ EndUpdate
  <2>1. UNCHANGED <<cached, computed, tracked, processed, status>>
    BY <1>8 DEF BeginStep, EndAdmission, EndSelection, ExecuteModel, EndUpdate, requests, helper
  <2> QED BY <1>1, <2>1 DEF Running
<1>9. CASE UNCHANGED vars
  BY <1>1, <1>9 DEF vars, Running
<1> QED BY <1>2, <1>3, <1>4, <1>5, <1>6, <1>7, <1>8, <1>9 DEF Next, Advance

(* ChunkedPrefillHelper: its progress is kept for the running requests only   *)
(* and agrees with the scheduler's count of computed tokens, for every chunk  *)
(* size, budget and cached prefix.                                            *)
THEOREM ChunkProgress == Spec => []ChunkProgressAgrees
<1>1. Init => ChunksOK
  BY DEF Init, ChunksOK, Running
<1>2. IInv /\ ChunksOK => ChunkProgressAgrees
  BY DEF ChunksOK, ChunkProgressAgrees
<1> QED BY <1>1, <1>2, Inductive, StepChunks, PTL DEF Spec

LEMMA StepWhole == IInv /\ IInv' /\ WholeOK /\ [Next]_vars => WholeOK'
<1> SUFFICES ASSUME IInv, IInv', WholeOK, [Next]_vars, ~ChunkedPrefill
             PROVE  /\ \A r \in Range(scheduled') : Prefilling(r)' => tokens'[r] = RemainingPrefill(r)'
                    /\ \A r \in Requests : status'[r] = "prefill" => computed'[r] = cached'[r]
  BY DEF WholeOK, PromptsComputedWhole
<1>0. /\ TypeOK /\ TypeOK' /\ QueuesMatchStatus /\ LocalsOK
      /\ Range(<<>>) = {} /\ Range(scheduled) \subseteq Requests
      /\ \A r \in Range(scheduled) : Prefilling(r) => tokens[r] = RemainingPrefill(r)
      /\ \A r \in Requests : status[r] = "prefill" => computed[r] = cached[r]
  <2>1. Range(<<>>) = {}
    BY DEF Range
  <2>2. Range(scheduled) \subseteq Requests
    BY RangeMembers DEF IInv, TypeOK
  <2> QED BY <2>1, <2>2 DEF IInv, WholeOK, PromptsComputedWhole
<1> DEFINE Goal == /\ \A r \in Range(scheduled') : Prefilling(r)' => tokens'[r] = RemainingPrefill(r)'
                   /\ \A r \in Requests : status'[r] = "prefill" => computed'[r] = cached'[r]
<1>1. ASSUME UNCHANGED <<status, cached, computed, tokens, scheduled>> PROVE Goal
  BY <1>0, <1>1 DEF Prefilling, RemainingPrefill
<1>2. ASSUME UNCHANGED <<status, cached, computed>>, scheduled' = <<>> PROVE Goal
  BY <1>0, <1>2
<1>3. ASSUME NEW r \in Requests, AddRequest(r) PROVE Goal
  <2>1. /\ status' = [status EXCEPT ![r] = "waiting"] /\ scheduled' = <<>>
        /\ UNCHANGED <<cached, computed>>
    BY <1>0, <1>3 DEF AddRequest, output, LocalsOK
  <2> QED BY <1>0, <2>1 DEF TypeOK
<1>4. ASSUME NEW r \in Requests, NEW l \in 0 .. PromptLength[r], AdmitRequest(r, l)
      PROVE  Goal
  <2>1. /\ scheduled' = <<>>
        /\ status' = [status EXCEPT ![r] = "prefill"]
        /\ cached' = [cached EXCEPT ![r] = l]
        /\ computed' = [computed EXCEPT ![r] = l]
    BY <1>0, <1>4 DEF AdmitRequest, output, LocalsOK
  <2> QED BY <1>0, <2>1 DEF TypeOK
<1>5. ASSUME NEW r \in Requests, SelectRequest(r) PROVE Goal
  <2>1. /\ pc = "selecting" /\ ~TooLarge(r) /\ ~MustWait(r) /\ budget > 0
        /\ scheduled' = Append(scheduled, r) /\ cursor \in DOMAIN running
        /\ r = running[cursor]
        /\ tokens' = [tokens EXCEPT ![r] = Grant(r)]
        /\ UNCHANGED <<status, cached, computed>>
    BY <1>5 DEF SelectRequest, Selecting, requests
  <2>2. /\ scheduled \in Seq(Requests)
        /\ Range(scheduled') = Range(scheduled) \cup {r}
    <3>1. scheduled \in Seq(Requests)
      BY <1>0 DEF TypeOK
    <3>2. Range(Append(scheduled, r)) = Range(scheduled) \cup {r}
      BY <3>1, AppendProperties DEF Range
    <3> QED BY <2>1, <3>1, <3>2
  <2>3. ASSUME Prefilling(r) PROVE Grant(r) = RemainingPrefill(r)
    <3>1. Whole(r) /\ DesiredTokens(r) = RemainingPrefill(r)
      BY <2>3 DEF Whole, Prefilling, DesiredTokens
    <3>2. ~(DesiredTokens(r) > budget)
      BY <2>1, <3>1 DEF TooLarge, MustWait
    <3>3. DesiredTokens(r) \in Nat /\ budget \in Nat
      BY <1>0, AmountsTyped DEF TypeOK
    <3> QED BY <3>1, <3>2, <3>3 DEF Grant, Smaller
  <2>4. ASSUME NEW s \in Range(scheduled'), Prefilling(s)'
        PROVE  tokens'[s] = RemainingPrefill(s)'
    <3>1. Prefilling(s) /\ RemainingPrefill(s)' = RemainingPrefill(s) /\ s \in Requests
      BY <1>0, <2>1, <2>2, <2>4 DEF Prefilling, RemainingPrefill
    <3>2. CASE s = r
      BY <1>0, <2>1, <2>3, <3>1, <3>2 DEF TypeOK
    <3>3. CASE s # r
      <4>1. s \in Range(scheduled) /\ tokens'[s] = tokens[s]
        BY <1>0, <2>1, <2>2, <3>1, <3>3 DEF TypeOK
      <4> QED BY <1>0, <3>1, <4>1
    <3> QED BY <3>2, <3>3
  <2> QED BY <1>0, <2>1, <2>4
<1>6. ASSUME NEW r \in Requests, UpdateUnfinished(r) \/ UpdateFinished(r)
      PROVE  Goal
  <2>1. /\ Updating(r)
        /\ \/ status' = IF r \in sampled THEN [status EXCEPT ![r] = "decode"] ELSE status
           \/ status' = [status EXCEPT ![r] = "finished"]
    BY <1>6 DEF UpdateUnfinished, UpdateFinished, FinishRequest
  <2>2. /\ r \in Range(scheduled) /\ Range(scheduled') = Range(scheduled) \ {r}
        /\ computed' = [computed EXCEPT ![r] = computed[r] + tokens[r]]
        /\ cached' = cached /\ tokens' = tokens
    BY <2>1, HeadOfScheduled, UpdateFacts DEF Updating
  <2>3. status'[r] # "prefill"
    <3> SUFFICES ASSUME status[r] = "prefill" PROVE r \in sampled
      BY <1>0, <2>1 DEF TypeOK
    <3>1. CASE Prefilling(r)
      <4>1. tokens[r] = PromptLength[r] - computed[r]
        BY <1>0, <2>1, <2>2, <3>1, RemainingAfterUpdate
      <4>2. computed[r] \in Nat /\ PromptLength[r] \in Nat
        BY <1>0, AmountsTyped DEF TypeOK
      <4>3. computed[r] + tokens[r] >= PromptLength[r]
        BY <4>1, <4>2
      <4> QED BY <2>1, <4>3, UpdateFacts
    <3>2. CASE ~Prefilling(r)
      BY <2>1, <3>2, RemainingAfterUpdate
    <3> QED BY <3>1, <3>2
  <2>4. ASSUME NEW s \in Requests \ {r}
        PROVE  status'[s] = status[s] /\ computed'[s] = computed[s] /\ cached'[s] = cached[s]
    BY <1>0, <2>1, <2>2 DEF TypeOK
  <2>5. \A s \in Requests : status'[s] = "prefill" => computed'[s] = cached'[s]
    BY <1>0, <2>3, <2>4
  <2>6. ASSUME NEW s \in Range(scheduled'), Prefilling(s)'
        PROVE  tokens'[s] = RemainingPrefill(s)'
    <3>1. s \in Range(scheduled) /\ s \in Requests \ {r}
      BY <1>0, <2>2
    <3>2. Prefilling(s) /\ RemainingPrefill(s)' = RemainingPrefill(s) /\ tokens'[s] = tokens[s]
      BY <2>2, <2>4, <2>6, <3>1 DEF Prefilling, RemainingPrefill
    <3> QED BY <1>0, <3>1, <3>2
  <2> QED BY <2>5, <2>6
<1>7. CASE Reset
  <2>1. scheduled' = <<>> /\ \A r \in Requests : status'[r] = "absent"
    BY <1>0, <1>7 DEF Reset, output, LocalsOK
  <2> QED BY <1>0, <2>1
<1>8. ASSUME NEW r \in Requests, SkipRequest(r) \/ PassOver(r)
      PROVE  Goal
  BY <1>1, <1>8 DEF SkipRequest, PassOver, requests, output
<1>9. ASSUME NEW r \in Requests, SelectRaises(r)
      PROVE  Goal
  BY <1>2, <1>9 DEF SelectRaises, StepEnds, requests
<1>10. CASE EndAdmission \/ EndSelection \/ ExecuteModel
  BY <1>1, <1>10 DEF EndAdmission, EndSelection, ExecuteModel, requests, output
<1>11. CASE EndUpdate
  BY <1>2, <1>11 DEF EndUpdate, StepEnds, requests
<1>12. CASE BeginStep
  BY <1>1, <1>12 DEF BeginStep, requests
<1>13. CASE UNCHANGED vars
  BY <1>1, <1>13 DEF vars
<1> QED BY <1>3, <1>4, <1>5, <1>6, <1>7, <1>8, <1>9, <1>10, <1>11, <1>12, <1>13
        DEF Next, Advance

(* Without chunked prefill no prompt is ever computed in part: whatever the   *)
(* budget, a prompt passed over or a step abandoned leaves it as it was       *)
(* admitted, and the step that computes it takes the request to decode.       *)
THEOREM PromptsWhole == Spec => []PromptsComputedWhole
<1>1. Init => WholeOK
  BY DEF Init, Idle, WholeOK, PromptsComputedWhole, Range
<1>2. WholeOK => PromptsComputedWhole
  BY DEF WholeOK
<1> QED BY <1>1, <1>2, Inductive, StepWhole, PTL DEF Spec

-----------------------------------------------------------------------------
(* What the model runner knows.  A finished request it still holds is named   *)
(* in the notice on its way, and a request it was sent is held from the       *)
(* execution of that step on.  An abandoned step would lose the notice: no    *)
(* prompt may be larger than a step's budget unless it comes in chunks.       *)
PromptsFit == ChunkedPrefill \/ \A r \in Requests : PromptLength[r] <= MaxNumScheduledTokens

OnItsWay == IF pc \in {"admitting", "selecting", "executing"}
            THEN finished_since \cup finished_ids ELSE finished_since
SentNow == IF pc = "executing" THEN Range(scheduled) ELSE {}

RunnerOK ==
    /\ PromptsFit
    /\ runner_cache \cap Finished \subseteq OnItsWay
    /\ Running \cap sent \subseteq runner_cache \cup SentNow
    /\ sent \subseteq Running \cup Finished
    /\ finished_since \subseteq Finished
    /\ finished_ids \subseteq Finished
    /\ pc = "idle" => finished_ids = {}

LEMMA NoneTooLarge ==
    ASSUME TypeOK, PromptsFit, NEW r \in Requests
    PROVE  ~TooLarge(r)
<1> SUFFICES ASSUME Whole(r) PROVE ~(DesiredTokens(r) > MaxNumScheduledTokens)
  BY DEF TooLarge
<1>1. /\ cached[r] \in Nat /\ computed[r] \in Nat /\ PromptLength[r] \in Nat
      /\ PromptLength[r] <= MaxNumScheduledTokens
  BY AmountsTyped DEF TypeOK, PromptsFit, Whole
<1>2. RemainingPrefill(r) \in Nat /\ RemainingPrefill(r) <= PromptLength[r]
  BY <1>1 DEF RemainingPrefill, Larger
<1>3. DesiredTokens(r) = 1 \/ DesiredTokens(r) = RemainingPrefill(r)
  BY DEF DesiredTokens, Whole
<1> QED BY <1>1, <1>2, <1>3, BudgetAssumption

LEMMA StepRunner == IInv /\ IInv' /\ RunnerOK /\ [Next]_vars => RunnerOK'
<1> SUFFICES ASSUME IInv, IInv', RunnerOK, [Next]_vars
             PROVE  RunnerOK'
  OBVIOUS
<1>0. /\ TypeOK /\ TypeOK' /\ QueuesMatchStatus /\ LocalsOK /\ PromptsFit /\ PromptsFit'
      /\ Range(scheduled) \subseteq Running /\ Running \cap Finished = {}
  BY DEF IInv, LocalsOK, RunnerOK, PromptsFit, Running, Finished
<1>1. ASSUME NEW r \in Requests, AddRequest(r) PROVE RunnerOK'
  <2>1. /\ pc = "idle" /\ status[r] = "absent" /\ status' = [status EXCEPT ![r] = "waiting"]
        /\ UNCHANGED <<runner_cache, sent, finished_since, finished_ids, pc, scheduled>>
    BY <1>1 DEF AddRequest, output
  <2>2. Running' = Running /\ Finished' = Finished
    BY <1>0, <2>1 DEF Running, Finished, TypeOK
  <2> QED BY <1>0, <2>1, <2>2 DEF RunnerOK, OnItsWay, SentNow
<1>2. CASE BeginStep
  <2>1. /\ pc = "idle" /\ pc' = "admitting" /\ finished_ids' = finished_since
        /\ finished_since' = {} /\ UNCHANGED <<runner_cache, sent, status>>
    BY <1>2 DEF BeginStep, requests
  <2>2. Running' = Running /\ Finished' = Finished
    BY <2>1 DEF Running, Finished
  <2> QED BY <1>0, <2>1, <2>2 DEF RunnerOK, OnItsWay, SentNow
<1>3. ASSUME NEW r \in Requests, NEW l \in 0 .. PromptLength[r], AdmitRequest(r, l)
      PROVE  RunnerOK'
  <2>1. /\ pc = "admitting" /\ waiting # <<>> /\ r = Head(waiting)
        /\ status' = [status EXCEPT ![r] = "prefill"]
        /\ UNCHANGED <<runner_cache, sent, finished_since, finished_ids, pc>>
    BY <1>3 DEF AdmitRequest, output
  <2>2. status[r] = "waiting"
    BY <1>0, <2>1, HeadOfWaiting
  <2>3. Running' = Running \cup {r}
    BY <1>0, <2>1, <2>2 DEF Running, TypeOK
  <2>4. Finished' = Finished
    BY <1>0, <2>1, <2>2 DEF Finished, TypeOK
  <2>5. r \notin sent
    BY <2>2 DEF RunnerOK, Running, Finished
  <2> QED BY <1>0, <2>1, <2>3, <2>4, <2>5 DEF RunnerOK, OnItsWay, SentNow
<1>4. CASE EndAdmission
  <2>1. /\ pc = "admitting" /\ pc' = "selecting"
        /\ UNCHANGED <<runner_cache, sent, finished_since, finished_ids, status>>
    BY <1>4 DEF EndAdmission, requests, output
  <2> QED BY <1>0, <2>1 DEF RunnerOK, OnItsWay, SentNow, Running, Finished
<1>5. CASE EndSelection
  <2>1. /\ pc = "selecting" /\ pc' = "executing" /\ sent' = sent \cup Range(scheduled)
        /\ UNCHANGED <<runner_cache, finished_since, finished_ids, status, scheduled>>
    BY <1>5 DEF EndSelection, output
  <2>2. Running' = Running /\ Finished' = Finished
    BY <2>1 DEF Running, Finished
  <2> QED BY <1>0, <2>1, <2>2 DEF RunnerOK, OnItsWay, SentNow
<1>6. CASE ExecuteModel
  <2>1. /\ pc = "executing" /\ pc' = "updating"
        /\ runner_cache' = (runner_cache \cup Range(scheduled)) \ finished_ids
        /\ UNCHANGED <<sent, finished_since, finished_ids, status, scheduled>>
    BY <1>6 DEF ExecuteModel, RunnerCacheAfterStep, requests, output
  <2>2. Running' = Running /\ Finished' = Finished
    BY <2>1 DEF Running, Finished
  <2> QED BY <1>0, <2>1, <2>2 DEF RunnerOK, OnItsWay, SentNow
<1>7. ASSUME NEW r \in Requests, UpdateUnfinished(r) PROVE RunnerOK'
  <2>1. /\ Updating(r) /\ pc = "updating"
        /\ status' = IF r \in sampled THEN [status EXCEPT ![r] = "decode"] ELSE status
        /\ UNCHANGED <<runner_cache, sent, finished_since, finished_ids, pc>>
    BY <1>7 DEF UpdateUnfinished, Updating
  <2>2. r \in Running
    BY <2>1, HeadOfScheduled
  <2>3. Running' = Running
    BY <1>0, <2>1, <2>2 DEF Running, TypeOK
  <2>4. Finished' = Finished
    BY <1>0, <2>1, <2>2 DEF Running, Finished, TypeOK
  <2> QED BY <1>0, <2>1, <2>3, <2>4 DEF RunnerOK, OnItsWay, SentNow
<1>8. ASSUME NEW r \in Requests, UpdateFinished(r) PROVE RunnerOK'
  <2>1. /\ Updating(r) /\ pc = "updating"
        /\ status' = [status EXCEPT ![r] = "finished"]
        /\ finished_since' = finished_since \cup {r}
        /\ UNCHANGED <<runner_cache, sent, finished_ids, pc>>
    BY <1>8 DEF UpdateFinished, FinishRequest, Updating
  <2>2. Running' = Running \ {r}
    BY <1>0, <2>1 DEF Running, TypeOK
  <2>3. Finished' = Finished \cup {r}
    BY <1>0, <2>1 DEF Finished, TypeOK
  <2> QED BY <1>0, <2>1, <2>2, <2>3 DEF RunnerOK, OnItsWay, SentNow
<1>9. CASE EndUpdate
  <2>1. /\ pc = "updating" /\ pc' = "idle" /\ finished_ids' = {}
        /\ UNCHANGED <<runner_cache, sent, finished_since, status>>
    BY <1>9 DEF EndUpdate, StepEnds, requests
  <2>2. Running' = Running /\ Finished' = Finished
    BY <2>1 DEF Running, Finished
  <2> QED BY <1>0, <2>1, <2>2 DEF RunnerOK, OnItsWay, SentNow
<1>10. CASE Reset
  <2>1. /\ pc = "idle" /\ pc' = "idle" /\ runner_cache' = {} /\ sent' = {}
        /\ finished_since' = {} /\ UNCHANGED finished_ids
    BY <1>10 DEF Reset, output
  <2> QED BY <1>0, <2>1 DEF RunnerOK, OnItsWay, SentNow
<1>11. ASSUME NEW r \in Requests, SkipRequest(r) \/ SelectRequest(r) \/ PassOver(r)
       PROVE  RunnerOK'
  <2>1. /\ pc \in {"admitting", "selecting"} /\ pc' = pc
        /\ UNCHANGED <<runner_cache, sent, finished_since, finished_ids, status>>
    BY <1>11 DEF SkipRequest, SelectRequest, PassOver, Selecting, requests, output
  <2>2. Running' = Running /\ Finished' = Finished
    BY <2>1 DEF Running, Finished
  <2> QED BY <1>0, <2>1, <2>2 DEF RunnerOK, OnItsWay, SentNow
<1>12. ASSUME NEW r \in Requests, SelectRaises(r) PROVE RunnerOK'
  BY <1>0, <1>12, NoneTooLarge DEF SelectRaises
<1>13. CASE UNCHANGED vars
  BY <1>0, <1>13 DEF vars, RunnerOK, OnItsWay, SentNow, Running, Finished
<1> QED BY <1>1, <1>2, <1>3, <1>4, <1>5, <1>6, <1>7, <1>8, <1>9, <1>10, <1>11, <1>12,
           <1>13 DEF Next, Advance

(* ModelRunner: unless a prompt is larger than any step's budget, the runner's *)
(* request cache keeps no finished request it was told of and lacks no running *)
(* request it was sent, however requests finish, overlap and restart.          *)
THEOREM RunnerCurrent == PromptsFit /\ Spec => []RunnerCacheCurrent
<1>1. PromptsFit /\ Init => RunnerOK
  BY DEF Init, Idle, RunnerOK, Running, Finished, OnItsWay, SentNow
<1>2. IInv /\ RunnerOK => RunnerCacheCurrent
  BY DEF IInv, QueuesMatchStatus, RunnerOK, RunnerCacheCurrent, OnItsWay, SentNow
<1> QED BY <1>1, <1>2, Inductive, StepRunner, PTL DEF Spec

-----------------------------------------------------------------------------
(* The memory the policy has on its books: a sum over the running requests,   *)
(* to which an admission adds one term and from which a completion takes one. *)
KvSizes == [r \in Requests |-> EstimatedKvSize(r)]

LEMMA KvSizesTyped ==
    ASSUME TypeOK
    PROVE  /\ KvSizes \in [Requests -> Nat] /\ KvSizes \in [Requests -> Int]
           /\ \A r \in Requests : KvSizes[r] = EstimatedKvSize(r)
           /\ \A R \in SUBSET Requests : SumFunctionOnSet(KvSizes, R) \in Nat
<1>1. \A r \in Requests : EstimatedKvSize(r) \in Nat
  BY AmountsTyped
<1>2. KvSizes \in [Requests -> Nat] /\ KvSizes \in [Requests -> Int]
  BY <1>1 DEF KvSizes
<1>3. \A R \in SUBSET Requests : SumFunctionOnSet(KvSizes, R) \in Nat
  BY <1>2, SumNat, RequestsAssumption
<1> QED BY <1>2, <1>3 DEF KvSizes

LEMMA FinishMemory ==
    ASSUME TypeOK, MemoryMatchesRunning, NEW r \in Running, FinishRequest(r)
    PROVE  MemoryMatchesRunning'
<1> DEFINE Sum(R) == SumFunctionOnSet(KvSizes, R)
<1>1. /\ Running \in SUBSET Requests /\ MemoryBudget \in Nat
      /\ current_memory = Sum(Running) /\ current_memory <= MemoryBudget
      /\ Sum(Running) \in Nat /\ r \in Requests
  BY PolicyAssumption, KvSizesTyped DEF MemoryMatchesRunning, KvSizes, Running
<1>2. Running' = Running \ {r}
  BY <1>1 DEF FinishRequest, Running, TypeOK
<1>3. Sum(Running) = KvSizes[r] + Sum(Running \ {r})
  BY <1>1, KvSizesTyped, SumRemove, RequestsAssumption
<1>4. Sum(Running \ {r}) \in Nat /\ KvSizes[r] \in Nat
  BY <1>1, KvSizesTyped
<1>5. current_memory' = Larger(0, current_memory - KvSizes[r])
  BY <1>1, KvSizesTyped DEF FinishRequest, MemoryAfter
<1> HIDE DEF Sum
<1>6. current_memory' = Sum(Running') /\ current_memory' <= MemoryBudget
  BY <1>1, <1>2, <1>3, <1>4, <1>5 DEF Larger
<1> QED BY <1>6 DEF Sum, MemoryMatchesRunning, KvSizes, EstimatedKvSize

LEMMA StepMemory == IInv /\ MemoryMatchesRunning /\ [Next]_vars => MemoryMatchesRunning'
<1> SUFFICES ASSUME IInv, MemoryMatchesRunning, [Next]_vars
             PROVE  MemoryMatchesRunning'
  OBVIOUS
<1> DEFINE Sum(R) == SumFunctionOnSet(KvSizes, R)
<1>1. /\ TypeOK /\ Running \in SUBSET Requests /\ MemoryBudget \in Nat
      /\ current_memory = Sum(Running) /\ current_memory <= MemoryBudget
      /\ Sum(Running) \in Nat
  BY PolicyAssumption, KvSizesTyped DEF IInv, MemoryMatchesRunning, KvSizes, Running
<1>2. SUFFICES current_memory' = Sum(Running') /\ current_memory' <= MemoryBudget
  BY DEF MemoryMatchesRunning, KvSizes, EstimatedKvSize
<1>3. ASSUME current_memory' = current_memory, Running' = Running
      PROVE  current_memory' = Sum(Running') /\ current_memory' <= MemoryBudget
  BY <1>1, <1>3
<1>4. ASSUME NEW r \in Requests, AddRequest(r)
      PROVE  current_memory' = current_memory /\ Running' = Running
  BY <1>1, <1>4 DEF AddRequest, policy, Running, TypeOK
<1>5. ASSUME NEW r \in Requests, NEW l \in 0 .. PromptLength[r], AdmitRequest(r, l)
      PROVE  current_memory' = Sum(Running') /\ current_memory' <= MemoryBudget
  <2>1. /\ current_memory' = current_memory + KvSizes[r]
        /\ current_memory' <= MemoryBudget
    BY <1>1, <1>5, KvSizesTyped DEF AdmitRequest, CanAdmit
  <2>2. r \notin Running
    BY <1>1, <1>5, HeadOfWaiting DEF IInv, AdmitRequest, Running
  <2>3. Running' = Running \cup {r}
    BY <1>1, <1>5 DEF AdmitRequest, Running, TypeOK
  <2>4. Sum(Running \cup {r}) = Sum(Running) + KvSizes[r]
    BY <1>1, <2>2, KvSizesTyped, SumAdd, RequestsAssumption
  <2> QED BY <1>1, <2>1, <2>3, <2>4
<1>6. ASSUME NEW r \in Requests, UpdateUnfinished(r)
      PROVE  current_memory' = current_memory /\ Running' = Running
  <2>1. r \in Running
    BY <1>6, HeadOfScheduled DEF UpdateUnfinished
  <2> QED BY <1>1, <1>6, <2>1 DEF UpdateUnfinished, policy, Running, TypeOK
<1>7. ASSUME NEW r \in Requests, UpdateFinished(r)
      PROVE  current_memory' = Sum(Running') /\ current_memory' <= MemoryBudget
  <2>1. MemoryMatchesRunning'
    BY <1>1, <1>7, HeadOfScheduled, FinishMemory DEF UpdateFinished
  <2> QED BY <2>1 DEF MemoryMatchesRunning, KvSizes, EstimatedKvSize
<1>8. CASE Reset
  <2>1. Running' = {} /\ current_memory' = 0
    BY <1>8 DEF Reset, Running
  <2>2. Sum({}) = 0
    BY FS_EmptySet, SumOfRest
  <2> QED BY <1>1, <2>1, <2>2
<1>9. ASSUME \/ BeginStep \/ EndAdmission \/ EndSelection \/ ExecuteModel \/ EndUpdate
             \/ \E r \in Requests :
                    SkipRequest(r) \/ SelectRequest(r) \/ PassOver(r) \/ SelectRaises(r)
             \/ UNCHANGED vars
      PROVE  current_memory' = current_memory /\ Running' = Running
  BY <1>9 DEF BeginStep, SkipRequest, EndAdmission, SelectRequest, PassOver, SelectRaises,
              EndSelection, ExecuteModel, EndUpdate, requests, policy, vars, Running
<1> QED BY <1>3, <1>4, <1>5, <1>6, <1>7, <1>8, <1>9 DEF Next, Advance

LEMMA InitMemory == Init => MemoryMatchesRunning
<1> SUFFICES ASSUME Init
             PROVE  MemoryMatchesRunning
  OBVIOUS
<1>1. Running = {} /\ current_memory = 0
  BY DEF Init, Running
<1>2. SumFunctionOnSet([r \in Requests |-> EstimatedKvSize(r)], {}) = 0
  BY FS_EmptySet, SumOfRest
<1> QED BY <1>1, <1>2, PolicyAssumption DEF MemoryMatchesRunning

(* MemoryBudgetPolicy: the memory on its books is what the running requests   *)
(* were estimated to need, for any number of them and any sizes, so the       *)
(* budget is kept and the clamp at zero never hides an imbalance.             *)
THEOREM MemoryCorrect == Spec => []MemoryMatchesRunning
BY InitMemory, StepMemory, Inductive, PTL DEF Spec
=============================================================================
