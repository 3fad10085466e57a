---------------------------- MODULE ScriptsProofs ----------------------------
(***************************************************************************)
(* Proofs about the scripts beside the service: about BenchmarkArtifacts,  *)
(* and through it HFGeneration, for every number of requests, batch size,  *)
(* token limit and number of runs, and every set of output directories;    *)
(* and about ProfilingSession for every set of variants, every mapping to  *)
(* models, and any number of attempts, polls, kills and interrupts.        *)
(***************************************************************************)
EXTENDS BenchmarkArtifacts, ProfilingSession, FiniteSetTheorems, FunctionTheorems, SequenceTheorems, TLAPS

-----------------------------------------------------------------------------
(* A function on 1 .. n is a sequence. *)
LEMMA SequenceOf ==
    ASSUME NEW S, NEW n \in Nat, NEW f \in [1 .. n -> S]
    PROVE  f \in Seq(S) /\ Len(f) = n /\ DOMAIN f = 1 .. n
BY SeqDef, LenProperties


(* The calls of the model a row takes a token from: those before its end. *)
CallsBefore(s, i) == {k \in 1 .. Len(s) : \A j \in 1 .. k : i \notin s[j]}
EndedIn(s, i) == \E k \in 1 .. Len(s) : i \in s[k]

LEMMA CallsCounted ==
    ASSUME NEW S, NEW s \in Seq(S), NEW i
    PROVE  /\ Cardinality(CallsBefore(s, i)) \in 0 .. Len(s)
           /\ ~EndedIn(s, i) => Cardinality(CallsBefore(s, i)) = Len(s)
<1>1. Len(s) \in Nat /\ IsFiniteSet(1 .. Len(s)) /\ Cardinality(1 .. Len(s)) = Len(s)
  <2>1. Len(s) \in Nat
    BY LenProperties
  <2> QED BY <2>1, FS_Interval
<1>2. CallsBefore(s, i) \in SUBSET (1 .. Len(s))
  BY DEF CallsBefore
<1>3. /\ Cardinality(CallsBefore(s, i)) \in Nat
      /\ Cardinality(CallsBefore(s, i)) <= Len(s)
  BY <1>1, <1>2, FS_Subset, FS_CardinalityType
<1>4. ~EndedIn(s, i) => CallsBefore(s, i) = 1 .. Len(s)
  BY DEF CallsBefore, EndedIn
<1> QED BY <1>1, <1>3, <1>4

LEMMA NextCallCounted ==
    ASSUME NEW S, NEW s \in Seq(S), NEW e \in S, NEW i
    PROVE  /\ EndedIn(Append(s, e), i) <=> EndedIn(s, i) \/ i \in e
           /\ Cardinality(CallsBefore(Append(s, e), i)) =
                  IF EndedIn(s, i) \/ i \in e THEN Cardinality(CallsBefore(s, i))
                  ELSE Cardinality(CallsBefore(s, i)) + 1
<1> DEFINE t == Append(s, e)
<1>1. /\ Len(s) \in Nat /\ Len(t) = Len(s) + 1 /\ t \in Seq(S)
      /\ \A k \in 1 .. Len(s) : t[k] = s[k]
      /\ t[Len(s) + 1] = e
  BY AppendProperties
<1> HIDE DEF t
<1>2. EndedIn(t, i) <=> EndedIn(s, i) \/ i \in e
  BY <1>1 DEF EndedIn
<1>3. ASSUME EndedIn(s, i) \/ i \in e
      PROVE  CallsBefore(t, i) = CallsBefore(s, i)
  <2>1. Len(t) \notin CallsBefore(t, i)
    BY <1>1, <1>3 DEF CallsBefore, EndedIn
  <2> QED BY <1>1, <2>1 DEF CallsBefore
<1>4. ASSUME ~EndedIn(s, i), i \notin e
      PROVE  Cardinality(CallsBefore(t, i)) = Cardinality(CallsBefore(s, i)) + 1
  <2>1. ~EndedIn(t, i)
    BY <1>2, <1>4
  <2> QED BY <1>1, <1>4, <2>1, CallsCounted
<1> QED BY <1>2, <1>3, <1>4 DEF t

-----------------------------------------------------------------------------
(* One case of hf_benchmark.py. *)

InBatch == phase \in {"prefill", "decode", "returned"}

(* Where each variable of the case is in use. *)
CaseShape ==
    /\ phase = "idle" => stage = "warmup" /\ offset = 0
    /\ ~InBatch => batch = <<>> /\ finished = {} /\ said = <<>>
    /\ phase = "prefill" => said = <<>>
    /\ InBatch =>
           /\ offset < HF!Prompts /\ Len(batch) = HF!BatchSize
           /\ \A i \in HF!Rows : batch[i].id = HF!RequestOffset + i - 1

(* A row against the calls of the model. *)
RowAgrees(i) ==
    /\ i \in finished <=> EndedIn(said, i)
    /\ batch[i].tokens = Cardinality(CallsBefore(said, i))
    /\ batch[i].ok <=> batch[i].tokens > 0
    /\ phase # "returned" => batch[i].error = ""

RecordsAgree ==
    /\ stage = "warmup" => records = <<>> /\ phase # "done"
    /\ stage = "measure" /\ phase # "done" =>
           Len(records) = IF offset <= RequestsCount THEN offset ELSE RequestsCount
    /\ phase = "done" => Len(records) = RequestsCount
    /\ \A i \in DOMAIN records : records[i].id = i - 1

CaseInv ==
    /\ HF!TypeOK /\ CaseShape
    /\ \A i \in HF!Rows : RowAgrees(i)
    /\ ErrorsTell
    /\ RecordsAgree

(* What Init and the end of a case leave behind. *)
AtStart ==
    /\ phase = "idle" /\ stage = "warmup" /\ offset = 0
    /\ batch = <<>> /\ finished = {} /\ said = <<>> /\ records = <<>>

(* The start of a case, and its steps. *)
LEMMA CaseStarts == AtStart => CaseInv
<1> SUFFICES ASSUME AtStart PROVE CaseInv
  OBVIOUS
<1> USE DEF AtStart
<1>1. HF!Rows = {}
  BY DEF HF!Rows
<1>2. HF!TypeOK
  BY <1>1, CaseAssumption DEF HF!TypeOK, HF!Phases, HF!Record
<1> QED BY <1>1, <1>2 DEF CaseInv, CaseShape, InBatch, ErrorsTell, HF!ErrorsTell, RecordsAgree

LEMMA BeginKeeps ==
    ASSUME CaseInv, HF!Begin
    PROVE  CaseInv'
<1>1. HF!Rows' = HF!Rows
  BY DEF HF!Begin, HF!Rows
<1>2. HF!TypeOK'
  BY <1>1 DEF CaseInv, HF!Begin, HF!TypeOK, HF!Phases
<1>3. HF!Rows = {}
  BY DEF CaseInv, CaseShape, InBatch, HF!Begin, HF!Rows
<1> QED BY <1>1, <1>2, <1>3
        DEF CaseInv, CaseShape, InBatch, ErrorsTell, HF!ErrorsTell, RecordsAgree, HF!Begin

LEMMA BatchSizeFacts ==
    ASSUME HF!TypeOK, offset < HF!Prompts
    PROVE  /\ HF!Prompts \in Nat /\ HF!BatchSize \in Nat
           /\ HF!BatchSize = IF offset + Concurrency <= HF!Prompts THEN Concurrency
                             ELSE HF!Prompts - offset
           /\ HF!RequestOffset \in Int
           /\ stage = "measure" => HF!Prompts = RequestsCount /\ HF!RequestOffset = offset
BY CaseAssumption DEF HF!TypeOK, HF!Prompts, HF!BatchSize, HF!RequestOffset

LEMMA StartBatchKeeps ==
    ASSUME CaseInv, HF!StartBatch
    PROVE  CaseInv'
<1>1. /\ phase = "batch" /\ offset < HF!Prompts /\ phase' = "prefill"
      /\ batch' = [i \in 1 .. HF!BatchSize |-> HF!NewRecord(HF!RequestOffset + i - 1)]
      /\ finished' = {} /\ said' = <<>>
      /\ UNCHANGED <<stage, offset, records>>
      /\ HF!Prompts' = HF!Prompts /\ HF!BatchSize' = HF!BatchSize
      /\ HF!RequestOffset' = HF!RequestOffset
  BY DEF HF!StartBatch, HF!Prompts, HF!BatchSize, HF!RequestOffset
<1>2. HF!BatchSize \in Nat /\ HF!RequestOffset \in Int
  BY <1>1, BatchSizeFacts DEF CaseInv
<1>3. \A i \in 1 .. HF!BatchSize :
          /\ batch'[i] \in HF!Record /\ batch'[i].id = HF!RequestOffset + i - 1
          /\ ~batch'[i].ok /\ batch'[i].tokens = 0 /\ batch'[i].error = ""
  <2>1. SUFFICES ASSUME NEW i \in 1 .. HF!BatchSize
                 PROVE  /\ batch'[i] \in HF!Record
                        /\ batch'[i].id = HF!RequestOffset + i - 1
                        /\ ~batch'[i].ok /\ batch'[i].tokens = 0 /\ batch'[i].error = ""
    OBVIOUS
  <2>2. PICK n : n = HF!RequestOffset + i - 1
    OBVIOUS
  <2>3. n \in Int
    BY <1>2, <2>2
  <2>4. batch'[i] = [id |-> n, ok |-> FALSE, tokens |-> 0, error |-> ""]
    BY <1>1, <2>2 DEF HF!NewRecord
  <2>5. PICK x : x = batch'[i]
    OBVIOUS
  <2>6. x = [id |-> n, ok |-> FALSE, tokens |-> 0, error |-> ""]
    BY <2>4, <2>5, Zenon
  <2>7. /\ x \in HF!Record
        /\ x.id = n /\ ~x.ok /\ x.tokens = 0 /\ x.error = ""
    <3>1. 0 \in 0 .. MaxTokens
      BY CaseAssumption
    <3>2. x \in HF!Record
      BY <2>3, <2>6, <3>1 DEF HF!Record
    <3> QED BY <2>6, <3>2
  <2> QED BY <2>2, <2>5, <2>7
<1>4. batch' \in Seq(HF!Record) /\ Len(batch') = HF!BatchSize
      /\ HF!Rows' = 1 .. HF!BatchSize
  <2>1. batch' \in [1 .. HF!BatchSize -> HF!Record]
    BY <1>1, <1>3
  <2>2. batch' \in Seq(HF!Record) /\ DOMAIN batch' = 1 .. HF!BatchSize
    BY <1>2, <2>1, SeqDef
  <2> QED BY <1>2, <2>2, LenProperties DEF HF!Rows
<1>5. HF!TypeOK'
  BY <1>1, <1>4, CaseAssumption DEF CaseInv, HF!TypeOK, HF!Phases
<1>6. CaseShape'
  BY <1>1, <1>3, <1>4 DEF CaseShape, InBatch
<1>7. \A i \in HF!Rows' : RowAgrees(i)'
  <2>1. \A i : CallsBefore(<<>>, i) = {} /\ ~EndedIn(<<>>, i)
    BY DEF CallsBefore, EndedIn
  <2>2. SUFFICES ASSUME NEW i \in HF!Rows'
                 PROVE  RowAgrees(i)'
    OBVIOUS
  <2>3. /\ said' = <<>> /\ finished' = {} /\ batch'[i].tokens = 0
        /\ ~batch'[i].ok /\ batch'[i].error = ""
    BY <1>1, <1>3, <1>4
  <2>4. Cardinality(CallsBefore(said', i)) = 0 /\ ~EndedIn(said', i)
    BY <2>1, <2>3, FS_EmptySet
  <2>5. ~(batch'[i].tokens > 0)
    <3>1. ~(0 > 0)
      OBVIOUS
    <3> QED BY <2>3, <3>1, Zenon
  <2> QED BY <2>3, <2>4, <2>5, Zenon DEF RowAgrees
<1> QED BY <1>1, <1>5, <1>6, <1>7
        DEF CaseInv, ErrorsTell, HF!ErrorsTell, RecordsAgree

(* What a step that keeps the batch needs to show. *)
LEMMA SameBatch ==
    ASSUME CaseInv, UNCHANGED <<batch, finished, said>>,
           phase' # "returned" => phase # "returned"
    PROVE  /\ HF!Rows' = HF!Rows
           /\ batch' \in Seq(HF!Record) /\ finished' \subseteq HF!Rows'
           /\ said' \in Seq(SUBSET HF!Rows') /\ Len(said') <= MaxTokens
           /\ \A i \in HF!Rows' : RowAgrees(i)'
<1>1. HF!Rows' = HF!Rows
  BY DEF HF!Rows
<1>2. ASSUME NEW i \in HF!Rows
      PROVE  RowAgrees(i)'
  BY <1>2, Zenon DEF CaseInv, RowAgrees
<1> QED BY <1>1, <1>2 DEF CaseInv, HF!TypeOK

LEMMA TokenizerRaisesKeeps ==
    ASSUME CaseInv, HF!TokenizerRaises
    PROVE  CaseInv'
<1>1. /\ phase = "batch" /\ phase' = "raised"
      /\ UNCHANGED <<stage, offset, batch, finished, said, records>>
  BY DEF HF!TokenizerRaises
<1>2. HF!TypeOK' /\ \A i \in HF!Rows' : RowAgrees(i)'
  BY <1>1, SameBatch DEF CaseInv, HF!TypeOK, HF!Phases
<1> QED BY <1>1, <1>2
        DEF CaseInv, CaseShape, InBatch, ErrorsTell, HF!ErrorsTell, RecordsAgree

LEMMA EndLoopKeeps ==
    ASSUME CaseInv, HF!EndLoop
    PROVE  CaseInv'
<1>1. /\ phase = "batch" /\ phase' \in {"batch", "done"} /\ offset >= HF!Prompts
      /\ offset' = 0 /\ stage' = "measure"
      /\ phase' = "batch" <=> stage = "warmup"
      /\ UNCHANGED <<batch, finished, said, records>>
  BY DEF HF!EndLoop, CaseInv, HF!TypeOK
<1>2. HF!TypeOK' /\ \A i \in HF!Rows' : RowAgrees(i)'
  BY <1>1, SameBatch DEF CaseInv, HF!TypeOK, HF!Phases
<1>3. CaseShape'
  BY <1>1 DEF CaseInv, CaseShape, InBatch
<1>4. RecordsAgree'
  BY <1>1, CaseAssumption DEF CaseInv, HF!TypeOK, RecordsAgree, HF!Prompts
<1> QED BY <1>1, <1>2, <1>3, <1>4 DEF CaseInv, ErrorsTell, HF!ErrorsTell

(* A call of the model: prefill, or one more round of the decode loop. *)
LEMMA TokenKeeps ==
    ASSUME CaseInv, NEW eos \in SUBSET HF!Rows, HF!Token(eos),
           phase \in {"prefill", "decode"}, phase' = "decode", Len(said) < MaxTokens,
           UNCHANGED <<stage, offset, records>>
    PROVE  CaseInv'
<1>1. /\ batch \in Seq(HF!Record) /\ HF!Rows = 1 .. Len(batch) /\ Len(batch) \in Nat
      /\ said \in Seq(SUBSET HF!Rows) /\ Len(said) \in Nat /\ finished \subseteq HF!Rows
  BY LenProperties DEF CaseInv, HF!TypeOK, HF!Rows
<1>2. /\ batch' = [i \in HF!Rows |->
             IF i \in HF!Unfinished \ eos
             THEN [batch[i] EXCEPT !.ok = TRUE, !.tokens = @ + 1] ELSE batch[i]]
      /\ finished' = finished \cup (HF!Unfinished \cap eos)
      /\ said' = Append(said, eos)
  BY DEF HF!Token
<1>3. /\ said' \in Seq(SUBSET HF!Rows) /\ Len(said') = Len(said) + 1
  BY <1>1, <1>2, AppendProperties
<1>4. ASSUME NEW i \in HF!Rows
      PROVE  /\ batch'[i] \in HF!Record
             /\ batch'[i].id = batch[i].id
             /\ i \in finished' <=> EndedIn(said', i)
             /\ batch'[i].tokens = Cardinality(CallsBefore(said', i))
             /\ batch'[i].ok <=> batch'[i].tokens > 0
             /\ batch'[i].error = ""
  <2>1. /\ batch[i] \in HF!Record /\ batch[i].error = ""
        /\ i \in finished <=> EndedIn(said, i)
        /\ batch[i].tokens = Cardinality(CallsBefore(said, i))
        /\ batch[i].ok <=> batch[i].tokens > 0
    <3>1. batch[i] \in HF!Record
      BY <1>1
    <3>2. RowAgrees(i) /\ phase # "returned"
      BY DEF CaseInv
    <3> QED BY <3>1, <3>2, Zenon DEF RowAgrees
  <2>2. Cardinality(CallsBefore(said, i)) \in 0 .. Len(said)
    BY <1>1, CallsCounted
  <2>3. /\ EndedIn(said', i) <=> EndedIn(said, i) \/ i \in eos
        /\ Cardinality(CallsBefore(said', i)) =
               IF EndedIn(said, i) \/ i \in eos THEN Cardinality(CallsBefore(said, i))
               ELSE Cardinality(CallsBefore(said, i)) + 1
    BY <1>1, <1>2, NextCallCounted
  <2>4. i \in finished' <=> i \in finished \/ i \in eos
    BY <1>2 DEF HF!Unfinished
  <2>5. PICK x, y : x = batch[i] /\ y = batch'[i]
    OBVIOUS
  <2>6. CASE i \in HF!Unfinished \ eos
    <3>1. y = [x EXCEPT !.ok = TRUE, !.tokens = @ + 1] /\ x \in HF!Record
      BY <1>2, <2>1, <2>5, <2>6, Zenon
    <3>2. x.tokens + 1 \in 1 .. MaxTokens
      <4>1. x.tokens = Cardinality(CallsBefore(said, i))
        BY <2>1, <2>5, Zenon
      <4> QED BY <1>1, <2>2, <4>1, CaseAssumption
    <3>3. /\ y \in HF!Record /\ y.id = x.id /\ y.ok /\ y.tokens = x.tokens + 1
          /\ y.error = x.error
      <4>1. /\ y.id = x.id /\ y.ok = TRUE /\ y.tokens = x.tokens + 1 /\ y.error = x.error
        BY <3>1 DEF HF!Record
      <4>2. y \in HF!Record
        <5>1. y = [id |-> x.id, ok |-> TRUE, tokens |-> x.tokens + 1, error |-> x.error]
          BY <3>1 DEF HF!Record
        <5>2. /\ x.id \in Int /\ x.error \in {"", "no token", "raised"}
              /\ x.tokens + 1 \in 0 .. MaxTokens
          <6>1. x.id \in Int /\ x.error \in {"", "no token", "raised"}
            BY <3>1 DEF HF!Record
          <6>2. \A n \in 1 .. MaxTokens : n \in 0 .. MaxTokens
            BY CaseAssumption
          <6> QED BY <3>2, <6>1, <6>2, Zenon
        <5>3. PICK n, t, e : n = x.id /\ t = x.tokens + 1 /\ e = x.error
          OBVIOUS
        <5>4. y = [id |-> n, ok |-> TRUE, tokens |-> t, error |-> e]
          BY <5>1, <5>3, Zenon
        <5>5. n \in Int /\ e \in {"", "no token", "raised"} /\ t \in 0 .. MaxTokens
          BY <5>2, <5>3, Zenon
        <5> QED BY <5>4, <5>5 DEF HF!Record
      <4> QED BY <4>1, <4>2
    <3>4. ~EndedIn(said, i) /\ i \notin eos
      BY <2>1, <2>6 DEF HF!Unfinished
    <3>5. ~EndedIn(said', i) /\ i \notin finished'
      BY <2>1, <2>3, <2>4, <3>4, Zenon
    <3>6. y.tokens = Cardinality(CallsBefore(said', i))
      BY <2>1, <2>3, <2>5, <3>3, <3>4, Zenon
    <3>7. y.tokens > 0
      BY <3>2, <3>3
    <3> QED BY <2>1, <2>5, <3>3, <3>5, <3>6, <3>7, Zenon
  <2>7. CASE i \notin HF!Unfinished \ eos
    <3>1. batch'[i] = batch[i]
      BY <1>2, <2>7
    <3>2. EndedIn(said, i) \/ i \in eos
      BY <2>1, <2>7 DEF HF!Unfinished
    <3> QED BY <2>1, <2>3, <2>4, <3>1, <3>2, Zenon
  <2> QED BY <2>6, <2>7
<1>5. /\ batch' \in Seq(HF!Record) /\ Len(batch') = Len(batch) /\ HF!Rows' = HF!Rows
  <2>1. batch' \in [1 .. Len(batch) -> HF!Record]
    BY <1>1, <1>2, <1>4, Zenon
  <2>2. batch' \in Seq(HF!Record) /\ DOMAIN batch' = 1 .. Len(batch)
    BY <1>1, <2>1, SequenceOf, Zenon
  <2> QED BY <1>1, <2>1, <2>2, SequenceOf, Zenon DEF HF!Rows
<1>6. finished' \subseteq HF!Rows
  BY <1>1, <1>2 DEF HF!Unfinished
<1>7. HF!TypeOK'
  <2>1. stage' \in {"warmup", "measure"} /\ offset' \in Nat
        /\ records' \in Seq([id : Int, ok : BOOLEAN]) /\ phase' \in HF!Phases
    BY DEF CaseInv, HF!TypeOK, HF!Phases
  <2>2. Len(said') <= MaxTokens
    BY <1>1, <1>3, CaseAssumption
  <2> QED BY <1>3, <1>5, <1>6, <2>1, <2>2 DEF HF!TypeOK
<1>8. CaseShape'
  BY <1>4, <1>5 DEF CaseInv, CaseShape, InBatch, HF!Prompts, HF!BatchSize, HF!RequestOffset
<1>9. \A i \in HF!Rows' : RowAgrees(i)'
  BY <1>4, <1>5, Zenon DEF RowAgrees
<1>10. RecordsAgree'
  BY DEF CaseInv, RecordsAgree
<1> QED BY <1>7, <1>8, <1>9, <1>10 DEF CaseInv, ErrorsTell, HF!ErrorsTell

LEMMA PrefillKeeps ==
    ASSUME CaseInv, NEW eos \in SUBSET HF!Rows, HF!Prefill(eos)
    PROVE  CaseInv'
<1>1. Len(said) < MaxTokens
  BY CaseAssumption DEF HF!Prefill, CaseInv, CaseShape
<1> QED BY <1>1, TokenKeeps DEF HF!Prefill

LEMMA DecodeKeeps ==
    ASSUME CaseInv, NEW eos \in SUBSET HF!Rows, HF!Decode(eos)
    PROVE  CaseInv'
BY CaseAssumption, TokenKeeps DEF HF!Decode, HF!Decoding, HF!Ended, CaseInv, HF!TypeOK

(* The records come back, some with an error. *)
WithErrors(E) == [i \in HF!Rows |-> [batch[i] EXCEPT !.error = E[i]]]

(* Every record tells, unless none has an error and the batch was cut short. *)
ErrorsFit(E) ==
    /\ E \in [HF!Rows -> {"", "no token", "raised"}]
    /\ (HF!Ended \/ \E j \in HF!Rows : E[j] # "") => \A i \in HF!Rows :
           E[i] = "" => batch[i].tokens # 0 /\ (i \in finished \/ Len(said) = MaxTokens)

LEMMA ReturnedKeeps ==
    ASSUME CaseInv, phase \in {"prefill", "decode"}, phase' = "returned",
           UNCHANGED <<stage, offset, finished, said, records>>,
           NEW E, ErrorsFit(E), batch' = WithErrors(E)
    PROVE  CaseInv'
<1>1. /\ batch \in Seq(HF!Record) /\ HF!Rows = 1 .. Len(batch) /\ Len(batch) \in Nat
      /\ said \in Seq(SUBSET HF!Rows) /\ Len(said) \in Nat
  BY LenProperties DEF CaseInv, HF!TypeOK, HF!Rows
<1>2. ASSUME NEW i \in HF!Rows
      PROVE  /\ batch'[i] \in HF!Record /\ batch'[i].id = batch[i].id
             /\ batch'[i].ok = batch[i].ok /\ batch'[i].tokens = batch[i].tokens
             /\ batch'[i].error = E[i]
  <2>1. PICK x, y, e : x = batch[i] /\ y = batch'[i] /\ e = E[i]
    OBVIOUS
  <2>2. x \in HF!Record /\ e \in {"", "no token", "raised"}
    <3>1. batch[i] \in HF!Record /\ E[i] \in {"", "no token", "raised"}
      <4>1. batch[i] \in HF!Record
        BY <1>1
      <4>2. E[i] \in {"", "no token", "raised"}
        BY DEF ErrorsFit
      <4> QED BY <4>1, <4>2
    <3> QED BY <2>1, <3>1, Zenon
  <2>3. y = [x EXCEPT !.error = e]
    BY <2>1, Zenon DEF WithErrors
  <2>4. y.id = x.id /\ y.ok = x.ok /\ y.tokens = x.tokens /\ y.error = e
    BY <2>2, <2>3 DEF HF!Record
  <2>5. y = [id |-> x.id, ok |-> x.ok, tokens |-> x.tokens, error |-> e]
    BY <2>2, <2>3 DEF HF!Record
  <2>6. x.id \in Int /\ x.ok \in BOOLEAN /\ x.tokens \in 0 .. MaxTokens
    BY <2>2 DEF HF!Record
  <2>7. y \in HF!Record
    BY <2>2, <2>5, <2>6 DEF HF!Record
  <2> QED BY <2>1, <2>4, <2>7, Zenon
<1>3. /\ batch' \in Seq(HF!Record) /\ Len(batch') = Len(batch) /\ HF!Rows' = HF!Rows
  <2>1. batch' \in [1 .. Len(batch) -> HF!Record]
    BY <1>1, <1>2, Zenon DEF WithErrors
  <2>2. batch' \in Seq(HF!Record) /\ DOMAIN batch' = 1 .. Len(batch)
    BY <1>1, <2>1, SequenceOf, Zenon
  <2> QED BY <1>1, <2>1, <2>2, SequenceOf, Zenon DEF HF!Rows
<1>4. HF!TypeOK'
  BY <1>3 DEF CaseInv, HF!TypeOK, HF!Phases
<1>5. CaseShape'
  BY <1>2, <1>3 DEF CaseInv, CaseShape, InBatch, HF!Prompts, HF!BatchSize, HF!RequestOffset
<1>6. ASSUME NEW i \in HF!Rows
      PROVE  /\ RowAgrees(i)'
             /\ HF!Ended \/ (\E j \in HF!Rows : E[j] # "") =>
                   /\ ~batch'[i].ok => batch'[i].error # ""
                   /\ batch'[i].error = "" =>
                         batch'[i].tokens = MaxTokens \/ \E k \in DOMAIN said' : i \in said'[k]
  <2>1. RowAgrees(i)
    BY DEF CaseInv
  <2>2. RowAgrees(i)'
    BY <1>2, <2>1, Zenon DEF RowAgrees
  <2>3. batch[i].tokens \in Nat
    <3>1. batch[i] \in HF!Record
      BY <1>1
    <3>2. \A x \in HF!Record : x.tokens \in Nat
      <4>1. \A x \in HF!Record : x.tokens \in 0 .. MaxTokens
        BY DEF HF!Record
      <4>2. 0 .. MaxTokens \subseteq Nat
        BY CaseAssumption
      <4> QED BY <4>1, <4>2
    <3> QED BY <3>1, <3>2, Zenon
  <2>4. ~batch'[i].ok => batch[i].tokens = 0
    <3>1. ~batch'[i].ok => ~(batch[i].tokens > 0)
      BY <1>2, <2>1, Zenon DEF RowAgrees
    <3>2. \A n \in Nat : ~(n > 0) => n = 0
      OBVIOUS
    <3> QED BY <2>3, <3>1, <3>2, Zenon
  <2> DEFINE told == HF!Ended \/ \E j \in HF!Rows : E[j] # ""
  <2>5. told /\ ~batch'[i].ok => batch'[i].error # ""
    BY <1>2, <2>4, Zenon DEF ErrorsFit
  <2>6. CASE EndedIn(said, i)
    <3>1. \E k \in DOMAIN said' : i \in said'[k]
      <4>1. DOMAIN said' = 1 .. Len(said)
        BY <1>1
      <4> QED BY <2>6, <4>1, Zenon DEF EndedIn
    <3> QED BY <2>2, <2>5, <3>1
  <2>7. CASE ~EndedIn(said, i)
    <3>1. batch[i].tokens = Len(said) /\ i \notin finished
      BY <1>1, <2>1, <2>7, CallsCounted, Zenon DEF RowAgrees
    <3>2. told /\ batch'[i].error = "" => batch'[i].tokens = MaxTokens
      BY <1>2, <3>1, Zenon DEF ErrorsFit
    <3> QED BY <2>2, <2>5, <3>2
  <2> QED BY <2>6, <2>7
<1>7. ErrorsTell' /\ \A i \in HF!Rows' : RowAgrees(i)'
  <2>1. HF!Ended' <=> HF!Ended
    BY <1>3 DEF HF!Ended, HF!Unfinished
  <2>2. (\E j \in HF!Rows' : batch'[j].error # "") <=> \E j \in HF!Rows : E[j] # ""
    BY <1>2, <1>3, Zenon
  <2> HIDE DEF HF!Ended
  <2> QED BY <1>3, <1>6, <2>1, <2>2, Zenon DEF ErrorsTell, HF!ErrorsTell
<1>8. RecordsAgree'
  BY DEF CaseInv, RecordsAgree
<1> QED BY <1>4, <1>5, <1>7, <1>8 DEF CaseInv

LEMMA ReturnKeeps ==
    ASSUME CaseInv, HF!Return
    PROVE  CaseInv'
<1> DEFINE E == [i \in HF!Rows |-> IF batch[i].tokens = 0 THEN "no token" ELSE ""]
<1>1. /\ phase = "decode" /\ ~HF!Decoding /\ phase' = "returned"
      /\ batch' = [i \in HF!Rows |->
             IF batch[i].tokens = 0 THEN [batch[i] EXCEPT !.error = "no token"] ELSE batch[i]]
      /\ UNCHANGED <<stage, offset, finished, said, records>>
  BY DEF HF!Return
<1>2. E \in [HF!Rows -> {"", "no token", "raised"}]
  OBVIOUS
<1>3. ASSUME NEW i \in HF!Rows
      PROVE  batch'[i] = [batch[i] EXCEPT !.error = E[i]]
  <2>1. CASE batch[i].tokens = 0
    BY <1>1, <2>1, Zenon
  <2>2. CASE batch[i].tokens # 0
    <3>1. PICK x : x = batch[i]
      OBVIOUS
    <3>2. x \in HF!Record /\ x.error = ""
      <4>1. batch[i] \in HF!Record
        BY DEF CaseInv, HF!TypeOK, HF!Rows
      <4>2. batch[i].error = ""
        BY <1>1, Zenon DEF CaseInv, RowAgrees
      <4> QED BY <3>1, <4>1, <4>2, Zenon
    <3>3. x = [x EXCEPT !.error = ""]
      BY <3>2 DEF HF!Record
    <3> QED BY <1>1, <2>2, <3>1, <3>3, Zenon
  <2> QED BY <2>1, <2>2
<1>4. batch' = WithErrors(E)
  BY <1>1, <1>3, Zenon DEF WithErrors
<1>5. Len(said) \in Nat /\ Len(said) <= MaxTokens
  BY LenProperties DEF CaseInv, HF!TypeOK
<1>6. ASSUME NEW i \in HF!Rows
      PROVE  i \in finished \/ Len(said) = MaxTokens
  <2>1. CASE HF!Unfinished = {}
    BY <2>1 DEF HF!Unfinished
  <2>2. CASE Len(said) >= MaxTokens
    BY <1>5, <2>2, CaseAssumption
  <2> QED BY <1>1, <2>1, <2>2 DEF HF!Decoding, HF!Ended
<1>7. \A i \in HF!Rows : E[i] = "" => batch[i].tokens # 0
  OBVIOUS
<1> HIDE DEF E
<1>8. ErrorsFit(E)
  BY <1>2, <1>6, <1>7, Zenon DEF ErrorsFit
<1> QED BY <1>1, <1>4, <1>8, ReturnedKeeps, Zenon

(* Before the prefill there is a row, and no row has ended. *)
LEMMA PrefillAhead ==
    ASSUME CaseInv, phase = "prefill"
    PROVE  ~HF!Ended
<1>1. said = <<>> /\ Len(batch) = HF!BatchSize /\ offset < HF!Prompts /\ HF!TypeOK
  BY DEF CaseInv, CaseShape, InBatch
<1>2. HF!BatchSize \in Nat /\ HF!BatchSize # 0
  <2>1. PICK size, prompts :
           /\ size = HF!BatchSize /\ prompts \in Nat /\ size \in Nat /\ offset < prompts
           /\ size = IF offset + Concurrency <= prompts THEN Concurrency ELSE prompts - offset
    BY <1>1, BatchSizeFacts
  <2>2. offset \in Nat
    BY <1>1 DEF HF!TypeOK
  <2> QED BY <2>1, <2>2, CaseAssumption
<1>3. 1 \in HF!Rows
  <2>1. HF!Rows = 1 .. Len(batch)
    BY <1>1, LenProperties DEF HF!Rows, HF!TypeOK
  <2> QED BY <1>1, <1>2, <2>1
<1>4. Len(said) = 0
  BY <1>1
<1>5. ~EndedIn(said, 1)
  BY <1>4 DEF EndedIn
<1>6. 1 \notin finished
  BY <1>3, <1>5, Zenon DEF CaseInv, RowAgrees
<1>7. ~(Len(said) >= MaxTokens)
  BY <1>4, CaseAssumption
<1> QED BY <1>3, <1>6, <1>7 DEF HF!Ended, HF!Unfinished

LEMMA ModelRaisesKeeps ==
    ASSUME CaseInv, HF!ModelRaises
    PROVE  CaseInv'
<1>1. PICK text \in {"raised", ""} :
         batch' = [i \in HF!Rows |-> [batch[i] EXCEPT !.error = text]]
  BY DEF HF!ModelRaises
<1> DEFINE E == [i \in HF!Rows |-> text]
<1>2. /\ phase \in {"prefill", "decode"} /\ phase' = "returned"
      /\ UNCHANGED <<stage, offset, finished, said, records>>
  BY DEF HF!ModelRaises, HF!Decoding
<1>3. /\ E \in [HF!Rows -> {"", "no token", "raised"}]
      /\ \A i \in HF!Rows : E[i] = text
  OBVIOUS
<1>4. batch' = WithErrors(E)
  BY <1>1, <1>3, Zenon DEF WithErrors
<1>5. ~HF!Ended
  <2>1. CASE phase = "prefill"
    BY <2>1, PrefillAhead
  <2>2. CASE HF!Decoding
    BY <2>2 DEF HF!Decoding
  <2> QED BY <2>1, <2>2 DEF HF!ModelRaises
<1> HIDE DEF E
<1>6. ErrorsFit(E)
  BY <1>3, <1>5, Zenon DEF ErrorsFit
<1> QED BY <1>2, <1>4, <1>6, ReturnedKeeps, Zenon

LEMMA CollectKeeps ==
    ASSUME CaseInv, HF!Collect
    PROVE  CaseInv'
<1>1. /\ phase = "returned" /\ phase' = "batch" /\ offset' = offset + Concurrency
      /\ records' = IF stage = "measure" THEN records \o HF!Kept ELSE records
      /\ batch' = <<>> /\ finished' = {} /\ said' = <<>> /\ stage' = stage
  BY DEF HF!Collect
<1>2. /\ offset \in Nat /\ offset < HF!Prompts /\ Len(batch) = HF!BatchSize
      /\ batch \in Seq(HF!Record) /\ records \in Seq([id : Int, ok : BOOLEAN])
      /\ stage \in {"warmup", "measure"}
  BY <1>1 DEF CaseInv, HF!TypeOK, CaseShape, InBatch
<1>3. HF!Rows' = {}
  BY <1>1 DEF HF!Rows
<1>4. HF!Kept \in Seq([id : Int, ok : BOOLEAN]) /\ Len(HF!Kept) = Len(batch)
      /\ \A i \in 1 .. Len(batch) : HF!Kept[i].id = batch[i].id
  <2>1. Len(batch) \in Nat /\ HF!Rows = 1 .. Len(batch)
    BY <1>2, LenProperties DEF HF!Rows
  <2>2. ASSUME NEW i \in 1 .. Len(batch)
        PROVE  HF!Kept[i] \in [id : Int, ok : BOOLEAN] /\ HF!Kept[i].id = batch[i].id
    <3>1. PICK x, y : x = batch[i] /\ y = HF!Kept[i]
      OBVIOUS
    <3>2. batch[i] \in HF!Record
      BY <1>2
    <3>3. x \in HF!Record /\ y = [id |-> x.id, ok |-> x.ok]
      BY <2>1, <3>1, <3>2, Zenon DEF HF!Kept
    <3>4. y \in [id : Int, ok : BOOLEAN] /\ y.id = x.id
      BY <3>3 DEF HF!Record
    <3> QED BY <3>1, <3>4, Zenon
  <2>3. HF!Kept \in [1 .. Len(batch) -> [id : Int, ok : BOOLEAN]]
    BY <2>1, <2>2, Zenon DEF HF!Kept
  <2> QED BY <2>1, <2>2, <2>3, SequenceOf, Zenon
<1>5. records' \in Seq([id : Int, ok : BOOLEAN])
  BY <1>1, <1>2, <1>4, ConcatProperties
<1>6. HF!TypeOK'
  BY <1>1, <1>2, <1>3, <1>5, CaseAssumption DEF HF!TypeOK, HF!Phases
<1>7. CaseShape'
  BY <1>1 DEF CaseShape, InBatch
<1>8. RecordsAgree'
  <2>1. CASE stage = "warmup"
    BY <1>1, <2>1 DEF CaseInv, RecordsAgree
  <2>2. CASE stage = "measure"
    <3>1. /\ HF!Prompts = RequestsCount /\ HF!RequestOffset = offset
          /\ HF!BatchSize = IF offset + Concurrency <= RequestsCount THEN Concurrency
                            ELSE RequestsCount - offset
      BY <1>2, <2>2, BatchSizeFacts DEF CaseInv
    <3>2. Len(records) = offset
      BY <1>1, <1>2, <2>2, <3>1 DEF CaseInv, RecordsAgree
    <3>3. /\ Len(records') = Len(records) + Len(batch)
          /\ \A i \in 1 .. Len(records') :
                 records'[i] = IF i <= Len(records) THEN records[i]
                               ELSE HF!Kept[i - Len(records)]
      <4>1. records' = records \o HF!Kept
        BY <1>1, <2>2
      <4>2. PICK s, t : s = records /\ t = HF!Kept
        OBVIOUS
      <4>3. s \in Seq([id : Int, ok : BOOLEAN]) /\ t \in Seq([id : Int, ok : BOOLEAN])
        BY <1>2, <1>4, <4>2, Zenon
      <4>4. /\ Len(s \o t) = Len(s) + Len(t)
            /\ \A i \in 1 .. Len(s) + Len(t) :
                   (s \o t)[i] = IF i <= Len(s) THEN s[i] ELSE t[i - Len(s)]
        BY <4>3, ConcatProperties
      <4> QED BY <1>4, <4>1, <4>2, <4>4, Zenon
    <3>4. Len(records') = IF offset' <= RequestsCount THEN offset' ELSE RequestsCount
      BY <1>1, <1>2, <3>1, <3>2, <3>3, CaseAssumption
    <3>5. ASSUME NEW i \in 1 .. Len(records')
          PROVE  records'[i].id = i - 1
      <4>1. CASE i <= Len(records)
        <5>1. i \in DOMAIN records
          BY <1>2, <4>1
        <5> QED BY <3>3, <4>1, <5>1 DEF CaseInv, RecordsAgree
      <4>2. CASE i > Len(records)
        <5>1. i - Len(records) \in 1 .. Len(batch) /\ ~(i <= Len(records))
          BY <1>2, <3>3, <4>2, LenProperties
        <5>2. \A j \in 1 .. Len(batch) : batch[j].id = offset + j - 1
          BY <1>1, <1>2, <3>1 DEF CaseInv, CaseShape, InBatch, HF!Rows
        <5>3. records'[i].id = offset + (i - Len(records)) - 1
          BY <1>4, <3>3, <5>1, <5>2, Zenon
        <5> QED BY <1>2, <3>2, <5>3
      <4> QED BY <1>2, <4>1, <4>2
    <3>6. DOMAIN records' = 1 .. Len(records')
      BY <1>5, LenProperties
    <3> QED BY <1>1, <2>2, <3>4, <3>5, <3>6 DEF RecordsAgree
  <2> QED BY <1>2, <2>1, <2>2
<1> QED BY <1>1, <1>3, <1>6, <1>7, <1>8 DEF CaseInv, ErrorsTell, HF!ErrorsTell

LEMMA CaseStepKeeps ==
    ASSUME CaseInv, HF!Begin \/ HF!Next
    PROVE  CaseInv'
BY BeginKeeps, StartBatchKeeps, TokenizerRaisesKeeps, EndLoopKeeps, PrefillKeeps,
   DecodeKeeps, ReturnKeeps, ModelRaisesKeeps, CollectKeeps DEF HF!Next

(* Between cases the variables of the case start over; nothing else of the *)
(* scripts touches them.                                                   *)
LEMMA NextKeepsCase ==
    ASSUME CaseInv, [Next]_vars
    PROVE  CaseInv'
<1>1. CASE HFReset
  <2>1. AtStart'
    BY <1>1 DEF HFReset, AtStart
  <2> QED BY <2>1, CaseStarts, PTL
<1>2. CASE UNCHANGED case
  <2>1. UNCHANGED <<phase, stage, offset, batch, finished, said, records>>
    BY <1>2 DEF case
  <2>2. HF!TypeOK' /\ \A i \in HF!Rows' : RowAgrees(i)'
    BY <2>1, SameBatch DEF CaseInv, HF!TypeOK
  <2>3. CaseShape'
    BY <2>1 DEF CaseInv, CaseShape, InBatch, HF!Prompts, HF!BatchSize, HF!RequestOffset, HF!Rows
  <2>4. ErrorsTell'
    BY <2>1 DEF CaseInv, ErrorsTell, HF!ErrorsTell, HF!Ended, HF!Unfinished, HF!Rows
  <2> QED BY <2>1, <2>2, <2>3, <2>4 DEF CaseInv, RecordsAgree
<1>3. CASE RunHFCase
  BY <1>3, CaseStepKeeps DEF RunHFCase
<1>4. Next => HFReset \/ UNCHANGED case \/ RunHFCase
  BY DEF Next, StartBenchmark, EndHFCase, MeasureEndpoint, EndMeasuring, WriteFile,
         EndBenchmark, KillBenchmark, StartComparison, ReadMetadata, ReadRows, Check,
         EndComparison
<1> QED BY <1>1, <1>2, <1>3, <1>4 DEF vars

(* The books of run_hf_case and generate_batch agree with one another and with *)
(* the calls of the model, for every case of every benchmark.                  *)
THEOREM CaseCorrect == Spec => []CaseInv
<1>1. Init => CaseInv
  BY CaseStarts DEF Init, HF!Init, AtStart
<1> QED BY <1>1, NextKeepsCase, PTL DEF Spec

(* generate_batch: whatever ends first, a row is credited with the calls of the *)
(* model before the one that ended it, for every batch and every limit.         *)
THEOREM TokensCorrect == Spec => []TokensUntilEos
<1>0. \A S : HF!Cardinality(S) = Cardinality(S)
  BY DEF HF!Cardinality, Cardinality
<1>1. CaseInv => TokensUntilEos
  BY <1>0, Zenon DEF CaseInv, RowAgrees, TokensUntilEos, HF!TokensUntilEos, CallsBefore
<1> QED BY <1>1, CaseCorrect, PTL

(* generate_batch: a record without an error is complete, one that failed says *)
(* why, whenever the model raises, unless the batch was cut short by an        *)
(* exception without text: str(exc) is empty then, and no record tells.        *)
THEOREM ErrorsCorrect == Spec => []ErrorsTell
<1>1. CaseInv => ErrorsTell
  BY DEF CaseInv
<1> QED BY <1>1, CaseCorrect, PTL

(* run_hf_case: however the prompts divide into batches, the records of a case *)
(* are those of the requests, each once and in order, and none of the warmup.  *)
THEOREM RecordsCorrect == Spec => []MeasuredOnce
<1>1. CaseInv => MeasuredOnce
  BY DEF CaseInv, RecordsAgree, MeasuredOnce, HF!MeasuredOnce
<1> QED BY <1>1, CaseCorrect, PTL

-----------------------------------------------------------------------------
(* The artifact directories. *)

(* The first n files have been written by the current run, the rest are left. *)
WrittenTo(n) ==
    LET order == Order(Tool[Current.dir])
    IN /\ Len(left) = Len(order) - n
       /\ \A i \in 1 .. Len(left) : left[i] = order[n + i]
       /\ \A i \in 1 .. n : files[Current.dir][order[i]] = [state |-> "whole", run |-> Run]

OwnFiles(d) == IF Tool[d] = "quality" THEN Files \ {"requests", "plots"} ELSE Files

(* ArtifactsOfOneRun for one directory. *)
OfOneRun(d) ==
    \/ \A f \in Files : files[d][f].state = "absent"
    \/ \A f \in Files :
          /\ files[d][f].state = "whole" <=> f \in OwnFiles(d)
          /\ files[d][f].state = "whole" => files[d][f].run = files[d]["metadata"].run

DirsAgree ==
    /\ pc # "off" => Run >= 1
    /\ pc = "measure" => left = Order(Tool[Current.dir])
    /\ pc = "write" => \E n \in 0 .. Len(Order(Tool[Current.dir])) : WrittenTo(n)
    /\ \A d \in Dirs, f \in Files :
           /\ files[d][f].state # "absent" => files[d][f].run \in 1 .. Run /\ f \in OwnFiles(d)
    /\ \A d \in Dirs \ dirty : OfOneRun(d)

LEMMA OrderFacts ==
    ASSUME NEW d \in Dirs
    PROVE  /\ Order(Tool[d]) \in Seq(Files) /\ Len(Order(Tool[d])) \in Nat \ {0}
           /\ \A f \in Files :
                  f \in OwnFiles(d) <=>
                      \E i \in 1 .. Len(Order(Tool[d])) : Order(Tool[d])[i] = f
<1>1. CASE Tool[d] = "quality"
  BY <1>1 DEF Order, OwnFiles, Files
<1>2. CASE Tool[d] # "quality"
  BY <1>2 DEF Order, OwnFiles, Files
<1> QED BY <1>1, <1>2

LEMMA SameFiles ==
    ASSUME NEW d, files'[d] = files[d], OfOneRun(d)
    PROVE  OfOneRun(d)'
BY Zenon DEF OfOneRun, OwnFiles

LEMMA DirsStart == Init => DirsAgree
BY DEF Init, DirsAgree, OfOneRun, Run

LEMMA StartBenchmarkKeepsDirs ==
    ASSUME TypeOK, DirsAgree, NEW d \in Dirs, NEW w \in Workloads, NEW m \in Models,
           NEW served \in SUBSET Models, NEW ls \in LevelSets,
           StartBenchmark(d, w, m, served, ls)
    PROVE  DirsAgree'
<1>1. PICK run : made' = Append(made, run) /\ run.dir = d
  BY DEF StartBenchmark
<1>2. /\ pc' = "measure" /\ left' = Order(Tool[d]) /\ UNCHANGED <<files, dirty>>
      /\ made \in Seq([dir : Dirs, workload : Workloads, model : Models, levels : LevelSets])
  BY DEF StartBenchmark, TypeOK
<1>3. Run \in Nat /\ Run' = Run + 1 /\ Current' = run
  BY <1>1, <1>2, AppendProperties DEF Run, Current
<1>4. \A e \in Dirs, f \in Files : files[e][f].run \in 1 .. Run => files[e][f].run \in 1 .. Run'
  BY <1>3
<1> QED BY <1>1, <1>2, <1>3, <1>4 DEF DirsAgree, OfOneRun, OwnFiles

LEMMA CurrentTyped ==
    ASSUME TypeOK, Run >= 1
    PROVE  /\ Run \in Nat /\ Run = Len(made)
           /\ Current \in [dir : Dirs, workload : Workloads, model : Models, levels : LevelSets]
           /\ Current.dir \in Dirs
<1>1. Run \in Nat /\ Run = Len(made)
  BY LenProperties DEF TypeOK, Run
<1>2. Current \in [dir : Dirs, workload : Workloads, model : Models, levels : LevelSets]
  <2>1. made \in Seq([dir : Dirs, workload : Workloads, model : Models, levels : LevelSets])
    BY DEF TypeOK
  <2>2. Run \in 1 .. Len(made)
    BY <1>1
  <2>3. made[Run] \in [dir : Dirs, workload : Workloads, model : Models, levels : LevelSets]
    BY <2>1, <2>2, ElementOfSeq, Zenon
  <2> QED BY <2>3 DEF Current
<1> QED BY <1>1, <1>2

LEMMA EndMeasuringKeepsDirs ==
    ASSUME TypeOK, DirsAgree, EndMeasuring
    PROVE  DirsAgree'
<1>1. /\ pc = "measure" /\ pc' = "write" /\ UNCHANGED <<made, left, files, dirty>>
      /\ Run' = Run /\ Current' = Current
  BY DEF EndMeasuring, Run, Current
<1>2. Run >= 1 /\ Run \in Nat /\ Current.dir \in Dirs
  BY <1>1, CurrentTyped DEF DirsAgree
<1>3. Len(Order(Tool[Current.dir])) \in Nat
  BY <1>2, OrderFacts
<1>4. left = Order(Tool[Current.dir])
  BY <1>1 DEF DirsAgree
<1>5. WrittenTo(0)'
  BY <1>1, <1>3, <1>4 DEF WrittenTo
<1>6. \E n \in 0 .. Len(Order(Tool[Current'.dir])) : WrittenTo(n)'
  BY <1>1, <1>3, <1>5
<1> QED BY <1>1, <1>6 DEF DirsAgree, OfOneRun

(* One file more of the directory is of the current run. *)
LEMMA WriteFileKeepsDirs ==
    ASSUME TypeOK, DirsAgree, WriteFile
    PROVE  DirsAgree'
<1>0. PICK d : d = Current.dir
  OBVIOUS
<1> DEFINE order == Order(Tool[d])
           new == [state |-> "whole", run |-> Run]
<1>1. /\ pc = "write" /\ pc' = "write" /\ left # <<>> /\ left' = Tail(left)
      /\ files' = [files EXCEPT ![d][Head(left)] = new]
      /\ dirty' = IF Len(left) = 1 THEN dirty \ {d} ELSE dirty \cup {d}
      /\ UNCHANGED made /\ Run' = Run /\ Current' = Current
  BY <1>0 DEF WriteFile, Run, Current
<1>2. Run >= 1 /\ Run \in Nat /\ d \in Dirs
  BY <1>0, <1>1, CurrentTyped DEF DirsAgree
<1>3. PICK n \in 0 .. Len(order) : WrittenTo(n)
  BY <1>0, <1>1 DEF DirsAgree
<1>4. /\ order \in Seq(Files) /\ Len(order) \in Nat \ {0}
      /\ \A f \in Files : f \in OwnFiles(d) <=> \E i \in 1 .. Len(order) : order[i] = f
  BY <1>2, OrderFacts
<1> HIDE DEF order
<1>5. /\ left \in Seq(Files) /\ Len(left) = Len(order) - n
      /\ \A i \in 1 .. Len(left) : left[i] = order[n + i]
      /\ \A i \in 1 .. n : files[d][order[i]] = new
  BY <1>0, <1>3 DEF WrittenTo, TypeOK, order
<1>6. /\ n + 1 \in 1 .. Len(order) /\ Head(left) = order[n + 1] /\ Head(left) \in Files
      /\ Tail(left) \in Seq(Files) /\ Len(Tail(left)) = Len(order) - (n + 1)
      /\ \A i \in 1 .. Len(Tail(left)) : Tail(left)[i] = left[i + 1]
  <2>1. /\ Head(left) \in Files /\ Tail(left) \in Seq(Files)
        /\ Len(Tail(left)) = Len(left) - 1
        /\ \A i \in 1 .. Len(Tail(left)) : Tail(left)[i] = left[i + 1]
    BY <1>1, <1>5, HeadTailProperties
  <2>2. Len(left) \in Nat \ {0} /\ Head(left) = left[1]
    BY <1>1, <1>5, EmptySeq
  <2>3. n \in Nat /\ Len(left) = Len(order) - n
    BY <1>5
  <2>4. n + 1 \in 1 .. Len(order) /\ Len(Tail(left)) = Len(order) - (n + 1)
    BY <1>4, <2>1, <2>2, <2>3
  <2>5. left[1] = order[n + 1]
    BY <1>5, <2>2
  <2> QED BY <2>1, <2>2, <2>4, <2>5
<1>7. \A i \in 1 .. Len(Tail(left)) : Tail(left)[i] = order[(n + 1) + i]
  BY <1>4, <1>5, <1>6
<1>8. files \in [Dirs -> [Files -> [state : {"absent", "torn", "whole"}, run : 0 .. Run]]]
  BY DEF TypeOK
<1>9. /\ \A e \in Dirs \ {d} : files'[e] = files[e]
      /\ \A f \in Files : files'[d][f] = IF f = order[n + 1] THEN new ELSE files[d][f]
  BY <1>1, <1>2, <1>6, <1>8
<1>10. \A i \in 1 .. n + 1 : files'[d][order[i]] = new
  <2>1. \A i \in 1 .. n + 1 : order[i] \in Files /\ (i \in 1 .. n \/ i = n + 1)
    BY <1>4, <1>6
  <2> QED BY <1>5, <1>9, <2>1, Zenon
<1>11. WrittenTo(n + 1)'
  BY <1>0, <1>1, <1>6, <1>7, <1>10 DEF WrittenTo, order
<1>12. new.state = "whole" /\ new.run = Run /\ Run \in 1 .. Run
  BY <1>2
<1> HIDE DEF new
<1>13. order[n + 1] \in OwnFiles(d)
  BY <1>4, <1>6
<1>14. \A e \in Dirs, f \in Files :
           files'[e][f].state # "absent" => files'[e][f].run \in 1 .. Run /\ f \in OwnFiles(e)
  BY <1>9, <1>12, <1>13, Zenon DEF DirsAgree
<1>15. \A e \in Dirs \ dirty' : OfOneRun(e)'
  <2>1. CASE Len(left) = 1
    <3>1. n + 1 = Len(order)
      <4>1. n \in Nat /\ Len(order) \in Nat /\ 1 = Len(order) - n
        <5>1. n \in Nat /\ Len(left) = Len(order) - n
          BY <1>5
        <5>2. Len(order) \in Nat
          BY <1>4
        <5> QED BY <2>1, <5>1, <5>2, Zenon
      <4> QED BY <4>1
    <3>2. \A f \in OwnFiles(d) : files'[d][f] = new
      BY <1>4, <1>10, <3>1, Zenon DEF OwnFiles
    <3>4. "metadata" \in Files /\ "metadata" \in OwnFiles(d)
      BY DEF Files, OwnFiles
    <3>5. \A f \in Files : /\ files'[d][f].state = "whole" <=> f \in OwnFiles(d)
                           /\ files'[d][f].state = "whole" =>
                                  files'[d][f].run = files'[d]["metadata"].run
      BY <1>12, <1>14, <1>2, <3>2, <3>4, Zenon
    <3>6. \A e \in Dirs \ dirty' : e = d \/ e \in Dirs \ dirty
      BY <1>1, <2>1
    <3>7. OfOneRun(d)'
      BY <3>5, Zenon DEF OfOneRun, OwnFiles
    <3> QED BY <1>9, <3>6, <3>7, SameFiles DEF DirsAgree
  <2>2. CASE Len(left) # 1
    <3>1. \A e \in Dirs \ dirty' : e # d /\ e \in Dirs \ dirty
      BY <1>1, <2>2
    <3> QED BY <1>9, <3>1, SameFiles DEF DirsAgree
  <2> QED BY <2>1, <2>2
<1>16. \E m \in 0 .. Len(order) : WrittenTo(m)'
  BY <1>4, <1>6, <1>11
<1>17. (\E m \in 0 .. Len(Order(Tool[Current.dir])) : WrittenTo(m))'
  BY <1>0, <1>1, <1>16 DEF order
<1> QED BY <1>1, <1>2, <1>14, <1>15, <1>17 DEF DirsAgree, OwnFiles

LEMMA KillKeepsDirs ==
    ASSUME TypeOK, DirsAgree, KillBenchmark
    PROVE  DirsAgree'
<1>1. pc # "off" /\ pc' = "off" /\ UNCHANGED made /\ Run' = Run
  BY DEF KillBenchmark, Run
<1>2. CASE UNCHANGED <<files, dirty>>
  BY <1>1, <1>2 DEF DirsAgree, OfOneRun
<1>3. CASE /\ pc = "write" /\ left # <<>>
           /\ files' = [files EXCEPT ![Current.dir][Head(left)] =
                            [state |-> "torn", run |-> Run]]
           /\ dirty' = dirty \cup {Current.dir}
  <2> DEFINE d == Current.dir
             new == [state |-> "torn", run |-> Run]
  <2>1. Run >= 1 /\ Run \in Nat /\ d \in Dirs
    BY <1>1, CurrentTyped DEF DirsAgree
  <2>2. PICK n \in 0 .. Len(Order(Tool[d])) : WrittenTo(n)
    BY <1>3 DEF DirsAgree
  <2>3. Head(left) \in OwnFiles(d) /\ Head(left) \in Files
    <3>1. left \in Seq(Files) /\ Len(left) \in Nat \ {0} /\ Head(left) = left[1]
      BY <1>3, LenProperties, EmptySeq DEF TypeOK
    <3>2. left[1] = Order(Tool[d])[n + 1] /\ n + 1 \in 1 .. Len(Order(Tool[d]))
      BY <2>1, <2>2, <3>1, OrderFacts DEF WrittenTo
    <3>3. Head(left) \in Files
      BY <3>1
    <3> QED BY <2>1, <3>1, <3>2, <3>3, OrderFacts
  <2>4. files \in [Dirs -> [Files -> [state : {"absent", "torn", "whole"}, run : 0 .. Run]]]
    BY DEF TypeOK
  <2>5. /\ \A e \in Dirs \ {d} : files'[e] = files[e]
        /\ \A f \in Files : files'[d][f] = IF f = Head(left) THEN new ELSE files[d][f]
    BY <1>3, <2>1, <2>3, <2>4
  <2>6. new.run = Run /\ Run \in 1 .. Run
    BY <2>1
  <2> HIDE DEF d, new
  <2>7. \A e \in Dirs, f \in Files :
            files'[e][f].state # "absent" => files'[e][f].run \in 1 .. Run /\ f \in OwnFiles(e)
    BY <2>3, <2>5, <2>6, Zenon DEF DirsAgree
  <2>8. \A e \in Dirs \ dirty' : e # d /\ e \in Dirs \ dirty
    BY <1>3 DEF d
  <2>9. \A e \in Dirs \ dirty' : OfOneRun(e)'
    BY <2>5, <2>8, SameFiles DEF DirsAgree
  <2> QED BY <1>1, <2>7, <2>9 DEF DirsAgree, OwnFiles
<1> QED BY <1>2, <1>3 DEF KillBenchmark

LEMMA NextKeepsDirs ==
    ASSUME TypeOK, DirsAgree, [Next]_vars
    PROVE  DirsAgree'
<1>1. CASE UNCHANGED <<pc, made, left, files, dirty>>
  BY <1>1 DEF DirsAgree, WrittenTo, OfOneRun, Run, Current, OwnFiles
<1>2. CASE pc' = "off" /\ UNCHANGED <<made, left, files, dirty>>
  BY <1>2 DEF DirsAgree, OfOneRun, Run, OwnFiles
<1>3. CASE Next
  <2>1. \/ UNCHANGED <<pc, made, left, files, dirty>>
        \/ pc' = "off" /\ UNCHANGED <<made, left, files, dirty>>
        \/ \E d \in Dirs, w \in Workloads, m \in Models, served \in SUBSET Models,
              ls \in LevelSets : StartBenchmark(d, w, m, served, ls)
        \/ EndMeasuring \/ WriteFile \/ KillBenchmark
    BY <1>3 DEF Next, RunHFCase, EndHFCase, MeasureEndpoint, EndBenchmark, StartComparison,
                ReadMetadata, ReadRows, Check, EndComparison, benchmark
  <2> QED BY <1>1, <1>2, <2>1, StartBenchmarkKeepsDirs, EndMeasuringKeepsDirs,
             WriteFileKeepsDirs, KillKeepsDirs
<1> QED BY <1>1, <1>3 DEF vars, benchmark

-----------------------------------------------------------------------------
(* Types. *)

(* TypeOK in two parts: the benchmark with its files, and the comparison. *)
BenchmarkTyped ==
    /\ pc \in {"off", "measure", "write"}
    /\ made \in Seq([dir : Dirs, workload : Workloads, model : Models, levels : LevelSets])
    /\ Len(made) <= MaxRuns
    /\ measured \subseteq UNION LevelSets
    /\ left \in Seq(Files)
    /\ kills \in 0 .. MaxKills
    /\ files \in [Dirs -> [Files -> [state : {"absent", "torn", "whole"}, run : 0 .. Run]]]
    /\ dirty \subseteq Dirs

SideRecord == [dir : Dirs, meta : 0 .. Run, rows : 0 .. Run, levels : SUBSET UNION LevelSets]

ComparisonTyped ==
    /\ cpc \in {"idle", "meta_a", "rows_a", "meta_b", "rows_b", "check", "reported"}
    /\ kind \in Kinds
    /\ side \in [Sides -> SideRecord]
    /\ touched \in BOOLEAN

LEMMA TypeParts == TypeOK <=> HF!TypeOK /\ BenchmarkTyped /\ ComparisonTyped
BY DEF TypeOK, BenchmarkTyped, ComparisonTyped, SideRecord

LEMMA NoReadTyped ==
    ASSUME NEW n \in Nat
    PROVE  NoRead \in [dir : Dirs, meta : 0 .. n, rows : 0 .. n,
                      levels : SUBSET UNION LevelSets]
<1>1. (CHOOSE d \in Dirs : TRUE) \in Dirs
  BY DirsAssumption
<1> QED BY <1>1 DEF NoRead

LEMMA InitTyped == Init => TypeOK
<1> SUFFICES ASSUME Init PROVE TypeOK
  OBVIOUS
<1>1. HF!TypeOK
  BY CaseStarts DEF Init, HF!Init, AtStart, CaseInv
<1>2. Run = 0 /\ Run \in Nat
  BY DEF Init, Run
<1>3. BenchmarkTyped
  BY <1>2, BoundsAssumption DEF Init, BenchmarkTyped
<1>4. ComparisonTyped
  BY <1>2, NoReadTyped DEF Init, ComparisonTyped, SideRecord, Kinds, Sides
<1> QED BY <1>1, <1>3, <1>4, TypeParts

LEMMA BenchmarkStepTyped ==
    ASSUME TypeOK, DirsAgree, [Next]_vars
    PROVE  BenchmarkTyped' /\ Run \in Nat /\ Run' \in Nat /\ Run <= Run'
<1> USE DEF BenchmarkTyped
<1>0. BenchmarkTyped /\ Run = Len(made) /\ Run \in Nat
  BY TypeParts, LenProperties DEF Run
<1>1. CASE UNCHANGED benchmark
  BY <1>0, <1>1 DEF benchmark, Run
<1>2. ASSUME NEW d \in Dirs, NEW w \in Workloads, NEW m \in Models,
             NEW served \in SUBSET Models, NEW ls \in LevelSets,
             StartBenchmark(d, w, m, served, ls)
      PROVE  BenchmarkTyped' /\ Run' \in Nat /\ Run <= Run'
  <2>1. PICK n \in Models : made' = Append(made, [dir |-> d, workload |-> w, model |-> n,
                                                 levels |-> ls])
    BY <1>2 DEF StartBenchmark, ResolvedModels, Resolve
  <2>2. [dir |-> d, workload |-> w, model |-> n, levels |-> ls] \in
            [dir : Dirs, workload : Workloads, model : Models, levels : LevelSets]
    OBVIOUS
  <2>3. /\ made' \in Seq([dir : Dirs, workload : Workloads, model : Models, levels : LevelSets])
        /\ Len(made') = Len(made) + 1
    BY <1>0, <2>1, <2>2, AppendProperties
  <2>4. Run < MaxRuns /\ Run' = Run + 1
    BY <1>0, <1>2, <2>3 DEF StartBenchmark, Run
  <2>5. files' \in [Dirs -> [Files -> [state : {"absent", "torn", "whole"}, run : 0 .. Run']]]
    <3>1. 0 .. Run \subseteq 0 .. Run' /\ files' = files
      BY <1>0, <1>2, <2>4 DEF StartBenchmark
    <3> QED BY <1>0, <3>1
  <2>6. left' \in Seq(Files)
    BY <1>2, OrderFacts DEF StartBenchmark
  <2>7. /\ pc' = "measure" /\ measured' = {} /\ kills' = kills /\ dirty' = dirty
    BY <1>2 DEF StartBenchmark
  <2> QED BY <1>0, <2>3, <2>4, <2>5, <2>6, <2>7, BoundsAssumption
<1>3. ASSUME NEW level \in UNION LevelSets, EndHFCase(level) \/ MeasureEndpoint(level)
      PROVE  BenchmarkTyped' /\ Run' = Run
  BY <1>0, <1>3 DEF EndHFCase, MeasureEndpoint, Run
<1>4. CASE EndMeasuring \/ EndBenchmark
  BY <1>0, <1>4 DEF EndMeasuring, EndBenchmark, Run
<1>5. CASE WriteFile
  <2>1. /\ pc = "write" /\ left # <<>> /\ left' = Tail(left) /\ Run' = Run
        /\ files' = [files EXCEPT ![Current.dir][Head(left)] = [state |-> "whole", run |-> Run]]
        /\ dirty' \subseteq dirty \cup {Current.dir}
        /\ UNCHANGED <<pc, made, measured, kills>>
    BY <1>5 DEF WriteFile, Run
  <2>2. Current.dir \in Dirs /\ Head(left) \in Files /\ Tail(left) \in Seq(Files)
    BY <1>0, <2>1, CurrentTyped, HeadTailProperties DEF DirsAgree
  <2>3. [state |-> "whole", run |-> Run] \in [state : {"absent", "torn", "whole"}, run : 0 .. Run]
    BY <1>0
  <2> QED BY <1>0, <2>1, <2>2, <2>3
<1>6. CASE KillBenchmark
  <2>1. /\ pc # "off" /\ kills < MaxKills /\ kills' = kills + 1 /\ pc' = "off"
        /\ UNCHANGED <<made, measured, left>> /\ Run' = Run
    BY <1>6 DEF KillBenchmark, Run
  <2>2. kills' \in 0 .. MaxKills
    BY <1>0, <2>1, BoundsAssumption
  <2>3. CASE UNCHANGED <<files, dirty>>
    BY <1>0, <2>1, <2>2, <2>3
  <2>4. CASE /\ left # <<>>
             /\ files' = [files EXCEPT ![Current.dir][Head(left)] =
                              [state |-> "torn", run |-> Run]]
             /\ dirty' = dirty \cup {Current.dir}
    <3>1. Current.dir \in Dirs /\ Head(left) \in Files
      BY <1>0, <2>1, <2>4, CurrentTyped, HeadTailProperties DEF DirsAgree
    <3>2. [state |-> "torn", run |-> Run] \in [state : {"absent", "torn", "whole"}, run : 0 .. Run]
      BY <1>0
    <3> QED BY <1>0, <2>1, <2>2, <2>4, <3>1, <3>2
  <2> QED BY <1>0, <1>6, <2>1, <2>3, <2>4 DEF KillBenchmark
<1>7. CASE Next
  <2>1. \/ UNCHANGED benchmark
        \/ \E d \in Dirs, w \in Workloads, m \in Models, served \in SUBSET Models,
              ls \in LevelSets : StartBenchmark(d, w, m, served, ls)
        \/ \E level \in UNION LevelSets : EndHFCase(level) \/ MeasureEndpoint(level)
        \/ EndMeasuring \/ EndBenchmark \/ WriteFile \/ KillBenchmark
    BY <1>7 DEF Next, RunHFCase, StartComparison, ReadMetadata, ReadRows, Check, EndComparison
  <2>2. Run' = Run => Run' \in Nat /\ Run <= Run'
    BY <1>0
  <2>3. CASE WriteFile \/ KillBenchmark \/ EndMeasuring \/ EndBenchmark
    <3>1. Run' = Run
      BY <2>3 DEF WriteFile, KillBenchmark, EndMeasuring, EndBenchmark, Run
    <3> QED BY <1>0, <1>4, <1>5, <1>6, <2>2, <2>3, <3>1
  <2> QED BY <1>0, <1>1, <1>2, <1>3, <2>1, <2>2, <2>3
<1> QED BY <1>0, <1>1, <1>7 DEF vars

-----------------------------------------------------------------------------
(* The comparisons. *)

(* The sides whose metadata, and whose rows, have been read. *)
MetaRead(s) == cpc \in (IF s = "a" THEN {"rows_a", "meta_b", "rows_b", "check", "reported"}
                       ELSE {"rows_b", "check", "reported"})
RowsRead(s) == cpc \in (IF s = "a" THEN {"meta_b", "rows_b", "check", "reported"}
                       ELSE {"check", "reported"})

(* What was read of a directory that was whole and is not being written to. *)
SideAgrees(s) ==
    /\ MetaRead(s) =>
           /\ side[s].meta \in 1 .. Run
           /\ ~touched => /\ side[s].dir \notin dirty
                          /\ files[side[s].dir]["metadata"].state = "whole"
                          /\ files[side[s].dir]["metadata"].run = side[s].meta
    /\ RowsRead(s) =>
           /\ side[s].rows \in 1 .. Run
           /\ ~touched => side[s].rows = side[s].meta /\ side[s].levels = made[side[s].rows].levels

ComparisonAgrees ==
    /\ \A s \in Sides : SideAgrees(s)
    /\ cpc = "reported" => /\ SameWorkload(kind, made[side["a"].meta], made[side["b"].meta])
                           /\ side["a"].levels = side["b"].levels

LEMMA LeaveKeeps ==
    ASSUME LeaveComparison, Run' \in Nat
    PROVE  ComparisonTyped' /\ ComparisonAgrees'
<1>1. cpc' = "idle" /\ kind' = "gpu" /\ touched' = FALSE /\ side' = [s \in Sides |-> NoRead]
  BY DEF LeaveComparison
<1>2. NoRead \in SideRecord'
  BY NoReadTyped DEF SideRecord
<1>3. ComparisonTyped'
  BY <1>1, <1>2 DEF ComparisonTyped, Kinds
<1> QED BY <1>1, <1>3 DEF ComparisonAgrees, SideAgrees, MetaRead, RowsRead

(* The steps of the benchmarks: what was read stays, and if it changes on disk *)
(* the comparison is touched.                                                  *)
LEMMA BenchmarkKeepsComparison ==
    ASSUME TypeOK, DirsAgree, ComparisonAgrees, UNCHANGED comparison,
           \/ UNCHANGED <<made, files, dirty, touched>>
           \/ \E d \in Dirs, w \in Workloads, m \in Models, served \in SUBSET Models,
                 ls \in LevelSets : StartBenchmark(d, w, m, served, ls)
           \/ WriteFile \/ KillBenchmark
    PROVE  ComparisonTyped' /\ ComparisonAgrees'
<1>1. /\ Run \in Nat /\ Run = Len(made) /\ ComparisonTyped /\ BenchmarkTyped
      /\ made \in Seq([dir : Dirs, workload : Workloads, model : Models, levels : LevelSets])
  BY TypeParts, LenProperties DEF Run, BenchmarkTyped
<1>2. UNCHANGED <<cpc, kind, side>>
  BY DEF comparison
<1>3. Run' \in Nat /\ Run <= Run' /\ \A r \in 1 .. Run : r \in 1 .. Run' /\ made'[r] = made[r]
  <2>1. CASE UNCHANGED made
    BY <1>1, <2>1 DEF Run
  <2>2. ASSUME NEW run, made' = Append(made, run)
        PROVE  Run' \in Nat /\ Run <= Run' /\
               \A r \in 1 .. Run : r \in 1 .. Run' /\ made'[r] = made[r]
    BY <1>1, <2>2 DEF Run
  <2> QED BY <2>1, <2>2 DEF StartBenchmark, WriteFile, KillBenchmark
<1>4. /\ touched' \in BOOLEAN /\ (touched => touched')
      /\ ~touched' => \A s \in Sides : cpc # "idle" =>
             /\ files'[side[s].dir] = files[side[s].dir]
             /\ side[s].dir \notin dirty => side[s].dir \notin dirty'
  <2>1. CASE UNCHANGED <<files, dirty, touched>>
    BY <1>1, <2>1 DEF ComparisonTyped
  <2>2. ASSUME NEW new,
               files' = [files EXCEPT ![Current.dir][Head(left)] = new],
               dirty' \subseteq dirty \cup {Current.dir},
               touched' = (touched \/ BeingRead(Current.dir))
        PROVE  /\ touched' \in BOOLEAN /\ (touched => touched')
               /\ ~touched' => \A s \in Sides : cpc # "idle" =>
                      /\ files'[side[s].dir] = files[side[s].dir]
                      /\ side[s].dir \notin dirty => side[s].dir \notin dirty'
    <3>1. touched \in BOOLEAN /\ BeingRead(Current.dir) \in BOOLEAN
      BY <1>1 DEF ComparisonTyped, BeingRead
    <3>2. ASSUME ~touched', NEW s \in Sides, cpc # "idle"
          PROVE  side[s].dir # Current.dir
      BY <2>2, <3>2 DEF BeingRead
    <3>3. \A d \in Dirs : d # Current.dir => files'[d] = files[d]
      BY <1>1, <2>2 DEF BenchmarkTyped
    <3>4. \A s \in Sides : side[s].dir \in Dirs
      BY <1>1 DEF ComparisonTyped, SideRecord
    <3> QED BY <2>2, <3>1, <3>2, <3>3, <3>4
  <2>3. CASE WriteFile
    BY <2>2, <2>3 DEF WriteFile
  <2>4. CASE KillBenchmark
    BY <2>1, <2>2, <2>4 DEF KillBenchmark
  <2> QED BY <2>1, <2>3, <2>4 DEF StartBenchmark
<1>5. ComparisonTyped'
  <2>1. SideRecord \subseteq SideRecord'
    BY <1>1, <1>3 DEF SideRecord
  <2>2. side \in [Sides -> SideRecord']
    BY <1>1, <2>1 DEF ComparisonTyped
  <2>3. touched' \in BOOLEAN /\ side' = side /\ cpc' = cpc /\ kind' = kind
    <3>1. touched' \in BOOLEAN
      BY <1>4, Zenon
    <3> QED BY <1>2, <3>1
  <2> QED BY <1>1, <2>2, <2>3 DEF ComparisonTyped
<1>6. ASSUME NEW s \in Sides
      PROVE  SideAgrees(s)'
  <2>1. SideAgrees(s)
    BY DEF ComparisonAgrees
  <2>2. MetaRead(s)' <=> MetaRead(s)
    BY <1>2 DEF MetaRead
  <2>3. RowsRead(s)' <=> RowsRead(s)
    BY <1>2 DEF RowsRead
  <2>4. RowsRead(s) => MetaRead(s)
    BY DEF RowsRead, MetaRead
  <2>5. MetaRead(s) => cpc # "idle"
    BY DEF MetaRead
  <2>0. ~touched' /\ MetaRead(s) =>
            /\ ~touched /\ files'[side[s].dir] = files[side[s].dir]
            /\ side[s].dir \notin dirty => side[s].dir \notin dirty'
    <3> SUFFICES ASSUME ~touched', MetaRead(s)
                 PROVE  /\ ~touched /\ files'[side[s].dir] = files[side[s].dir]
                        /\ side[s].dir \notin dirty => side[s].dir \notin dirty'
      OBVIOUS
    <3>1. ~touched
      BY <1>4, Zenon
    <3>2. cpc # "idle"
      BY <2>5
    <3>3. \A t \in Sides : /\ files'[side[t].dir] = files[side[t].dir]
                           /\ side[t].dir \notin dirty => side[t].dir \notin dirty'
      BY <1>4, <3>2, Zenon
    <3> QED BY <3>1, <3>3
  <2>6. MetaRead(s) =>
            /\ side'[s].meta \in 1 .. Run'
            /\ ~touched' => /\ side'[s].dir \notin dirty'
                            /\ files'[side'[s].dir]["metadata"].state = "whole"
                            /\ files'[side'[s].dir]["metadata"].run = side'[s].meta
    <3>1. SUFFICES ASSUME MetaRead(s)
                   PROVE  /\ side[s].meta \in 1 .. Run'
                          /\ ~touched' =>
                                /\ side[s].dir \notin dirty'
                                /\ files'[side[s].dir]["metadata"].state = "whole"
                                /\ files'[side[s].dir]["metadata"].run = side[s].meta
      BY <1>2, Zenon
    <3>2. /\ side[s].meta \in 1 .. Run
          /\ ~touched => /\ side[s].dir \notin dirty
                         /\ files[side[s].dir]["metadata"].state = "whole"
                         /\ files[side[s].dir]["metadata"].run = side[s].meta
      BY <2>1, <3>1 DEF SideAgrees
    <3> QED BY <1>3, <2>0, <3>1, <3>2, Zenon
  <2>7. RowsRead(s) =>
            /\ side[s].rows \in 1 .. Run'
            /\ ~touched' => /\ side[s].rows = side[s].meta
                            /\ side[s].levels = made'[side[s].rows].levels
    BY <1>3, <2>0, <2>1, <2>4, Zenon DEF SideAgrees
  <2> QED BY <1>2, <2>2, <2>3, <2>6, <2>7, Zenon DEF SideAgrees
<1>7. ASSUME cpc = "reported"
      PROVE  SameWorkload(kind, made[side["a"].meta], made[side["b"].meta])'
  <2>1. /\ side["a"].meta \in 1 .. Run /\ side["b"].meta \in 1 .. Run
        /\ SameWorkload(kind, made[side["a"].meta], made[side["b"].meta])
    BY <1>7 DEF ComparisonAgrees, SideAgrees, MetaRead, Sides
  <2> QED BY <1>2, <1>3, <2>1, Zenon DEF SameWorkload
<1> QED BY <1>2, <1>5, <1>6, <1>7 DEF ComparisonAgrees

LEMMA ReadMetadataKeeps ==
    ASSUME TypeOK, DirsAgree, ComparisonAgrees, NEW s \in Sides, ReadMetadata(s)
    PROVE  ComparisonTyped' /\ ComparisonAgrees'
<1> DEFINE file == files[side[s].dir]["metadata"]
<1>1. /\ Run \in Nat /\ Run' = Run /\ ComparisonTyped /\ BenchmarkTyped
      /\ UNCHANGED <<made, files, dirty>>
  BY TypeParts, LenProperties DEF Run, BenchmarkTyped, ReadMetadata, benchmark
<1>2. CASE LeaveComparison
  BY <1>1, <1>2, LeaveKeeps
<1>3. CASE /\ file.state = "whole"
           /\ side' = [side EXCEPT ![s].meta = file.run]
           /\ cpc' = IF s = "a" THEN "rows_a" ELSE "rows_b"
           /\ touched' = (touched \/ side[s].dir \in dirty)
           /\ UNCHANGED kind
  <2>1. side[s] \in SideRecord /\ side[s].dir \in Dirs /\ "metadata" \in Files
    BY <1>1 DEF ComparisonTyped, SideRecord, Files
  <2>2. file.run \in 1 .. Run
    BY <1>3, <2>1 DEF DirsAgree
  <2> HIDE DEF file
  <2>3. /\ \A t \in Sides : t # s => side'[t] = side[t]
        /\ side'[s] = [side[s] EXCEPT !.meta = file.run]
        /\ side' \in [Sides -> SideRecord] /\ side'[s].dir = side[s].dir
        /\ side'[s].meta = file.run
    BY <1>1, <1>3, <2>1, <2>2 DEF ComparisonTyped, SideRecord
  <2>4. ComparisonTyped'
    BY <1>1, <1>3, <2>3 DEF ComparisonTyped, SideRecord
  <2>5. SideAgrees(s)'
    <3>1. ~RowsRead(s)'
      BY <1>3 DEF RowsRead
    <3>2. ~touched' => side[s].dir \notin dirty
      BY <1>1, <1>3, <2>1 DEF ComparisonTyped
    <3>3. file = files[side[s].dir]["metadata"]
      BY DEF file
    <3>4. side'[s].meta \in 1 .. Run'
      BY <1>1, <2>2, <2>3
    <3>5. ~touched' => side'[s].dir \notin dirty'
      BY <1>1, <2>3, <3>2
    <3>6. files'[side'[s].dir]["metadata"].state = "whole"
      BY <1>1, <1>3, <2>3, <3>3, Zenon
    <3>7. files'[side'[s].dir]["metadata"].run = side'[s].meta
      BY <1>1, <2>3, <3>3, Zenon
    <3> QED BY <3>1, <3>4, <3>5, <3>6, <3>7, Zenon DEF SideAgrees
  <2>6. ASSUME NEW t \in Sides, t # s
        PROVE  SideAgrees(t)'
    <3>1. SideAgrees(t) /\ side'[t] = side[t] /\ (~touched' => ~touched)
      BY <1>3, <2>3, <2>6 DEF ComparisonAgrees
    <3>2. (MetaRead(t)' => MetaRead(t)) /\ (RowsRead(t)' => RowsRead(t))
      BY <1>3, <2>6 DEF MetaRead, RowsRead, ReadMetadata, Sides
    <3> QED BY <1>1, <3>1, <3>2 DEF SideAgrees
  <2> QED BY <1>3, <2>4, <2>5, <2>6 DEF ComparisonAgrees
<1> QED BY <1>2, <1>3 DEF ReadMetadata

LEMMA ReadRowsKeeps ==
    ASSUME TypeOK, DirsAgree, ComparisonAgrees, NEW s \in Sides, ReadRows(s)
    PROVE  ComparisonTyped' /\ ComparisonAgrees'
<1> DEFINE file == files[side[s].dir]["rows"]
<1>1. /\ Run \in Nat /\ Run' = Run /\ ComparisonTyped /\ BenchmarkTyped
      /\ UNCHANGED <<made, files, dirty>>
  BY TypeParts, LenProperties DEF Run, BenchmarkTyped, ReadRows, benchmark
<1>2. CASE LeaveComparison
  BY <1>1, <1>2, LeaveKeeps
<1>3. ASSUME NEW ls \in RowsIn(file),
             file.state # "absent",
             side' = [side EXCEPT ![s].rows = file.run, ![s].levels = ls],
             cpc' = IF s = "a" THEN "meta_b" ELSE "check",
             touched' = (touched \/ side[s].dir \in dirty),
             UNCHANGED kind
      PROVE  ComparisonTyped' /\ ComparisonAgrees'
  <2>1. side[s] \in SideRecord /\ side[s].dir \in Dirs /\ "rows" \in Files
    BY <1>1 DEF ComparisonTyped, SideRecord, Files
  <2>2. file.run \in 1 .. Run
    BY <1>3, <2>1 DEF DirsAgree
  <2>3. ls \in SUBSET UNION LevelSets
    <3>1. made[file.run].levels \in LevelSets
      <4>1. made[file.run] \in [dir : Dirs, workload : Workloads, model : Models,
                                levels : LevelSets]
        BY <1>1, <2>2, ElementOfSeq DEF BenchmarkTyped, Run
      <4> QED BY <4>1
    <3> QED BY <1>3, <3>1 DEF RowsIn
  <2>4. ~touched' => /\ file.run = side[s].meta /\ ls = made[file.run].levels
                     /\ side[s].dir \notin dirty /\ ~touched
    <3>1. SUFFICES ASSUME ~touched' PROVE /\ file.run = side[s].meta
                                          /\ ls = made[file.run].levels
      BY <1>3
    <3>2. ~touched /\ side[s].dir \in Dirs \ dirty /\ OfOneRun(side[s].dir)
      BY <1>3, <2>1, <3>1 DEF DirsAgree
    <3>3. "rows" \in OwnFiles(side[s].dir) /\ "metadata" \in Files
      BY DEF OwnFiles, Files
    <3>4. file.state = "whole" /\ file.run = files[side[s].dir]["metadata"].run
      BY <1>3, <2>1, <3>2, <3>3 DEF OfOneRun
    <3>5. files[side[s].dir]["metadata"].run = side[s].meta
      <4>1. MetaRead(s) /\ SideAgrees(s)
        BY DEF ReadRows, MetaRead, ComparisonAgrees, Sides
      <4> QED BY <3>2, <4>1 DEF SideAgrees
    <3> QED BY <1>3, <3>4, <3>5 DEF RowsIn
  <2> HIDE DEF file
  <2>5. /\ \A t \in Sides : t # s => side'[t] = side[t]
        /\ side'[s] = [side[s] EXCEPT !.rows = file.run, !.levels = ls]
        /\ side' \in [Sides -> SideRecord]
    <3>1. [side[s] EXCEPT !.rows = file.run, !.levels = ls] \in SideRecord
      <4>1. PICK x, n : x = side[s] /\ n = file.run
        OBVIOUS
      <4>2. x \in SideRecord /\ n \in 0 .. Run
        BY <1>1, <2>1, <2>2, <4>1
      <4>3. PICK y : y = [x EXCEPT !.rows = n, !.levels = ls]
        OBVIOUS
      <4>4. y = [dir |-> x.dir, meta |-> x.meta, rows |-> n, levels |-> ls]
        BY <4>2, <4>3 DEF SideRecord
      <4>5. x.dir \in Dirs /\ x.meta \in 0 .. Run
        BY <4>2 DEF SideRecord
      <4>6. y \in SideRecord
        BY <2>3, <4>2, <4>4, <4>5 DEF SideRecord
      <4> QED BY <4>1, <4>3, <4>6, Zenon
    <3>2. side \in [Sides -> SideRecord]
      BY <1>1 DEF ComparisonTyped
    <3> QED BY <1>3, <3>1, <3>2, Zenon
  <2>6. /\ side'[s].dir = side[s].dir /\ side'[s].meta = side[s].meta
        /\ side'[s].rows = file.run /\ side'[s].levels = ls
    BY <2>1, <2>5 DEF SideRecord
  <2>7. ComparisonTyped'
    BY <1>1, <1>3, <2>5 DEF ComparisonTyped, SideRecord
  <2>8. SideAgrees(s)'
    <3>1. MetaRead(s) /\ SideAgrees(s)
      BY DEF ReadRows, MetaRead, ComparisonAgrees, Sides
    <3> QED BY <1>1, <2>2, <2>4, <2>6, <3>1 DEF SideAgrees
  <2>9. ASSUME NEW t \in Sides, t # s
        PROVE  SideAgrees(t)'
    <3>1. SideAgrees(t) /\ side'[t] = side[t] /\ (~touched' => ~touched)
      BY <1>3, <2>5, <2>9 DEF ComparisonAgrees
    <3>2. (MetaRead(t)' => MetaRead(t)) /\ (RowsRead(t)' => RowsRead(t))
      BY <1>3, <2>9 DEF MetaRead, RowsRead, ReadRows, Sides
    <3> QED BY <1>1, <3>1, <3>2 DEF SideAgrees
  <2> QED BY <1>3, <2>7, <2>8, <2>9 DEF ComparisonAgrees
<1> QED BY <1>2, <1>3 DEF ReadRows

LEMMA NextKeepsComparison ==
    ASSUME TypeOK, DirsAgree, ComparisonAgrees, [Next]_vars
    PROVE  ComparisonTyped' /\ ComparisonAgrees'
<1>1. CASE UNCHANGED comparison /\ UNCHANGED <<made, files, dirty, touched>>
  BY <1>1, BenchmarkKeepsComparison
<1>2. CASE WriteFile \/ KillBenchmark
  BY <1>2, BenchmarkKeepsComparison DEF WriteFile, KillBenchmark
<1>3. ASSUME NEW d \in Dirs, NEW w \in Workloads, NEW m \in Models,
             NEW served \in SUBSET Models, NEW ls \in LevelSets,
             StartBenchmark(d, w, m, served, ls)
      PROVE  ComparisonTyped' /\ ComparisonAgrees'
  <2>1. UNCHANGED comparison
    BY <1>3 DEF StartBenchmark
  <2> QED BY <1>3, <2>1, BenchmarkKeepsComparison
<1>4. ASSUME NEW s \in Sides, ReadMetadata(s) \/ ReadRows(s)
      PROVE  ComparisonTyped' /\ ComparisonAgrees'
  BY <1>4, ReadMetadataKeeps, ReadRowsKeeps
<1>5. /\ Run \in Nat /\ Run = Len(made) /\ ComparisonTyped
  BY TypeParts, LenProperties DEF Run, BenchmarkTyped
<1>6. CASE LeaveComparison /\ UNCHANGED benchmark
  <2>1. Run' \in Nat
    BY <1>5, <1>6 DEF benchmark, Run
  <2> QED BY <1>6, <2>1, LeaveKeeps
<1>7. ASSUME NEW k \in Kinds, NEW a \in Dirs, NEW b \in Dirs, StartComparison(k, a, b)
      PROVE  ComparisonTyped' /\ ComparisonAgrees'
  <2>1. /\ kind' = k /\ touched' = FALSE /\ cpc' = "meta_a" /\ UNCHANGED made
        /\ side' = [s \in Sides |-> [NoRead EXCEPT !.dir = IF s = "a" THEN a ELSE b]]
    BY <1>7 DEF StartComparison, benchmark
  <2>2. Run' = Run
    BY <2>1 DEF Run
  <2>3. ASSUME NEW s \in Sides
        PROVE  [NoRead EXCEPT !.dir = IF s = "a" THEN a ELSE b] \in SideRecord
    <3>1. PICK e \in Dirs : e = IF s = "a" THEN a ELSE b
      OBVIOUS
    <3>2. [NoRead EXCEPT !.dir = e] = [dir |-> e, meta |-> 0, rows |-> 0, levels |-> {}]
      BY DEF NoRead
    <3>3. [dir |-> e, meta |-> 0, rows |-> 0, levels |-> {}] \in SideRecord
      BY <1>5 DEF SideRecord
    <3> QED BY <3>1, <3>2, <3>3, Zenon
  <2>4. side' \in [Sides -> SideRecord]
    BY <2>1, <2>3, Zenon
  <2>5. SideRecord' = SideRecord
    BY <2>2 DEF SideRecord
  <2>6. ComparisonTyped'
    BY <2>1, <2>4, <2>5 DEF ComparisonTyped
  <2> QED BY <2>1, <2>6 DEF ComparisonAgrees, SideAgrees, MetaRead, RowsRead
<1>8. CASE Check
  <2>1. CASE LeaveComparison
    BY <1>6, <1>8, <2>1 DEF Check
  <2>2. CASE /\ SameWorkload(kind, made[side["a"].meta], made[side["b"].meta])
             /\ side["a"].levels = side["b"].levels
             /\ cpc' = "reported" /\ UNCHANGED <<kind, side, touched>>
    <3>1. cpc = "check" /\ UNCHANGED <<made, files, dirty>> /\ Run' = Run
      BY <1>8 DEF Check, benchmark, Run
    <3>2. ComparisonTyped'
      BY <1>5, <2>2, <3>1 DEF ComparisonTyped, SideRecord
    <3>3. ASSUME NEW s \in Sides
          PROVE  SideAgrees(s)'
      <4>1. SideAgrees(s) /\ MetaRead(s) /\ RowsRead(s)
        BY <3>1 DEF ComparisonAgrees, MetaRead, RowsRead
      <4> QED BY <2>2, <3>1, <4>1 DEF SideAgrees
    <3>4. SameWorkload(kind, made[side["a"].meta], made[side["b"].meta])'
      BY <2>2, <3>1, Zenon DEF SameWorkload
    <3> QED BY <2>2, <3>2, <3>3, <3>4 DEF ComparisonAgrees
  <2> QED BY <1>8, <2>1, <2>2 DEF Check
<1>9. CASE Next
  <2>1. \/ UNCHANGED comparison /\ UNCHANGED <<made, files, dirty, touched>>
        \/ WriteFile \/ KillBenchmark
        \/ \E d \in Dirs, w \in Workloads, m \in Models, served \in SUBSET Models,
              ls \in LevelSets : StartBenchmark(d, w, m, served, ls)
        \/ \E k \in Kinds, a, b \in Dirs : StartComparison(k, a, b)
        \/ \E s \in Sides : ReadMetadata(s) \/ ReadRows(s)
        \/ Check \/ (LeaveComparison /\ UNCHANGED benchmark)
    BY <1>9 DEF Next, RunHFCase, EndHFCase, MeasureEndpoint, EndMeasuring, EndBenchmark,
                EndComparison, benchmark
  <2> QED BY <1>1, <1>2, <1>3, <1>4, <1>6, <1>7, <1>8, <2>1
<1> QED BY <1>1, <1>9 DEF vars, benchmark

-----------------------------------------------------------------------------
(* Everything together. *)

BenchmarksInv == TypeOK /\ CaseInv /\ DirsAgree /\ ComparisonAgrees

(* The inductive invariant: types, the case, the directories, and what the      *)
(* comparison has read.                                                         *)
THEOREM BenchmarksCorrect == Spec => []BenchmarksInv
<1>1. Init => BenchmarksInv
  <2>1. Init => CaseInv
    BY CaseStarts DEF Init, HF!Init, AtStart
  <2>2. Init => ComparisonAgrees
    BY DEF Init, ComparisonAgrees, SideAgrees, MetaRead, RowsRead
  <2> QED BY <2>1, <2>2, InitTyped, DirsStart DEF BenchmarksInv
<1>2. BenchmarksInv /\ [Next]_vars => BenchmarksInv'
  <2> SUFFICES ASSUME TypeOK, CaseInv, DirsAgree, ComparisonAgrees, [Next]_vars
               PROVE  BenchmarksInv'
    BY DEF BenchmarksInv
  <2>1. CaseInv' /\ DirsAgree' /\ ComparisonTyped' /\ ComparisonAgrees'
    BY NextKeepsCase, NextKeepsDirs, NextKeepsComparison
  <2>2. BenchmarkTyped'
    BY BenchmarkStepTyped
  <2>3. TypeOK'
    <3>1. HF!TypeOK'
      BY <2>1 DEF CaseInv
    <3> QED BY <2>1, <2>2, <3>1, TypeParts, PTL
  <2> QED BY <2>1, <2>3 DEF BenchmarksInv
<1> QED BY <1>1, <1>2, PTL DEF Spec

(* Types, for every set of directories, workloads, models and levels. *)
THEOREM BenchmarksTypeCorrect == Spec => []TypeOK
<1>1. BenchmarksInv => TypeOK
  BY DEF BenchmarksInv
<1> QED BY <1>1, BenchmarksCorrect, PTL

(* The main functions: a directory no script was killed in, and none is        *)
(* writing, holds the whole files of one run, whatever was there before.       *)
THEOREM DirectoriesCorrect == Spec => []ArtifactsOfOneRun
<1>1. DirsAgree => ArtifactsOfOneRun
  BY Zenon DEF DirsAgree, OfOneRun, OwnFiles, ArtifactsOfOneRun
<1>2. BenchmarksInv => ArtifactsOfOneRun
  BY <1>1 DEF BenchmarksInv
<1> QED BY <1>2, BenchmarksCorrect, PTL

(* The comparison scripts: what is reported as comparable was measured with the *)
(* same workload, at the same levels and where asked with the same model,       *)
(* however the reads interleave with benchmarks writing to other directories.   *)
THEOREM ComparisonsCorrect == Spec => []ComparedAlike
<1>1. ComparisonAgrees => ComparedAlike
  <2> SUFFICES ASSUME ComparisonAgrees, cpc = "reported", ~touched
               PROVE  LET x == made[side["a"].rows]
                          y == made[side["b"].rows]
                      IN /\ SameWorkload(kind, x, y)
                         /\ kind # "quality" => x.workload = y.workload
                         /\ x.levels = y.levels
    BY DEF ComparedAlike
  <2>1. \A s \in Sides : /\ side[s].rows = side[s].meta
                         /\ side[s].levels = made[side[s].rows].levels
    BY DEF ComparisonAgrees, SideAgrees, RowsRead
  <2>2. "a" \in Sides /\ "b" \in Sides
    BY DEF Sides
  <2> QED BY <2>1, <2>2, Zenon DEF ComparisonAgrees, SameWorkload
<1>2. BenchmarksInv => ComparedAlike
  BY <1>1 DEF BenchmarksInv
<1> QED BY <1>2, BenchmarksCorrect, PTL

-----------------------------------------------------------------------------
(* Types, and where the loop over the variants is. *)

Preparing == {"next", "gpu_before_server", "launch"}
Running == {"started", "session"} \cup InTry \cup InFinally

(* A running attempt is the one for Head(todo), and no attempt is above the bound. *)
LoopPosition ==
    /\ at \in Running =>
           attempt \in Attempts /\ todo # <<>> /\ attempt + Len(todo) <= MaxAttempts + 1
    /\ at \in Preparing => attempt + Len(todo) <= MaxAttempts
    /\ at \in Preparing \ {"next"} => todo # <<>>

LEMMA ChoicesAreSequences ==
    ASSUME NEW vs \in Choices
    PROVE  vs \in Seq(Variants)
BY AttemptsAssumption DEF Choices

LEMMA SessionInitTyped == SessionInit => SessionTypeOK /\ LoopPosition
<1> SUFFICES ASSUME SessionInit PROVE SessionTypeOK /\ LoopPosition
  OBVIOUS
<1> USE AttemptsAssumption, SessionBoundsAssumption DEF SessionInit, Attempts
<1>1. variant \in [Attempts -> Variants]
  OBVIOUS
<1>2. metadata \in [Variants -> [state : FileStates, attempt : 0 .. MaxAttempts,
                                  error : BOOLEAN, profiled : BOOLEAN]]
  BY DEF NoMetadata, FileStates
<1>3. todo \in Seq(Variants)
  OBVIOUS
<1>4. at \in Locations /\ LoopPosition
  BY DEF LoopPosition, Locations, Running, Preparing, InTry, InFinally
<1>5. /\ server \in [Attempts -> {"absent", "loading", "ready", "gone"}]
      /\ sampler \in [Attempts -> {"off", "idle", "query"}]
      /\ stop_event \in [Attempts -> BOOLEAN] /\ late_rows \in [Attempts -> Nat]
      /\ traces \subseteq [attempt : Attempts, server : Attempts]
  OBVIOUS
<1>6. polls \in 0 .. MaxPolls /\ stops \in 0 .. MaxStops /\ attempt \in 0 .. MaxAttempts
  OBVIOUS
<1>7. profiling \subseteq Attempts /\ abandoned \subseteq Attempts /\ session_file \in FileStates
  BY DEF FileStates
<1> QED BY <1>1, <1>2, <1>3, <1>4, <1>5, <1>6, <1>7
  DEF SessionTypeOK, FileStates

LEMMA NextTyped ==
    ASSUME SessionTypeOK, LoopPosition, SessionNext
    PROVE  SessionTypeOK' /\ LoopPosition'
<1> USE AttemptsAssumption, SessionBoundsAssumption
    DEF SessionTypeOK, LoopPosition, Locations, Running, Preparing, Supervising, InTry, InFinally,
        Snapshots, FileStates, Attempts,
        servers, threads, disk
<1>0. /\ at \in Running => attempt \in Attempts /\ variant[attempt] \in Variants
      /\ todo # <<>> => Head(todo) \in Variants /\ Tail(todo) \in Seq(Variants)
                             /\ Len(Tail(todo)) = Len(todo) - 1
      /\ Len(todo) \in Nat /\ <<>> \in Seq(Variants) /\ Len(<<>>) = 0
      /\ todo # <<>> => Len(todo) >= 1
  OBVIOUS
<1>b. ASSUME Leave,
             metadata' \in [Variants -> [state : FileStates, attempt : 0 .. MaxAttempts,
                                         error : BOOLEAN, profiled : BOOLEAN]],
             session_file' \in FileStates, stops' \in 0 .. MaxStops
      PROVE  SessionTypeOK' /\ LoopPosition'
  <2>1. abandoned' \subseteq Attempts
    BY <1>b, <1>0 DEF Leave
  <2>2. sampler' \in [Attempts -> {"off", "idle", "query"}]
    BY <1>b DEF Leave
  <2>3. LoopPosition' /\ at' \in Locations /\ todo' \in Seq(Variants)
    BY <1>b, <1>0 DEF Leave
  <2> QED BY <1>b, <2>1, <2>2, <2>3 DEF Leave
<1>c. CASE CutOff /\ stops' \in 0 .. MaxStops
  <2>1. metadata' \in [Variants -> [state : FileStates, attempt : 0 .. MaxAttempts,
                                    error : BOOLEAN, profiled : BOOLEAN]]
    <3>1. ASSUME NEW v \in Variants
          PROVE  Torn(v) \in [Variants -> [state : FileStates, attempt : 0 .. MaxAttempts,
                                           error : BOOLEAN, profiled : BOOLEAN]]
      BY <3>1 DEF Torn
    <3> QED BY <1>0, <1>c, <3>1 DEF CutOff
  <2>2. session_file' \in FileStates
    BY <1>c DEF CutOff
  <2> HIDE DEF SessionTypeOK, LoopPosition, FileStates
  <2> QED BY <1>b, <1>c, <2>1, <2>2 DEF CutOff
<1>1. ASSUME NEW vs \in Choices, StartScript(vs)
      PROVE  SessionTypeOK' /\ LoopPosition'
  BY <1>1, ChoicesAreSequences DEF StartScript
<1>2. CASE BeginVariant
  BY <1>0, <1>2 DEF BeginVariant, Continue
<1>3. CASE Launch
  <2>1. attempt' \in Attempts /\ attempt' + Len(todo) <= MaxAttempts + 1
    BY <1>0, <1>3 DEF Launch
  <2>2. variant' \in [Attempts -> Variants]
    BY <1>0, <1>3, <2>1 DEF Launch
  <2>3. server' \in [Attempts -> {"absent", "loading", "ready", "gone"}]
    BY <1>3, <2>1 DEF Launch
  <2>4. LoopPosition'
    BY <1>3, <2>1 DEF Launch
  <2>5. at' \in Locations /\ attempt' \in 0 .. MaxAttempts /\ polls' \in 0 .. MaxPolls
    BY <1>3, <2>1 DEF Launch
  <2> QED BY <1>3, <2>2, <2>3, <2>4, <2>5 DEF Launch
<1>4. CASE LaunchFails
  BY <1>b, <1>4 DEF LaunchFails
<1>5. CASE EnterTry
  BY <1>0, <1>5 DEF EnterTry, Continue
<1>6. CASE Poll
  <2>1. polls' \in 0 .. MaxPolls
    BY <1>6 DEF Poll
  <2> QED BY <1>6, <2>1 DEF Poll, Raise, Continue
<1>7. CASE GetModels
  <2>1. \A v \in Variants : Model[v] \in Range(Model)
    BY ModelAssumption DEF Range
  <2>2. served_model' \in Range(Model) \cup {NoModel}
    BY <1>7, <2>1 DEF GetModels, Listening
  <2> QED BY <1>7, <2>2 DEF GetModels, Raise, Continue
<1>8. CASE Warmups
  BY <1>8 DEF Warmups, Continue
<1>9. CASE StartProfile
  BY <1>9 DEF StartProfile, Raise, Continue, Listening
<1>10. CASE ProfiledRequests
  BY <1>10 DEF ProfiledRequests, Continue
<1>11. CASE StopProfile
  <2>1. attempt \in Attempts
    BY <1>0, <1>11 DEF StopProfile
  <2>2. PICK b \in Listening :
           /\ profiling' = profiling \ {b}
           /\ traces' = IF b \in profiling
                         THEN traces \cup {[attempt |-> attempt, server |-> b]} ELSE traces
    BY <1>11 DEF StopProfile
  <2>3. profiling' \subseteq Attempts /\ traces' \subseteq [attempt : Attempts, server : Attempts]
    <3>1. [attempt |-> attempt, server |-> b] \in [attempt : Attempts, server : Attempts]
      BY <2>1 DEF Listening
    <3> QED BY <2>2, <3>1
  <2> QED BY <1>11, <2>3 DEF StopProfile, Raise, Continue
<1>12. CASE ProfileStopped
  BY <1>0, <1>12 DEF ProfileStopped, Continue
<1>13. CASE CallFails
  BY <1>13 DEF CallFails, Raise
<1>14. CASE StopSampler
  BY <1>14 DEF StopSampler, Continue
<1>15. CASE StopProcess
  BY <1>15 DEF StopProcess, Continue
<1>16. CASE InterruptEnds
  BY <1>16 DEF InterruptEnds, Continue
<1>17. CASE KillEnds
  <2>1. CASE Alive(attempt)
    BY <1>b, <1>17, <2>1 DEF KillEnds
  <2>2. CASE ~Alive(attempt)
    BY <1>0, <1>17, <2>2 DEF KillEnds, Continue
  <2> QED BY <2>1, <2>2
<1>18. CASE WriteMetadata
  <2>1. metadata' \in [Variants -> [state : FileStates, attempt : 0 .. MaxAttempts,
                                    error : BOOLEAN, profiled : BOOLEAN]]
    BY <1>18 DEF WriteMetadata
  <2>2. CASE outcome = "none"
    BY <1>0, <1>18, <2>1, <2>2 DEF WriteMetadata, Continue
  <2>3. CASE outcome # "none"
    <3>1. Leave /\ UNCHANGED <<stops, session_file>>
      BY <1>18, <2>3 DEF WriteMetadata
    <3> QED BY <1>b, <2>1, <3>1
  <2> QED BY <2>2, <2>3
<1>19. CASE WriteSession
  <2>1. attempt \in Attempts /\ variant[attempt] \in Variants
    BY <1>0, <1>19 DEF WriteSession
  <2>2. session' \subseteq [variant : Variants, attempt : Attempts]
    <3>1. [variant |-> variant[attempt], attempt |-> attempt]
              \in [variant : Variants, attempt : Attempts]
      BY <2>1
    <3> QED BY <1>0, <1>19, <3>1 DEF WriteSession, Replaced
  <2>3. todo # <<>> /\ todo' = Tail(todo) /\ at' = "next" /\ attempt' = attempt
    BY <1>0, <1>19 DEF WriteSession
  <2>4. todo' \in Seq(Variants) /\ LoopPosition'
    BY <1>0, <1>19, <2>1, <2>3 DEF WriteSession
  <2> QED BY <1>19, <2>2, <2>3, <2>4 DEF WriteSession
<1>20. CASE EndScript
  BY <1>b, <1>20 DEF EndScript
<1>21. CASE Snapshot
  BY <1>0, <1>21 DEF Snapshot, Snapshots, After, Continue
<1>22. CASE SnapshotFails
  <2>1. CASE at \in InTry
    BY <1>0, <1>22, <2>1 DEF SnapshotFails, Raise
  <2>2. CASE at \notin InTry
    BY <1>b, <1>22, <2>2 DEF SnapshotFails
  <2> QED BY <2>1, <2>2
<1>23. CASE Interrupt
  <2>1. stops' \in 0 .. MaxStops
    BY <1>23 DEF Interrupt
  <2>2. CASE at \in InTry
    BY <1>0, <1>23, <2>1, <2>2 DEF Interrupt
  <2>3. CASE at \notin InTry
    <3>1. CutOff
      BY <1>23, <2>3 DEF Interrupt
    <3> QED BY <1>c, <2>1, <3>1
  <2> QED BY <2>2, <2>3
<1>24. CASE Kill
  <2>1. CutOff /\ stops' \in 0 .. MaxStops
    BY <1>24 DEF Kill
  <2> QED BY <1>c, <2>1
<1>25. ASSUME NEW a \in Attempts, ServerReady(a)
       PROVE  SessionTypeOK' /\ LoopPosition'
  BY <1>25 DEF ServerReady, script
<1>26. ASSUME NEW a \in Attempts, ServerExits(a)
       PROVE  SessionTypeOK' /\ LoopPosition'
  BY <1>26 DEF ServerExits, script
<1>27. ASSUME NEW a \in Attempts, Sample(a)
       PROVE  SessionTypeOK' /\ LoopPosition'
  BY <1>27 DEF Sample, script
<1>28. ASSUME NEW a \in Attempts, WriteRow(a)
       PROVE  SessionTypeOK' /\ LoopPosition'
  <2>1. late_rows' \in [Attempts -> Nat] /\ sampler' \in [Attempts -> {"off", "idle", "query"}]
    BY <1>28 DEF WriteRow
  <2> QED BY <1>28, <2>1 DEF WriteRow, script
<1> QED BY <1>1, <1>2, <1>3, <1>4, <1>5, <1>6, <1>7, <1>8, <1>9, <1>10, <1>11, <1>12,
            <1>13, <1>14, <1>15, <1>16, <1>17, <1>18, <1>19, <1>20, <1>21, <1>22, <1>23, <1>24,
            <1>25, <1>26, <1>27, <1>28
        DEF SessionNext, ScriptStep

-----------------------------------------------------------------------------
(* The servers. *)

LEMMA NextSupervised ==
    ASSUME SessionTypeOK, LoopPosition, ServersSupervised, SessionNext
    PROVE  ServersSupervised'
<1>0. /\ server \in [Attempts -> {"absent", "loading", "ready", "gone"}]
      /\ at \in Running => attempt \in Attempts
  BY DEF SessionTypeOK, LoopPosition
<1> USE DEF ServersSupervised, Alive, Running, Supervising, InTry, InFinally,
            servers, threads, disk
<1>b. CASE Leave
  BY <1>0, <1>b DEF Leave
<1>1. ASSUME NEW vs \in Choices, StartScript(vs)
      PROVE  ServersSupervised'
  BY <1>1 DEF StartScript
<1>2. CASE BeginVariant
  BY <1>2 DEF BeginVariant, Continue
<1>3. CASE Launch
  BY <1>0, <1>3 DEF Launch
<1>4. CASE LaunchFails
  BY <1>b, <1>4 DEF LaunchFails
<1>5. CASE EnterTry
  BY <1>5 DEF EnterTry, Continue
<1>6. CASE Poll
  BY <1>6 DEF Poll, Raise, Continue
<1>7. CASE GetModels
  BY <1>7 DEF GetModels, Raise, Continue, Listening
<1>8. CASE Warmups
  BY <1>8 DEF Warmups, Continue
<1>9. CASE StartProfile
  BY <1>9 DEF StartProfile, Raise, Continue, Listening
<1>10. CASE ProfiledRequests
  BY <1>10 DEF ProfiledRequests, Continue
<1>11. CASE StopProfile
  BY <1>11 DEF StopProfile, Raise, Continue, Listening
<1>12. CASE ProfileStopped
  BY <1>12 DEF ProfileStopped, Continue
<1>13. CASE CallFails
  BY <1>13 DEF CallFails, Raise
<1>14. CASE StopSampler
  BY <1>14 DEF StopSampler, Continue
<1>15. CASE StopProcess
  BY <1>15 DEF StopProcess, Continue
<1>16. CASE InterruptEnds
  BY <1>16 DEF InterruptEnds, Continue
<1>17. CASE KillEnds
  BY <1>b, <1>17 DEF KillEnds, Continue
<1>18. CASE WriteMetadata
  BY <1>b, <1>18 DEF WriteMetadata, Continue
<1>19. CASE WriteSession
  BY <1>19 DEF WriteSession, Replaced
<1>20. CASE EndScript
  BY <1>b, <1>20 DEF EndScript
<1>21. CASE Snapshot
  BY <1>21 DEF Snapshot, Snapshots, After, Continue
<1>22. CASE SnapshotFails
  <2>1. CASE at \in InTry
    BY <1>22, <2>1 DEF SnapshotFails, Raise
  <2>2. CASE at \notin InTry
    BY <1>b, <1>22, <2>2 DEF SnapshotFails
  <2> QED BY <2>1, <2>2
<1>23. CASE Interrupt
  <2>1. CASE at \in InTry
    BY <1>23, <2>1 DEF Interrupt
  <2>2. CASE at \notin InTry
    BY <1>b, <1>23, <2>2 DEF Interrupt, CutOff
  <2> QED BY <2>1, <2>2
<1>24. CASE Kill
  BY <1>b, <1>24 DEF Kill, CutOff
<1>25. ASSUME NEW a \in Attempts, ServerReady(a)
       PROVE  ServersSupervised'
  BY <1>0, <1>25 DEF ServerReady, script
<1>26. ASSUME NEW a \in Attempts, ServerExits(a)
       PROVE  ServersSupervised'
  BY <1>0, <1>26 DEF ServerExits, script
<1>27. ASSUME NEW a \in Attempts, Sample(a)
       PROVE  ServersSupervised'
  BY <1>27 DEF Sample, script
<1>28. ASSUME NEW a \in Attempts, WriteRow(a)
       PROVE  ServersSupervised'
  BY <1>28 DEF WriteRow, script
<1> QED BY <1>1, <1>2, <1>3, <1>4, <1>5, <1>6, <1>7, <1>8, <1>9, <1>10, <1>11, <1>12,
            <1>13, <1>14, <1>15, <1>16, <1>17, <1>18, <1>19, <1>20, <1>21, <1>22, <1>23, <1>24,
            <1>25, <1>26, <1>27, <1>28
        DEF SessionNext, ScriptStep

(* Unless a server was left behind, the only one that listens is the current one. *)
LEMMA OnlyOwnServer ==
    ASSUME ServersSupervised, abandoned = {}
    PROVE  Listening \subseteq {attempt}
BY DEF ServersSupervised, Listening, Alive

-----------------------------------------------------------------------------
(* The files of a script that was cut off. *)
LEMMA CutOffKeeps ==
    ASSUME SessionTypeOK, LoopPosition, CutOff, NEW v \in Variants
    PROVE  /\ metadata'[v].attempt = metadata[v].attempt
           /\ metadata'[v].error = metadata[v].error
           /\ metadata'[v].profiled = metadata[v].profiled
<1>1. metadata \in [Variants -> [state : FileStates, attempt : 0 .. MaxAttempts,
                                 error : BOOLEAN, profiled : BOOLEAN]]
  BY DEF SessionTypeOK
<1>2. ASSUME NEW w \in Variants
      PROVE  /\ Torn(w)[v].attempt = metadata[v].attempt
             /\ Torn(w)[v].error = metadata[v].error
             /\ Torn(w)[v].profiled = metadata[v].profiled
  BY <1>1 DEF Torn
<1>3. at = "write" => variant[attempt] \in Variants
  BY DEF SessionTypeOK, LoopPosition, Running, InFinally
<1> QED BY <1>2, <1>3 DEF CutOff

(* The profiles. *)

(* Servers and traces are those of past attempts; until somebody is left behind they are *)
(* taken from the attempt's own server, the served model is the one that was  *)
(* asked for, and a profile that was stopped was running and left its trace.  *)
TracesFiled ==
    /\ \A t \in traces : t.server <= attempt
    /\ \A a \in Attempts : Alive(a) => a <= attempt
    /\ abandoned = {} =>
           /\ \A t \in traces : t.server = t.attempt
           /\ at \in {"started"} \cup InTry /\ served_model # NoModel =>
                  served_model = Model[variant[attempt]]
           /\ at \in {"requests", "stop_profile"} /\ Alive(attempt) => attempt \in profiling
           /\ at = "stopped" \/ (at \in Running /\ profiled) => OwnTrace(attempt) \in traces
           /\ \A v \in Variants : metadata[v].profiled =>
                  /\ OwnTrace(metadata[v].attempt) \in traces
                  /\ variant[metadata[v].attempt] = v

LEMMA NextFiled ==
    ASSUME SessionTypeOK, LoopPosition, ServersSupervised, TracesFiled, SessionNext
    PROVE  TracesFiled'
<1>0. /\ attempt \in Int /\ variant \in [Attempts -> Variants]
      /\ at \in Running => attempt \in Attempts /\ variant[attempt] \in Variants
      /\ traces \subseteq [attempt : Attempts, server : Attempts]
      /\ metadata \in [Variants -> [state : FileStates, attempt : 0 .. MaxAttempts,
                                    error : BOOLEAN, profiled : BOOLEAN]]
      /\ server \in [Attempts -> {"absent", "loading", "ready", "gone"}]
      /\ profiling \subseteq Attempts
      /\ abandoned = {} => Listening \subseteq {attempt}
  BY OnlyOwnServer DEF SessionTypeOK, LoopPosition
<1>z. Attempts \subseteq Int
  BY AttemptsAssumption DEF Attempts
<1> USE DEF TracesFiled, Running, InTry, InFinally, servers, threads, disk, Alive
<1>b. ASSUME Leave,
             \A v \in Variants : /\ metadata'[v].profiled =>
                                       metadata'[v].profiled = metadata[v].profiled
                                        /\ metadata'[v].attempt = metadata[v].attempt
      PROVE  TracesFiled'
  <2>1. abandoned' = {} => abandoned = {}
    BY <1>b DEF Leave
  <2>2. /\ at' = "off" /\ traces' = traces /\ variant' = variant /\ attempt' = attempt
        /\ server' = server
    BY <1>b DEF Leave
  <2> QED BY <1>b, <2>1, <2>2
<1>1. ASSUME NEW vs \in Choices, StartScript(vs)
      PROVE  TracesFiled'
  BY <1>1 DEF StartScript
<1>2. CASE BeginVariant
  BY <1>2 DEF BeginVariant, Continue
<1>3. CASE Launch
  <2>1. \A a \in Attempts : a <= attempt => variant'[a] = variant[a]
    BY <1>0, <1>z, <1>3 DEF Launch
  <2>2. \A t \in traces' : t.server \in Attempts /\ t.server <= attempt'
    <3>1. traces' = traces /\ attempt' = attempt + 1
      BY <1>3 DEF Launch
    <3>2. \A t \in traces : t.server \in Attempts /\ t.server <= attempt
      BY <1>0
    <3>3. \A t \in traces : t.server \in Int
      BY <1>z, <3>2
    <3> HIDE DEF TracesFiled
    <3> QED BY <1>0, <3>1, <3>2, <3>3
  <2>5. \A a \in Attempts : Alive(a)' => a <= attempt'
    BY <1>0, <1>z, <1>3 DEF Launch
  <2>3. /\ traces' = traces /\ abandoned' = abandoned /\ metadata' = metadata
        /\ at' = "started" /\ served_model' = NoModel /\ profiled' = FALSE
    BY <1>3 DEF Launch
  <2>4. ASSUME abandoned = {}, NEW v \in Variants, metadata[v].profiled
        PROVE  /\ OwnTrace(metadata[v].attempt) \in traces
               /\ variant'[metadata[v].attempt] = v
    <3>1. OwnTrace(metadata[v].attempt) \in traces /\ variant[metadata[v].attempt] = v
      BY <2>4
    <3>2. metadata[v].attempt \in Attempts /\ metadata[v].attempt <= attempt
      BY <1>0, <3>1 DEF OwnTrace
    <3> QED BY <2>1, <3>1, <3>2
  <2> QED BY <2>2, <2>3, <2>4, <2>5
<1>4. CASE LaunchFails
  BY <1>b, <1>4 DEF LaunchFails
<1>5. CASE EnterTry
  BY <1>5 DEF EnterTry, Continue
<1>6. CASE Poll
  BY <1>6 DEF Poll, Raise, Continue
<1>7. CASE GetModels
  BY <1>0, <1>7 DEF GetModels, Raise, Continue, Listening
<1>8. CASE Warmups
  BY <1>8 DEF Warmups, Continue
<1>9. CASE StartProfile
  BY <1>0, <1>9 DEF StartProfile, Raise, Continue, Listening
<1>10. CASE ProfiledRequests
  BY <1>10 DEF ProfiledRequests, Continue
<1>11. CASE StopProfile
  <2>1. PICK b \in Listening :
           /\ profiling' = profiling \ {b}
           /\ traces' = IF b \in profiling
                         THEN traces \cup {[attempt |-> attempt, server |-> b]} ELSE traces
    BY <1>11 DEF StopProfile
  <2>2. /\ b \in Attempts /\ Alive(b) /\ at = "stop_profile" /\ at' = "stopped"
        /\ UNCHANGED <<abandoned, attempt, variant, served_model, profiled, metadata, server>>
    BY <1>11 DEF StopProfile, Continue, Listening
  <2>3. b <= attempt
    BY <2>2
  <2>4. traces \subseteq traces'
    BY <2>1
  <2>5. \A t \in traces' : t.server <= attempt
    BY <2>1, <2>3
  <2>6. abandoned = {} => b = attempt /\ b \in profiling
    BY <1>0, <2>2
  <2>7. abandoned = {} => OwnTrace(attempt) \in traces' /\ \A t \in traces' : t.server = t.attempt
    BY <2>1, <2>6 DEF OwnTrace
  <2> QED BY <1>0, <2>2, <2>4, <2>5, <2>7
<1>12. CASE ProfileStopped
  BY <1>12 DEF ProfileStopped, Continue
<1>13. CASE CallFails
  BY <1>13 DEF CallFails, Raise
<1>14. CASE StopSampler
  BY <1>14 DEF StopSampler, Continue
<1>15. CASE StopProcess
  BY <1>15 DEF StopProcess, Continue
<1>16. CASE InterruptEnds
  BY <1>16 DEF InterruptEnds, Continue
<1>17. CASE KillEnds
  <2>1. CASE Alive(attempt)
    <3> HIDE DEF TracesFiled, Alive
    <3> QED BY <1>b, <1>17, <2>1 DEF KillEnds
  <2>2. CASE ~Alive(attempt)
    BY <1>17, <2>2 DEF KillEnds, Continue
  <2> QED BY <2>1, <2>2
<1>18. CASE WriteMetadata
  <2>1. /\ attempt \in Attempts /\ variant[attempt] \in Variants /\ at = "write"
        /\ at' \in {"session", "off"}
        /\ abandoned' = {} => abandoned = {}
        /\ UNCHANGED <<attempt, variant, served_model, profiled, server, profiling, traces>>
    BY <1>0, <1>18 DEF WriteMetadata, Continue, Leave
  <2>2. ASSUME NEW v \in Variants
        PROVE  metadata'[v] = IF v = variant[attempt]
                              THEN [state |-> "whole", attempt |-> attempt,
                                    error |-> outcome = "error", profiled |-> profiled]
                              ELSE metadata[v]
    BY <1>0, <1>18, <2>1 DEF WriteMetadata
  <2>3. ASSUME abandoned = {}, NEW v \in Variants, metadata'[v].profiled
        PROVE  /\ OwnTrace(metadata'[v].attempt) \in traces
               /\ variant[metadata'[v].attempt] = v
    <3>1. CASE v = variant[attempt]
      BY <2>1, <2>2, <2>3, <3>1
    <3>2. CASE v # variant[attempt]
      BY <2>2, <2>3, <3>2
    <3> QED BY <3>1, <3>2
  <2>4. abandoned' = {} => OwnTrace(attempt) \in traces \/ ~profiled
    BY <2>1
  <2>5. at' \notin InTry \cup {"started", "requests", "stop_profile", "stopped"}
    BY <2>1
  <2> QED BY <2>1, <2>3, <2>4, <2>5
<1>19. CASE WriteSession
  BY <1>19 DEF WriteSession, Replaced
<1>20. CASE EndScript
  BY <1>b, <1>20 DEF EndScript
<1>21. CASE Snapshot
  BY <1>21 DEF Snapshot, Snapshots, After, Continue
<1>22. CASE SnapshotFails
  <2>1. CASE at \in InTry
    BY <1>22, <2>1 DEF SnapshotFails, Raise
  <2>2. CASE at \notin InTry
    BY <1>b, <1>22, <2>2 DEF SnapshotFails
  <2> QED BY <2>1, <2>2
<1>23. CASE Interrupt
  <2>1. CASE at \in InTry
    BY <1>23, <2>1 DEF Interrupt
  <2>2. CASE at \notin InTry
    BY <1>b, <1>23, <2>2, CutOffKeeps DEF Interrupt, CutOff
  <2> QED BY <2>1, <2>2
<1>24. CASE Kill
  BY <1>b, <1>24, CutOffKeeps DEF Kill, CutOff
<1>25. ASSUME NEW a \in Attempts, ServerReady(a)
       PROVE  TracesFiled'
  BY <1>0, <1>25 DEF ServerReady, script
<1>26. ASSUME NEW a \in Attempts, ServerExits(a)
       PROVE  TracesFiled'
  BY <1>0, <1>26 DEF ServerExits, script
<1>27. ASSUME NEW a \in Attempts, Sample(a)
       PROVE  TracesFiled'
  BY <1>27 DEF Sample, script
<1>28. ASSUME NEW a \in Attempts, WriteRow(a)
       PROVE  TracesFiled'
  BY <1>28 DEF WriteRow, script
<1> QED BY <1>1, <1>2, <1>3, <1>4, <1>5, <1>6, <1>7, <1>8, <1>9, <1>10, <1>11, <1>12,
            <1>13, <1>14, <1>15, <1>16, <1>17, <1>18, <1>19, <1>20, <1>21, <1>22, <1>23, <1>24,
            <1>25, <1>26, <1>27, <1>28
        DEF SessionNext, ScriptStep

(* Of the attempts on record, each is past, and its metadata tells how it ended. *)
SessionWritten ==
    /\ SessionBacked
    /\ \A e \in session : e.attempt <= attempt /\ (at \in Running => e.attempt < attempt)
    /\ at \in {"gpu_after_profile"} \cup InFinally /\ outcome = "none" => profiled
    /\ at = "session" =>
           LET m == metadata[variant[attempt]]
           IN m.attempt = attempt /\ ~m.error /\ m.profiled

LEMMA NextWritten ==
    ASSUME SessionTypeOK, LoopPosition, SessionWritten, SessionNext
    PROVE  SessionWritten'
<1>0. /\ attempt \in Int
      /\ at \in Running => attempt \in Attempts /\ variant[attempt] \in Variants
      /\ metadata \in [Variants -> [state : FileStates, attempt : 0 .. MaxAttempts,
                                    error : BOOLEAN, profiled : BOOLEAN]]
      /\ session \subseteq [variant : Variants, attempt : Attempts]
  BY DEF SessionTypeOK, LoopPosition
<1>z. /\ Attempts \subseteq Int
      /\ \A e \in session : e.attempt \in Int /\ e.variant \in Variants
  BY <1>0, AttemptsAssumption DEF Attempts
<1> USE DEF SessionWritten, SessionBacked, Running, InTry, InFinally, servers, threads, disk
<1>b. ASSUME Leave,
             \A v \in Variants : /\ metadata'[v].attempt = metadata[v].attempt
                                 /\ metadata'[v].error = metadata[v].error
                                 /\ metadata'[v].profiled = metadata[v].profiled
      PROVE  SessionWritten'
  <2>1. session' = session /\ attempt' = attempt /\ at' = "off"
    BY <1>b DEF Leave
  <2>2. SessionBacked'
    BY <1>b, <1>z, <2>1
  <2> QED BY <2>1, <2>2
<1>1. ASSUME NEW vs \in Choices, StartScript(vs)
      PROVE  SessionWritten'
  BY <1>1 DEF StartScript
<1>2. CASE BeginVariant
  BY <1>2 DEF BeginVariant, Continue
<1>3. CASE Launch
  <2>1. SessionBacked'
    BY <1>3 DEF Launch
  <2>2. \A e \in session' : e.attempt < attempt'
    BY <1>0, <1>z, <1>3 DEF Launch
  <2>3. at' = "started"
    BY <1>3 DEF Launch
  <2>4. \A e \in session' : e.attempt <= attempt'
    BY <1>0, <1>z, <1>3 DEF Launch
  <2> HIDE DEF SessionBacked
  <2> QED BY <2>1, <2>2, <2>3, <2>4
<1>4. CASE LaunchFails
  BY <1>b, <1>4 DEF LaunchFails
<1>5. CASE EnterTry
  BY <1>5 DEF EnterTry, Continue
<1>6. CASE Poll
  BY <1>6 DEF Poll, Raise, Continue
<1>7. CASE GetModels
  BY <1>7 DEF GetModels, Raise, Continue
<1>8. CASE Warmups
  BY <1>8 DEF Warmups, Continue
<1>9. CASE StartProfile
  BY <1>9 DEF StartProfile, Raise, Continue
<1>10. CASE ProfiledRequests
  BY <1>10 DEF ProfiledRequests, Continue
<1>11. CASE StopProfile
  BY <1>11 DEF StopProfile, Raise, Continue
<1>12. CASE ProfileStopped
  BY <1>12 DEF ProfileStopped, Continue
<1>13. CASE CallFails
  BY <1>13 DEF CallFails, Raise
<1>14. CASE StopSampler
  BY <1>14 DEF StopSampler, Continue
<1>15. CASE StopProcess
  BY <1>15 DEF StopProcess, Continue
<1>16. CASE InterruptEnds
  BY <1>16 DEF InterruptEnds, Continue
<1>17. CASE KillEnds
  <2>1. CASE Alive(attempt)
    <3> HIDE DEF SessionWritten
    <3> QED BY <1>b, <1>17, <2>1 DEF KillEnds
  <2>2. CASE ~Alive(attempt)
    BY <1>17, <2>2 DEF KillEnds, Continue
  <2> QED BY <2>1, <2>2
<1>18. CASE WriteMetadata
  <2>1. /\ session' = session /\ attempt' = attempt /\ variant' = variant
        /\ \A e \in session : e.attempt < attempt
        /\ attempt \in Attempts /\ variant[attempt] \in Variants
        /\ profiled \in BOOLEAN /\ outcome = "none" => profiled
    BY <1>0, <1>18 DEF WriteMetadata, Continue, Leave, SessionTypeOK
  <2>2. ASSUME NEW v \in Variants, v \notin {variant[attempt]}
        PROVE  metadata'[v] = metadata[v]
    BY <1>0, <1>18, <2>1, <2>2 DEF WriteMetadata
  <2>3. /\ metadata'[variant[attempt]].attempt = attempt
        /\ metadata'[variant[attempt]].error = (outcome = "error")
        /\ metadata'[variant[attempt]].profiled = profiled
    BY <1>0, <1>18, <2>1 DEF WriteMetadata
  <2>4. SessionBacked'
    BY <1>z, <2>1, <2>2, <2>3
  <2>5. at' = (IF outcome = "none" THEN "session" ELSE "off")
    BY <1>18 DEF WriteMetadata, Continue, Leave
  <2>6. at' = "session" =>
            LET m == metadata'[variant'[attempt']]
            IN m.attempt = attempt' /\ ~m.error /\ m.profiled
    <3>1. variant'[attempt'] = variant[attempt]
      BY <2>1
    <3>2. outcome = "none" => /\ ~metadata'[variant[attempt]].error
                              /\ metadata'[variant[attempt]].profiled
      BY <1>0, <1>18, <2>1 DEF WriteMetadata
    <3> HIDE DEF SessionBacked, SessionWritten
    <3> QED BY <2>1, <2>3, <2>5, <3>1, <3>2
  <2>7. \A e \in session' : e.attempt < attempt' /\ e.attempt <= attempt'
    BY <1>0, <1>z, <2>1
  <2> HIDE DEF SessionBacked
  <2> QED BY <2>4, <2>5, <2>6, <2>7
<1>19. CASE WriteSession
  BY <1>0, <1>19 DEF WriteSession, Replaced
<1>20. CASE EndScript
  BY <1>b, <1>20 DEF EndScript
<1>21. CASE Snapshot
  BY <1>21 DEF Snapshot, Snapshots, After, Continue
<1>22. CASE SnapshotFails
  <2>1. CASE at \in InTry
    BY <1>22, <2>1 DEF SnapshotFails, Raise
  <2>2. CASE at \notin InTry
    BY <1>b, <1>22, <2>2 DEF SnapshotFails
  <2> QED BY <2>1, <2>2
<1>23. CASE Interrupt
  <2>1. CASE at \in InTry
    BY <1>23, <2>1 DEF Interrupt
  <2>2. CASE at \notin InTry
    BY <1>b, <1>23, <2>2, CutOffKeeps DEF Interrupt, CutOff
  <2> QED BY <2>1, <2>2
<1>24. CASE Kill
  BY <1>b, <1>24, CutOffKeeps DEF Kill, CutOff
<1>25. ASSUME NEW a \in Attempts, ServerReady(a)
       PROVE  SessionWritten'
  BY <1>25 DEF ServerReady, script
<1>26. ASSUME NEW a \in Attempts, ServerExits(a)
       PROVE  SessionWritten'
  BY <1>26 DEF ServerExits, script
<1>27. ASSUME NEW a \in Attempts, Sample(a)
       PROVE  SessionWritten'
  BY <1>27 DEF Sample, script
<1>28. ASSUME NEW a \in Attempts, WriteRow(a)
       PROVE  SessionWritten'
  BY <1>28 DEF WriteRow, script
<1> QED BY <1>1, <1>2, <1>3, <1>4, <1>5, <1>6, <1>7, <1>8, <1>9, <1>10, <1>11, <1>12,
            <1>13, <1>14, <1>15, <1>16, <1>17, <1>18, <1>19, <1>20, <1>21, <1>22, <1>23, <1>24,
            <1>25, <1>26, <1>27, <1>28
        DEF SessionNext, ScriptStep

-----------------------------------------------------------------------------
(* The samplers. *)

(* A thread that has written a row too many is not in a query again, and the *)
(* event of an attempt is clear until its finally clause.                     *)
SamplersStop ==
    /\ \A a \in Attempts :
          /\ late_rows[a] <= 1
          /\ sampler[a] = "query" => late_rows[a] = 0
          /\ late_rows[a] > 0 => sampler[a] = "off" \/ stop_event[a]
          /\ a > attempt => late_rows[a] = 0 /\ ~stop_event[a] /\ sampler[a] = "off"
    /\ at \in InTry \cup {"started", "finally"} => late_rows[attempt] = 0 /\ ~stop_event[attempt]

LEMMA NextStop ==
    ASSUME SessionTypeOK, LoopPosition, SamplersStop, SessionNext
    PROVE  SamplersStop'
<1>0. /\ attempt \in Int /\ Attempts \subseteq Int
      /\ at \in Running => attempt \in Attempts
      /\ at = "launch" => attempt + 1 \in Attempts
      /\ sampler \in [Attempts -> {"off", "idle", "query"}]
      /\ stop_event \in [Attempts -> BOOLEAN] /\ late_rows \in [Attempts -> Nat]
  <2>1. at = "launch" => attempt + 1 \in Attempts
    <3>1. at = "launch" => Len(todo) >= 1 /\ attempt + Len(todo) <= MaxAttempts
      BY DEF SessionTypeOK, LoopPosition, Preparing
    <3>2. Len(todo) \in Nat /\ attempt \in Nat
      BY DEF SessionTypeOK
    <3> QED BY <3>1, <3>2, AttemptsAssumption DEF Attempts
  <2> QED BY <2>1, AttemptsAssumption DEF SessionTypeOK, LoopPosition, Attempts
<1> USE DEF SamplersStop, Running, InTry, InFinally, servers, threads, disk
<1>b. CASE Leave
  BY <1>0, <1>b DEF Leave
<1>1. ASSUME NEW vs \in Choices, StartScript(vs)
      PROVE  SamplersStop'
  BY <1>1 DEF StartScript
<1>2. CASE BeginVariant
  BY <1>2 DEF BeginVariant, Continue
<1>3. CASE Launch
  BY <1>0, <1>3 DEF Launch
<1>4. CASE LaunchFails
  BY <1>b, <1>4 DEF LaunchFails
<1>5. CASE EnterTry
  BY <1>5 DEF EnterTry, Continue
<1>6. CASE Poll
  BY <1>6 DEF Poll, Raise, Continue
<1>7. CASE GetModels
  BY <1>7 DEF GetModels, Raise, Continue
<1>8. CASE Warmups
  BY <1>0, <1>8 DEF Warmups, Continue
<1>9. CASE StartProfile
  BY <1>9 DEF StartProfile, Raise, Continue
<1>10. CASE ProfiledRequests
  BY <1>10 DEF ProfiledRequests, Continue
<1>11. CASE StopProfile
  BY <1>11 DEF StopProfile, Raise, Continue
<1>12. CASE ProfileStopped
  BY <1>12 DEF ProfileStopped, Continue
<1>13. CASE CallFails
  BY <1>13 DEF CallFails, Raise
<1>14. CASE StopSampler
  BY <1>0, <1>14 DEF StopSampler, Continue
<1>15. CASE StopProcess
  BY <1>15 DEF StopProcess, Continue
<1>16. CASE InterruptEnds
  BY <1>16 DEF InterruptEnds, Continue
<1>17. CASE KillEnds
  BY <1>b, <1>17 DEF KillEnds, Continue
<1>18. CASE WriteMetadata
  BY <1>b, <1>18 DEF WriteMetadata, Continue
<1>19. CASE WriteSession
  BY <1>19 DEF WriteSession, Replaced
<1>20. CASE EndScript
  BY <1>b, <1>20 DEF EndScript
<1>21. CASE Snapshot
  BY <1>21 DEF Snapshot, Snapshots, After, Continue
<1>22. CASE SnapshotFails
  <2>1. CASE at \in InTry
    BY <1>22, <2>1 DEF SnapshotFails, Raise
  <2>2. CASE at \notin InTry
    BY <1>b, <1>22, <2>2 DEF SnapshotFails
  <2> QED BY <2>1, <2>2
<1>23. CASE Interrupt
  <2>1. CASE at \in InTry
    BY <1>23, <2>1 DEF Interrupt
  <2>2. CASE at \notin InTry
    BY <1>b, <1>23, <2>2 DEF Interrupt, CutOff
  <2> QED BY <2>1, <2>2
<1>24. CASE Kill
  BY <1>b, <1>24 DEF Kill, CutOff
<1>25. ASSUME NEW a \in Attempts, ServerReady(a)
       PROVE  SamplersStop'
  BY <1>25 DEF ServerReady, script
<1>26. ASSUME NEW a \in Attempts, ServerExits(a)
       PROVE  SamplersStop'
  BY <1>26 DEF ServerExits, script
<1>27. ASSUME NEW a \in Attempts, Sample(a)
       PROVE  SamplersStop'
  BY <1>0, <1>27 DEF Sample, script
<1>28. ASSUME NEW a \in Attempts, WriteRow(a)
       PROVE  SamplersStop'
  BY <1>0, <1>28 DEF WriteRow, script
<1> QED BY <1>1, <1>2, <1>3, <1>4, <1>5, <1>6, <1>7, <1>8, <1>9, <1>10, <1>11, <1>12,
            <1>13, <1>14, <1>15, <1>16, <1>17, <1>18, <1>19, <1>20, <1>21, <1>22, <1>23, <1>24,
            <1>25, <1>26, <1>27, <1>28
        DEF SessionNext, ScriptStep

-----------------------------------------------------------------------------
(* All together. *)

IInv ==
    SessionTypeOK /\ LoopPosition /\ ServersSupervised /\ TracesFiled /\ SessionWritten /\ SamplersStop

LEMMA InitInvariant == SessionInit => IInv
<1> SUFFICES ASSUME SessionInit PROVE IInv
  OBVIOUS
<1>1. SessionTypeOK /\ LoopPosition
  BY SessionInitTyped
<1>2. ServersSupervised
  BY DEF SessionInit, ServersSupervised, Alive
<1>3. TracesFiled
  BY DEF SessionInit, TracesFiled, NoMetadata, Alive, InTry, InFinally, Running
<1>4. SessionWritten
  BY DEF SessionInit, SessionWritten, SessionBacked, InTry, InFinally, Running
<1>5. SamplersStop
  BY DEF SessionInit, SamplersStop, InTry
<1> QED BY <1>1, <1>2, <1>3, <1>4, <1>5 DEF IInv

LEMMA StepInvariant == IInv /\ [SessionNext]_session_vars => IInv'
<1> SUFFICES ASSUME IInv, [SessionNext]_session_vars PROVE IInv'
  OBVIOUS
<1>1. CASE SessionNext
  BY <1>1, NextTyped, NextSupervised, NextFiled, NextWritten, NextStop DEF IInv
<1>2. CASE UNCHANGED session_vars
  <2>1. SessionTypeOK' /\ LoopPosition'
    BY <1>2 DEF IInv, SessionTypeOK, LoopPosition, session_vars, script, servers, threads, disk
  <2>2. ServersSupervised'
    BY <1>2 DEF IInv, ServersSupervised, Alive, session_vars, script, servers
  <2>3. TracesFiled'
    BY <1>2 DEF IInv, TracesFiled, Alive, session_vars, script, servers, disk
  <2>4. SessionWritten' /\ SamplersStop'
    BY <1>2 DEF IInv, SessionWritten, SessionBacked, SamplersStop, session_vars, script, servers,
                threads, disk
  <2> QED BY <2>1, <2>2, <2>3, <2>4 DEF IInv
<1> QED BY <1>1, <1>2

LEMMA Invariant == SessionSpec => []IInv
<1>1. SessionInit /\ [][SessionNext]_session_vars => []IInv
  BY InitInvariant, StepInvariant, PTL
<1> QED BY <1>1, PTL DEF SessionSpec

(* run_variant and stop_process lose sight of a server in few ways: one that  *)
(* is alive belongs to the attempt in progress, or was left behind by a       *)
(* script that was killed, or interrupted outside its try (while it cleaned   *)
(* up, say), or by a SIGKILL without effect.                                  *)
THEOREM ServersCorrect == SessionSpec => []ServersSupervised
<1>1. IInv => ServersSupervised
  BY DEF IInv
<1> QED BY <1>1, Invariant, PTL

(* While no server is left behind, wait_for_server finds the model that was    *)
(* asked for, and every trace was taken from the server of the attempt that    *)
(* stopped the profile, never from an earlier one's.                           *)
THEOREM ProfilesCorrect == SessionSpec => []ProfilesOwnServer
<1>1. IInv => ProfilesOwnServer
  BY DEF IInv, TracesFiled, ProfilesOwnServer
<1> QED BY <1>1, Invariant, PTL

(* What analyze_vllm_profile.py accepts was taken by the attempt its metadata  *)
(* describes, if that took its profile to the end, over any sequence of        *)
(* repeated, failed and interrupted runs that leaves no server behind.         *)
THEOREM AnalysisCorrect == SessionSpec => []AnalysisPairsTrace
<1>1. ASSUME IInv, abandoned = {}, NEW v \in Variants, Analyzable(v), metadata[v].profiled
      PROVE  \A t \in TracesIn(v) : t = OwnTrace(metadata[v].attempt)
  <2>1. OwnTrace(metadata[v].attempt) \in TracesIn(v)
    BY <1>1 DEF IInv, TracesFiled, TracesIn, OwnTrace
  <2>2. Cardinality(TracesIn(v)) = 1
    BY <1>1 DEF Analyzable
  <2>3. IsFiniteSet(TracesIn(v))
    <3>1. IsFiniteSet(Attempts)
      BY AttemptsAssumption, FS_Interval DEF Attempts
    <3>2. IsFiniteSet(Attempts \X Attempts)
      BY <3>1, FS_Product
    <3>3. IsFiniteSet([attempt : Attempts, server : Attempts])
      <4> DEFINE Pair == [q \in Attempts \X Attempts |-> [attempt |-> q[1], server |-> q[2]]]
                 Records == [attempt : Attempts, server : Attempts]
      <4>1. Pair \in [Attempts \X Attempts -> Records]
        OBVIOUS
      <4>2. ASSUME NEW t \in Records
            PROVE  \E q \in Attempts \X Attempts : Pair[q] = t
        <5>1. <<t.attempt, t.server>> \in Attempts \X Attempts
          OBVIOUS
        <5>2. Pair[<<t.attempt, t.server>>] = t
          BY <5>1
        <5> QED BY <5>1, <5>2
      <4>3. Pair \in Surjection(Attempts \X Attempts, Records)
        BY <4>1, <4>2, Fun_IsSurj
      <4> QED BY <3>2, <4>3, FS_Surjection
    <3>4. TracesIn(v) \subseteq [attempt : Attempts, server : Attempts]
      BY <1>1 DEF IInv, SessionTypeOK, TracesIn
    <3> QED BY <3>3, <3>4, FS_Subset
  <2>4. PICK t : TracesIn(v) = {t}
    BY <2>2, <2>3, FS_Singleton
  <2> QED BY <2>1, <2>4
<1>2. IInv => AnalysisPairsTrace
  BY <1>1, Zenon DEF AnalysisPairsTrace
<1> QED BY <1>2, Invariant, PTL

(* session.json names each variant once and only profiles that completed: an   *)
(* attempt that fails or is interrupted after its profile never gets there.    *)
THEOREM SessionCorrect == SessionSpec => []SessionBacked
<1>1. IInv => SessionBacked
  BY DEF IInv, SessionWritten
<1> QED BY <1>1, Invariant, PTL

(* A sampler thread that outlives the join of PowerSampler.stop writes at most *)
(* one row more.                                                               *)
THEOREM OneLateRowCorrect == SessionSpec => []OneLateRow
<1>1. IInv => OneLateRow
  BY DEF IInv, SamplersStop, OneLateRow
<1> QED BY <1>1, Invariant, PTL
=============================================================================
