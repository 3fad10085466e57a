----------------------------- MODULE HFGeneration -----------------------------
(***************************************************************************)
(* run_hf_case of scripts/hf_benchmark.py: the prompts of one case are cut *)
(* into batches of `concurrency`, and generate_batch decodes each batch    *)
(* greedily, all its rows in lock step.  What the model says is left open: *)
(* a call returns, for every row, a token or the end of its sequence, or   *)
(* it raises.  Times are left out but for the order they are taken in.     *)
(***************************************************************************)
EXTENDS Integers, Sequences, FiniteSets

CONSTANTS
    RequestsCount,   \* requests_count
    Warmup,          \* warmup
    Concurrency,     \* concurrency, here the size of a batch
    MaxTokens        \* max_tokens

VARIABLES
    phase,     \* where run_hf_case is
    stage,     \* "warmup" or "measure"
    offset,    \* start of the batch in the list of prompts
    batch,     \* the records of generate_batch, one per row
    finished,  \* the rows that ended
    said,      \* per call of the model so far, the rows it ended
    records    \* the records of the case

vars == <<phase, stage, offset, batch, finished, said, records>>

Phases == {"idle", "batch", "prefill", "decode", "returned", "done", "raised"}
NewRecord(id) == [id |-> id, ok |-> FALSE, tokens |-> 0, error |-> ""]
Record == [id : Int, ok : BOOLEAN, tokens : 0 .. MaxTokens,
           error : {"", "no token", "raised"}]

Init ==
    /\ phase = "idle" /\ stage = "warmup" /\ offset = 0
    /\ batch = <<>> /\ finished = {} /\ said = <<>> /\ records = <<>>

Begin ==
    /\ phase = "idle"
    /\ phase' = "batch"
    /\ UNCHANGED <<stage, offset, batch, finished, said, records>>

(* The two loops of run_hf_case over chunks: first the warmup prompts, whose *)
(* records nobody keeps, then the measured ones.                             *)
Prompts == IF stage = "warmup" THEN Warmup ELSE RequestsCount

BatchSize ==
    IF offset + Concurrency <= Prompts THEN Concurrency ELSE Prompts - offset

(* Warmup requests are numbered from below zero. *)
RequestOffset == IF stage = "warmup" THEN -(offset + 1) ELSE offset

StartBatch ==
    /\ phase = "batch" /\ offset < Prompts
    /\ phase' = "prefill"
    /\ batch' = [i \in 1 .. BatchSize |-> NewRecord(RequestOffset + i - 1)]
    /\ finished' = {} /\ said' = <<>>
    /\ UNCHANGED <<stage, offset, records>>

(* The tokenizer is called outside the try: its exception ends the script. *)
TokenizerRaises ==
    /\ phase = "batch" /\ offset < Prompts
    /\ phase' = "raised"
    /\ UNCHANGED <<stage, offset, batch, finished, said, records>>

EndLoop ==
    /\ phase = "batch" /\ offset >= Prompts
    /\ offset' = 0
    /\ IF stage = "warmup" THEN stage' = "measure" /\ UNCHANGED phase
       ELSE phase' = "done" /\ UNCHANGED stage
    /\ UNCHANGED <<batch, finished, said, records>>

-----------------------------------------------------------------------------
(* generate_batch.  A call of the model ends the rows in eos: the prefill, and  *)
(* then the decode loop for as long as a row is unfinished.                     *)
Rows == DOMAIN batch

(* Finished rows are fed padding and what comes back for them is skipped. *)
FaultyUnfinished == Rows   \* padding is counted as well
Unfinished == Rows \ finished

Token(eos) ==
    /\ batch' = [i \in Rows |->
           IF i \in Unfinished \ eos
           THEN [batch[i] EXCEPT !.ok = TRUE, !.tokens = @ + 1] ELSE batch[i]]
    /\ finished' = finished \cup (Unfinished \cap eos)
    /\ said' = Append(said, eos)

Prefill(eos) ==
    /\ phase = "prefill"
    /\ Token(eos)
    /\ phase' = "decode"
    /\ UNCHANGED <<stage, offset, records>>

Ended == Len(said) >= MaxTokens \/ Unfinished = {}
Decoding == phase = "decode" /\ ~Ended

Decode(eos) ==
    /\ Decoding
    /\ Token(eos)
    /\ UNCHANGED <<phase, stage, offset, records>>

(* A row without a token gets an error of its own. *)
FaultyReturn ==   \* the error is left out
    /\ phase = "decode" /\ ~Decoding
    /\ phase' = "returned"
    /\ UNCHANGED <<stage, offset, batch, finished, said, records>>
Return ==
    /\ phase = "decode" /\ ~Decoding
    /\ phase' = "returned"
    /\ batch' = [i \in Rows |->
           IF batch[i].tokens = 0 THEN [batch[i] EXCEPT !.error = "no token"]
           ELSE batch[i]]
    /\ UNCHANGED <<stage, offset, finished, said, records>>

(* The except clause: every record gets the text of the exception, which may *)
(* be empty; those that have a token stay ok, with the tokens they have.      *)
ModelRaises ==
    /\ phase = "prefill" \/ Decoding
    /\ phase' = "returned"
    /\ \E text \in {"raised", ""} :
           batch' = [i \in Rows |-> [batch[i] EXCEPT !.error = text]]
    /\ UNCHANGED <<stage, offset, finished, said, records>>

(* Back in run_hf_case; of the records, what summarize_case goes by. *)
Kept == [i \in Rows |-> [id |-> batch[i].id, ok |-> batch[i].ok]]

Collect ==
    /\ phase = "returned"
    /\ phase' = "batch"
    /\ offset' = offset + Concurrency
    /\ records' = IF stage = "measure" THEN records \o Kept ELSE records
    /\ batch' = <<>> /\ finished' = {} /\ said' = <<>>
    /\ UNCHANGED stage

Next ==
    \/ StartBatch \/ TokenizerRaises \/ EndLoop
    \/ \E eos \in SUBSET Rows : Prefill(eos) \/ Decode(eos)
    \/ Return \/ ModelRaises \/ Collect

(* The script that calls run_hf_case takes its first step. *)
Spec == Init /\ [][Begin \/ Next]_vars /\ WF_vars(Begin \/ Next)

-----------------------------------------------------------------------------
(* Type correctness. *)
TypeOK ==
    /\ phase \in Phases /\ stage \in {"warmup", "measure"}
    /\ offset \in Nat
    /\ batch \in Seq(Record) /\ records \in Seq([id : Int, ok : BOOLEAN])
    /\ finished \subseteq Rows
    /\ said \in Seq(SUBSET Rows) /\ Len(said) <= MaxTokens

(* completion_tokens, from which tokens/s and TPOT are computed, counts exactly *)
(* the calls before the one that ended the row: neither the end itself nor the  *)
(* padding that is decoded while other rows go on.                              *)
TokensUntilEos ==
    \A i \in Rows :
        batch[i].tokens =
            Cardinality({k \in 1 .. Len(said) : \A j \in 1 .. k : i \notin said[j]})

(* A failed request says why, and a record without an error is complete: its   *)
(* row ended, or it has all the tokens asked for.  (A record with an error may *)
(* still be ok: an exception keeps the rows that have a token.)  That holds of *)
(* a batch that ran to its end and of one in which any record has an error.    *)
(* It cannot be said of a batch cut short by an exception without a text, such *)
(* as MemoryError(): its records look like those of a batch in progress.       *)
ErrorsTell ==
    phase = "returned" /\ (Ended \/ \E j \in Rows : batch[j].error # "") =>
        \A i \in Rows :
            /\ ~batch[i].ok => batch[i].error # ""
            /\ batch[i].error = "" =>
                   batch[i].tokens = MaxTokens \/ \E k \in DOMAIN said : i \in said[k]

(* Whatever is raised and however the prompts divide into batches, a case that  *)
(* is summarised has one record for every request, in their order, and none of  *)
(* the warmup.                                                                  *)
MeasuredOnce ==
    phase = "done" =>
        /\ Len(records) = RequestsCount
        /\ \A i \in DOMAIN records : records[i].id = i - 1
=============================================================================
