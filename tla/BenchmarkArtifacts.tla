-------------------------- MODULE BenchmarkArtifacts --------------------------
(***************************************************************************)
(* The benchmark scripts and what they leave on disk.  hf_benchmark.py,    *)
(* gpu_benchmark.py and quality_smoke.py measure first and then write the  *)
(* files of their output directory one after the other, over those of an   *)
(* earlier run.  compare_gpu_benchmarks.py, compare_quantization.py,       *)
(* compare_hf_vllm.py and compare_quality.py read two such directories and *)
(* report on them if their workloads agree.                                *)
(*                                                                         *)
(* The content of a file is the number of the run that wrote it.  At most  *)
(* one benchmark and one comparison run at a time, interleaved.            *)
(***************************************************************************)
EXTENDS Integers, Sequences, FiniteSets, Functions

CONSTANTS
    RequestsCount, Warmup, Concurrency, MaxTokens,   \* of HFGeneration
    Dirs,        \* the output directories
    Tool,        \* which script writes a directory: "hf", "gpu" or "quality"
    Workloads,   \* prompts, requests, warmup, runs and max_tokens of a run
    Models,      \* the model ids
    LevelSets,   \* the concurrency levels of a run; for "quality" the case ids
    MaxRuns,     \* bound: benchmark runs
    MaxKills     \* bound: benchmarks that are killed

ASSUME CaseAssumption ==
    /\ RequestsCount \in Nat \ {0} /\ Warmup \in Nat
    /\ Concurrency \in Nat \ {0} /\ MaxTokens \in Nat \ {0}
ASSUME DirsAssumption == Dirs # {}
ASSUME ToolAssumption == Tool \in [Dirs -> {"hf", "gpu", "quality"}]
ASSUME LevelsAssumption == \A ls \in LevelSets : IsFiniteSet(ls) /\ ls # {}
ASSUME BoundsAssumption == MaxRuns \in Nat /\ MaxKills \in Nat

VARIABLES
    phase, stage, offset, batch, finished, said, records,   \* HFGeneration
    pc,          \* where the benchmark is: "off", "measure" or "write"
    made,        \* what the runs so far were asked for, the last one current
    measured,    \* the levels whose case was run
    left,        \* the files still to be written
    kills,
    files,       \* per directory and file: whole or not, and by which run
    dirty,       \* directories whose files are not all of one finished run
    cpc,         \* where the comparison is
    kind,        \* which comparison it is
    side,        \* the two directories and what was read from them
    touched      \* a directory was dirty or written to while it was read

case == <<phase, stage, offset, batch, finished, said, records>>
benchmark == <<pc, made, measured, left, kills, files, dirty>>
comparison == <<cpc, kind, side>>
vars == <<case, benchmark, comparison, touched>>

HF == INSTANCE HFGeneration

Files == {"rows", "requests", "metadata", "report", "plots"}
Sides == {"a", "b"}
Kinds == {"gpu", "quantization", "hf_vllm", "quality"}
Run == Len(made)                  \* the number of the current run
Current == made[Run]
NoRead == [dir |-> CHOOSE d \in Dirs : TRUE, meta |-> 0, rows |-> 0, levels |-> {}]

(* The order of the writes at the end of main. *)
Order(tool) ==
    IF tool = "quality" THEN <<"rows", "metadata", "report">>
    ELSE <<"rows", "requests", "metadata", "report", "plots">>

Init ==
    /\ HF!Init
    /\ pc = "off" /\ made = <<>> /\ measured = {} /\ left = <<>> /\ kills = 0
    /\ files = [d \in Dirs |-> [f \in Files |-> [state |-> "absent", run |-> 0]]]
    /\ dirty = {}
    /\ cpc = "idle" /\ kind = "gpu" /\ side = [s \in Sides |-> NoRead]
    /\ touched = FALSE

-----------------------------------------------------------------------------
(* main up to the loop: the preflight of gpu_benchmark asks the endpoint for    *)
(* its models and takes the requested one, or the only one there is.            *)
Resolve(requested, served) ==
    IF requested \in served THEN {requested}
    ELSE IF Cardinality(served) = 1 THEN served ELSE {}

ResolvedModels(tool, requested, served) ==
    IF tool = "gpu" THEN Resolve(requested, served) ELSE {requested}

StartBenchmark(d, w, requested, served, levels) ==
    /\ pc = "off" /\ Run < MaxRuns
    /\ \E m \in ResolvedModels(Tool[d], requested, served) :
           made' = Append(made, [dir |-> d, workload |-> w, model |-> m, levels |-> levels])
    /\ pc' = "measure" /\ measured' = {} /\ left' = Order(Tool[d])
    /\ UNCHANGED <<case, kills, files, dirty, comparison, touched>>

(* run_hf_case, in the steps of HFGeneration.  An exception that leaves it ends *)
(* the script, and nothing is written.                                          *)
RunHFCase ==
    /\ pc = "measure" /\ Tool[Current.dir] = "hf" /\ measured # Current.levels
    /\ HF!Begin \/ HF!Next
    /\ UNCHANGED <<benchmark, comparison, touched>>

HFReset ==
    /\ phase' = "idle" /\ stage' = "warmup" /\ offset' = 0
    /\ batch' = <<>> /\ finished' = {} /\ said' = <<>> /\ records' = <<>>

EndHFCase(level) ==
    /\ pc = "measure" /\ phase \in {"done", "raised"}
    /\ level \in Current.levels \ measured
    /\ HFReset
    /\ IF phase = "done" THEN measured' = measured \cup {level} /\ UNCHANGED pc
       ELSE pc' = "off" /\ UNCHANGED measured
    /\ UNCHANGED <<made, left, kills, files, dirty, comparison, touched>>

(* run_stream_case and _call_case: whatever the endpoint does becomes records. *)
MeasureEndpoint(level) ==
    /\ pc = "measure" /\ Tool[Current.dir] # "hf"
    /\ level \in Current.levels \ measured
    /\ measured' = measured \cup {level}
    /\ UNCHANGED <<case, pc, made, left, kills, files, dirty, comparison, touched>>

EndMeasuring ==
    /\ pc = "measure" /\ measured = Current.levels
    /\ pc' = "write"
    /\ UNCHANGED <<case, made, measured, left, kills, files, dirty, comparison, touched>>

BeingRead(d) == cpc # "idle" /\ \E s \in Sides : side[s].dir = d

(* The files are written one by one; from the first to the last the directory *)
(* holds those of two runs.                                                    *)
WriteFile ==
    /\ pc = "write" /\ left # <<>>
    /\ LET d == Current.dir
       IN /\ files' = [files EXCEPT ![d][Head(left)] = [state |-> "whole", run |-> Run]]
          /\ dirty' = IF Len(left) = 1 THEN dirty \ {d} ELSE dirty \cup {d}
          /\ touched' = (touched \/ BeingRead(d))
    /\ left' = Tail(left)
    /\ UNCHANGED <<case, pc, made, measured, kills, comparison>>

EndBenchmark ==
    /\ pc = "write" /\ left = <<>>
    /\ pc' = "off"
    /\ UNCHANGED <<case, made, measured, left, kills, files, dirty, comparison, touched>>

(* The script is killed, possibly in the middle of a file. *)
KillBenchmark ==
    /\ pc # "off" /\ kills < MaxKills
    /\ kills' = kills + 1
    /\ pc' = "off"
    /\ HFReset
    /\ \/ UNCHANGED <<files, dirty, touched>>
       \/ /\ pc = "write" /\ left # <<>>
          /\ files' = [files EXCEPT ![Current.dir][Head(left)] =
                           [state |-> "torn", run |-> Run]]
          /\ dirty' = dirty \cup {Current.dir}
          /\ touched' = (touched \/ BeingRead(Current.dir))
    /\ UNCHANGED <<made, measured, left, comparison>>

-----------------------------------------------------------------------------
(* The comparison scripts: _read_artifact of both directories, metadata.json    *)
(* before summary.csv (results.csv), then the checks, then the report.          *)
Readable(k) == IF k = "quality" THEN {d \in Dirs : Tool[d] = "quality"}
               ELSE {d \in Dirs : Tool[d] # "quality"}

StartComparison(k, a, b) ==
    /\ cpc = "idle"
    /\ a \in Readable(k) /\ b \in Readable(k)
    /\ kind' = k
    /\ side' = [s \in Sides |-> [NoRead EXCEPT !.dir = IF s = "a" THEN a ELSE b]]
    /\ touched' = FALSE
    /\ cpc' = "meta_a"
    /\ UNCHANGED <<case, benchmark>>

(* The script ends: its report is written, a check has failed, or a file is  *)
(* missing or half of a JSON file.                                           *)
LeaveComparison ==
    /\ cpc' = "idle" /\ kind' = "gpu" /\ touched' = FALSE
    /\ side' = [s \in Sides |-> NoRead]

ReadMetadata(s) ==
    /\ cpc = (IF s = "a" THEN "meta_a" ELSE "meta_b")
    /\ LET file == files[side[s].dir]["metadata"]
       IN \/ file.state # "whole" /\ LeaveComparison
          \/ /\ file.state = "whole"
             /\ side' = [side EXCEPT ![s].meta = file.run]
             /\ cpc' = IF s = "a" THEN "rows_a" ELSE "rows_b"
             /\ touched' = (touched \/ side[s].dir \in dirty)
             /\ UNCHANGED kind
    /\ UNCHANGED <<case, benchmark>>

(* Half of a CSV file still has the rows up to there. *)
RowsIn(file) ==
    IF file.state = "whole" THEN {made[file.run].levels}
    ELSE SUBSET made[file.run].levels

ReadRows(s) ==
    /\ cpc = (IF s = "a" THEN "rows_a" ELSE "rows_b")
    /\ LET file == files[side[s].dir]["rows"]
       IN \/ file.state # "whole" /\ LeaveComparison
          \/ /\ file.state # "absent"
             /\ \E ls \in RowsIn(file) :
                    side' = [side EXCEPT ![s].rows = file.run, ![s].levels = ls]
             /\ cpc' = IF s = "a" THEN "meta_b" ELSE "check"
             /\ touched' = (touched \/ side[s].dir \in dirty)
             /\ UNCHANGED kind
    /\ UNCHANGED <<case, benchmark>>

(* WORKLOAD_KEYS of each script: of the workload, and for compare_gpu_benchmarks *)
(* of the model as well; compare_quality compares the ids of the cases only.     *)
FaultySameWorkload(k, x, y) == k = "gpu" => x.model = y.model   \* one key only
SameWorkload(k, x, y) ==
    /\ k # "quality" => x.workload = y.workload
    /\ k = "gpu" => x.model = y.model

Check ==
    /\ cpc = "check"
    /\ IF /\ SameWorkload(kind, made[side["a"].meta], made[side["b"].meta])
          /\ side["a"].levels = side["b"].levels
       THEN cpc' = "reported" /\ UNCHANGED <<kind, side, touched>>
       ELSE LeaveComparison
    /\ UNCHANGED <<case, benchmark>>

EndComparison ==
    /\ cpc = "reported"
    /\ LeaveComparison
    /\ UNCHANGED <<case, benchmark>>

-----------------------------------------------------------------------------
Next ==
    \/ \E d \in Dirs, w \in Workloads, m \in Models, served \in SUBSET Models,
          ls \in LevelSets : StartBenchmark(d, w, m, served, ls)
    \/ RunHFCase
    \/ \E level \in UNION LevelSets : EndHFCase(level) \/ MeasureEndpoint(level)
    \/ EndMeasuring \/ WriteFile \/ EndBenchmark \/ KillBenchmark
    \/ \E k \in Kinds, a, b \in Dirs : StartComparison(k, a, b)
    \/ \E s \in Sides : ReadMetadata(s) \/ ReadRows(s)
    \/ Check \/ EndComparison

Spec == Init /\ [][Next]_vars

-----------------------------------------------------------------------------
(* Type correctness. *)
TypeOK ==
    /\ HF!TypeOK
    /\ pc \in {"off", "measure", "write"}
    /\ made \in Seq([dir : Dirs, workload : Workloads, model : Models, levels : LevelSets])
    /\ Len(made) <= MaxRuns
    /\ measured \subseteq UNION LevelSets
    /\ left \in Seq(Files)
    /\ kills \in 0 .. MaxKills
    /\ files \in [Dirs -> [Files -> [state : {"absent", "torn", "whole"}, run : 0 .. Run]]]
    /\ dirty \subseteq Dirs
    /\ cpc \in {"idle", "meta_a", "rows_a", "meta_b", "rows_b", "check", "reported"}
    /\ kind \in Kinds
    /\ side \in [Sides -> [dir : Dirs, meta : 0 .. Run, rows : 0 .. Run,
                           levels : SUBSET UNION LevelSets]]
    /\ touched \in BOOLEAN

(* The main functions write all files of a directory or, when measuring fails,  *)
(* none: unless a script was killed or is writing, the files of a directory are *)
(* whole and of one run, so that REPORT.md, requests.csv, summary.csv and the   *)
(* plots tell of the run metadata.json describes.                               *)
ArtifactsOfOneRun ==
    \A d \in Dirs \ dirty :
        \/ \A f \in Files : files[d][f].state = "absent"
        \/ \A f \in Files :
              /\ files[d][f].state = "whole" <=>
                     (Tool[d] = "quality" => f \notin {"requests", "plots"})
              /\ files[d][f].state = "whole" => files[d][f].run = files[d]["metadata"].run

(* A comparison is reported only for measurements of the same workload, with    *)
(* the same model where the script asks for it, and at the same concurrency     *)
(* levels.  It reads the workload and the numbers from different files, so this *)
(* needs directories that were left whole and that nobody writes to meanwhile.  *)
ComparedAlike ==
    cpc = "reported" /\ ~touched =>
        LET x == made[side["a"].rows]
            y == made[side["b"].rows]
        IN /\ SameWorkload(kind, x, y)
           /\ kind # "quality" => x.workload = y.workload
           /\ x.levels = y.levels

(* What is asked of one case of hf_benchmark.py. *)
TokensUntilEos == HF!TokensUntilEos
ErrorsTell == HF!ErrorsTell
MeasuredOnce == HF!MeasuredOnce
=============================================================================
