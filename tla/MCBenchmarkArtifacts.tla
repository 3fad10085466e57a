------------------------- MODULE MCBenchmarkArtifacts -------------------------
(* A finite instance of BenchmarkArtifacts for TLC. *)
EXTENDS BenchmarkArtifacts, TLC

CONSTANTS hf_dir, gpu_dir, quality_dir, w1, w2, m1, m2

(* Which workload and which model it is does not matter. *)
Symmetry == Permutations(Workloads) \cup Permutations(Models)

Tools == hf_dir :> "hf" @@ gpu_dir :> "gpu" @@ quality_dir :> "quality"

(* One level each. *)
Levels == {{1}, {2}}
=============================================================================
