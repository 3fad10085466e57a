-------------------------- MODULE MCProfilingSession --------------------------
(* A finite instance of ProfilingSession for TLC. *)
EXTENDS ProfilingSession, TLC

CONSTANTS bf16, awq_int4, bf16_path, awq_path

Models == bf16 :> bf16_path @@ awq_int4 :> awq_path
=============================================================================
