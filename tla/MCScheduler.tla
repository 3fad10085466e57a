---------------------------- MODULE MCScheduler ----------------------------
(* Finite instances of Scheduler for TLC. *)
EXTENDS Scheduler, TLC

CONSTANTS r1, r2, r3, r4

(* A prompt of more than one chunk, one of exactly a block that the prefix    *)
(* cache may hold whole, a request for no tokens at all whose prompt takes    *)
(* two chunks, and one that decodes for several steps.                        *)
ChunkedPrompts == r1 :> 5 @@ r2 :> 2 @@ r3 :> 3 @@ r4 :> 2
ChunkedOutputs == r1 :> 2 @@ r2 :> 1 @@ r3 :> 0 @@ r4 :> 3
ChunkedPriorities == r1 :> 1 @@ r2 :> 1 @@ r3 :> 1 @@ r4 :> 0

(* Prompts are computed whole; that of r3 exceeds a budget of three tokens.   *)
WholePrompts == r1 :> 3 @@ r2 :> 2 @@ r3 :> 4 @@ r4 :> 1
WholeOutputs == r1 :> 2 @@ r2 :> 3 @@ r3 :> 1 @@ r4 :> 2
=============================================================================
