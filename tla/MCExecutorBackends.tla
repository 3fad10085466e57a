-------------------------- MODULE MCExecutorBackends --------------------------
(* A finite instance of ExecutorBackends for TLC. *)
EXTENDS ExecutorBackends, TLC

CONSTANTS r1, r2, r3

(* A prompt of one block, so it may be found whole, one that outgrows the    *)
(* optimization profile while it decodes, and one no step has the budget for, *)
(* unless its beginning is cached.                                            *)
MCPromptLength == r1 :> 1 @@ r2 :> 2 @@ r3 :> 3
MCMaxNewTokens == r1 :> 2 @@ r2 :> 2 @@ r3 :> 1
MCPriority == r1 :> 0 @@ r2 :> 0 @@ r3 :> 0
=============================================================================
