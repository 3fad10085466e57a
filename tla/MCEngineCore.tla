---------------------------- MODULE MCEngineCore ----------------------------
(* Finite instances of EngineCore for TLC. *)
EXTENDS EngineCore, TLC

CONSTANTS t1, t2, r1, r2, r3

(* With blocks of two tokens: a prompt that leaves its last block half empty, *)
(* one that it holds whole, and an unrelated one that competes for blocks.    *)
MCPrompt == r1 :> <<t1, t1, t2>> @@ r2 :> <<t1, t1>> @@ r3 :> <<t2>>
MCMaxNewTokens == r1 :> 3 @@ r2 :> 2 @@ r3 :> 3
MCPriority == r1 :> 1 @@ r2 :> 1 @@ r3 :> 0
=============================================================================
