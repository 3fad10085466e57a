--------------------------- MODULE MCTiledAttention ---------------------------
(* TiledAttention for TLC, with two as the base of the exponentials. *)
EXTENDS TiledAttention

PowersOfTwo == [d \in 0 .. MaxScore |-> 2 ^ d]
=============================================================================
