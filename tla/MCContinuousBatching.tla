------------------------- MODULE MCContinuousBatching -------------------------
(* A finite instance of ContinuousBatching for TLC. *)
EXTENDS ContinuousBatching, TLC

CONSTANTS r1, r2, r3, r4

(* Two requests arrive together while the first one may still run; the last  *)
(* comes later and, unless its prefix is cached, is too large for a step.    *)
(* r3 wants no token.                                                        *)
Prompts == r1 :> 1 @@ r2 :> 2 @@ r3 :> 1 @@ r4 :> 4
Outputs == r1 :> 2 @@ r2 :> 2 @@ r3 :> 0 @@ r4 :> 2
Priorities == r1 :> 0 @@ r2 :> 0 @@ r3 :> 0 @@ r4 :> 0
Arrivals == r1 :> 0 @@ r2 :> 2 @@ r3 :> 2 @@ r4 :> 3
=============================================================================
