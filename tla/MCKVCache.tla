----------------------------- MODULE MCKVCache -----------------------------
(* Finite instances of KVCache for TLC. *)
EXTENDS KVCache, TLC

CONSTANTS t1, t2

(* With blocks of two tokens: one block filled by the prompt, a prompt that   *)
(* extends it past a block boundary, and an unrelated prompt that recycles    *)
(* blocks and leaves one partly filled.                                       *)
MCPrompts == {<<t1, t1>>, <<t1, t1, t2>>, <<t2>>}

Symmetry == Permutations(Requests)
=============================================================================
