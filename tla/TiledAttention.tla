---------------------------- MODULE TiledAttention ----------------------------
(***************************************************************************)
(* Attention by tiles with an online softmax: FlashAttentionCPU.forward    *)
(* (tiles of queries outside, tiles of keys inside) and                    *)
(* flash_attention_simulated (tiles of keys outside, queries one by one),  *)
(* against the softmax over all keys of StandardAttention.                 *)
(*                                                                         *)
(* A score is a small integer, or NegInf where the mask hides the key.     *)
(* exp is replaced by powers of a whole number: what the algorithm needs   *)
(* of it is that sums become products.  Sums of exponentials are counted   *)
(* in units of the least one, so that no step rounds.  The output is       *)
(* linear in the values V and is represented by its coefficients.          *)
(***************************************************************************)
EXTENDS Integers, FiniteSetsExt, Functions

CONSTANTS
    SeqK,         \* number of keys
    MaxSeqQ,      \* FlashAttentionCPU: most queries, at least one
    MaxScore,     \* scores are 0 .. MaxScore
    BlockSizes,   \* values of block_size
    Pow,          \* exp: the powers of its base up to that of MaxScore
    NegInf,       \* -inf
    NaN           \* nan

ASSUME SizesAssumption == SeqK \in Nat \ {0} /\ MaxSeqQ \in Nat \ {0} /\ MaxScore \in Nat
ASSUME BlockSizesAssumption == BlockSizes \subseteq Nat \ {0}
ASSUME PowAssumption ==
    /\ Pow \in [0 .. MaxScore -> Nat \ {0}]
    /\ Pow[0] = 1
    /\ \A a, b \in 0 .. MaxScore : a + b <= MaxScore => Pow[a + b] = Pow[a] * Pow[b]
ASSUME SpecialsAssumption ==   \* nan is no number and no row of them
    NegInf \notin Int /\ NaN \notin Int /\ NaN \notin [0 .. SeqK - 1 -> Nat]

VARIABLES
    kernel,       \* which of the two runs
    block_size,
    scores,       \* the scaled and masked products of the queries and the keys
    row,          \* q_start, or i
    key,          \* k_start, or block_start
    m,            \* running maximum of each row
    l,            \* running sum of exponentials of each row
    output,       \* coefficients of the values in each row, not normalised
    done          \* the loops are over

tile_vars == <<kernel, block_size, scores, row, key, m, l, output, done>>

Kernels == {"FlashAttentionCPU", "flash_attention_simulated"}
Keys == 0 .. SeqK - 1
Queries == DOMAIN scores
SeqQ == Cardinality(Queries)

Smaller(a, b) == IF a <= b THEN a ELSE b

(* exp(-d) for d in 0 .. MaxScore, and x * exp(-d). *)
Exp(d) == Pow[MaxScore - d]
Scaled(x, d) == x \div Pow[d]

-----------------------------------------------------------------------------
(* StandardAttention.forward and naive_attention: the softmax of a row. *)
Unmasked(i, keys) == {j \in keys : scores[i][j] # NegInf}
RowMax(i, keys) ==
    IF Unmasked(i, keys) = {} THEN NegInf
    ELSE Max({scores[i][j] : j \in Unmasked(i, keys)})
ExpTo(i, keys, top) ==
    [j \in Keys |-> IF j \in Unmasked(i, keys) THEN Exp(top - scores[i][j]) ELSE 0]
Total(f) == SumFunctionOnSet(f, Keys)

Weights(i) == ExpTo(i, Keys, RowMax(i, Keys))

-----------------------------------------------------------------------------
(* A masked score comes with FlashAttentionCPU only; the other kernel has no *)
(* mask and as many queries as keys.                                         *)
Scores(k) ==
    IF k = "FlashAttentionCPU"
    THEN UNION {[0 .. n - 1 -> [Keys -> (0 .. MaxScore) \cup {NegInf}]] : n \in 1 .. MaxSeqQ}
    ELSE [Keys -> [Keys -> 0 .. MaxScore]]

TilesInit ==
    /\ kernel \in Kernels
    /\ block_size \in BlockSizes
    /\ scores \in Scores(kernel)
    /\ row = 0
    /\ key = 0
    /\ m = [i \in Queries |-> NegInf]
    /\ l = [i \in Queries |-> 0]
    /\ output = [i \in Queries |-> [j \in Keys |-> 0]]
    /\ done = FALSE

(* The tile: the keys of the block, and the queries that see them together. *)
FaultyBlockKeys == key .. Smaller(key + block_size - 2, SeqK - 1)
BlockKeys == key .. Smaller(key + block_size - 1, SeqK - 1)
TileRows ==
    IF kernel = "FlashAttentionCPU" THEN row .. Smaller(row + block_size - 1, SeqQ - 1)
    ELSE {row}

(* The softmax of the tile merged into that of the keys before.  With no key *)
(* to attend to tile_max is -inf, tile_qk - tile_max is nan, and nan stays.  *)
NewMax(i) ==
    IF Unmasked(i, BlockKeys) = {} THEN m[i]
    ELSE IF m[i] = NegInf THEN RowMax(i, BlockKeys)
    ELSE Max({m[i], RowMax(i, BlockKeys)})

(* old_scale is 0 as long as the running maximum is -inf. *)
Rescaled(i, x) == IF m[i] = NegInf THEN 0 ELSE Scaled(x, NewMax(i) - m[i])

Spoiled(i) == l[i] = NaN \/ Unmasked(i, BlockKeys) = {}

NewSum(i) ==
    IF Spoiled(i) THEN NaN
    ELSE LET top == RowMax(i, BlockKeys)
         IN Rescaled(i, l[i]) + Scaled(Total(ExpTo(i, BlockKeys, top)), NewMax(i) - top)

NewOutput(i) ==
    IF Spoiled(i) THEN NaN
    ELSE LET top == RowMax(i, BlockKeys)
         IN [j \in Keys |->
                Rescaled(i, output[i][j])
                    + Scaled(ExpTo(i, BlockKeys, top)[j], NewMax(i) - top)]

(* Where the two nested loops go next. *)
NextRow == row + (IF kernel = "FlashAttentionCPU" THEN block_size ELSE 1)
NextKey == key + block_size

Advance ==
    IF kernel = "FlashAttentionCPU"
    THEN IF NextKey < SeqK THEN key' = NextKey /\ UNCHANGED <<row, done>>
         ELSE row' = NextRow /\ key' = 0 /\ done' = (NextRow >= SeqQ)
    ELSE IF NextRow < SeqQ THEN row' = NextRow /\ UNCHANGED <<key, done>>
         ELSE row' = 0 /\ key' = NextKey /\ done' = (NextKey >= SeqK)

Tile ==
    /\ ~done
    /\ m' = [i \in Queries |-> IF i \in TileRows THEN NewMax(i) ELSE m[i]]
    /\ l' = [i \in Queries |-> IF i \in TileRows THEN NewSum(i) ELSE l[i]]
    /\ output' = [i \in Queries |-> IF i \in TileRows THEN NewOutput(i) ELSE output[i]]
    /\ Advance
    /\ UNCHANGED <<kernel, block_size, scores>>

(* Both kernels end by dividing each row by its sum, unless it is not positive. *)
SafeSum(i) == IF l[i] # NaN /\ l[i] > 0 THEN l[i] ELSE 1

TilesSpec == TilesInit /\ [][Tile]_tile_vars

-----------------------------------------------------------------------------
(* The tiles of a row's keys in which the mask leaves nothing. *)
TileOf(j) == {k \in Keys : k \div block_size = j \div block_size}
HasEmptyTile(i) == \E j \in Keys : Unmasked(i, TileOf(j)) = {}

(* The keys of row i that the tiles so far have covered. *)
Merged(i) ==
    IF done THEN Keys
    ELSE IF kernel = "FlashAttentionCPU"
         THEN IF i < row THEN Keys ELSE IF i \in TileRows THEN 0 .. key - 1 ELSE {}
         ELSE IF i < row THEN 0 .. Smaller(NextKey, SeqK) - 1 ELSE 0 .. key - 1

(* Between any two tiles the maximum, the sum and the output of a row are     *)
(* those of one softmax over the keys covered so far.                         *)
SoftmaxOf(i, K) ==
    /\ m[i] = RowMax(i, K)
    /\ output[i] = ExpTo(i, K, m[i])
    /\ l[i] = Total(output[i])

(* "Use online softmax to merge results across K tiles", "Verify that          *)
(* FlashAttention matches StandardAttention": in either order of the loops and *)
(* whatever the tile size, also one that does not divide the number of keys or *)
(* exceeds it, every prefix of the tiles gives the softmax of its keys, no      *)
(* matter how the maximum moved on the way, and the normalised output at the    *)
(* end is that of the row.  A row is nan exactly when a whole tile of it is     *)
(* masked.                                                                      *)
MatchesStandard ==
    /\ \A i \in Queries : l[i] # NaN => SoftmaxOf(i, Merged(i))
    /\ done => \A i \in Queries :
           /\ HasEmptyTile(i) <=> output[i] = NaN
           /\ ~HasEmptyTile(i) =>
                  \A j \in Keys :
                      output[i][j] * Total(Weights(i)) = Weights(i)[j] * SafeSum(i)
=============================================================================
