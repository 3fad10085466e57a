------------------------------ MODULE KVCache ------------------------------
(***************************************************************************)
(* The paged KV cache of the engine: the physical block pool               *)
(* (BlockAllocator), the block table of every request (BlockManager), the  *)
(* prefix cache (PrefixCache) and the facade that composes the three       *)
(* (KVCacheManager).  One action per public operation of the facade; a     *)
(* call runs to completion before the next one starts, as it does in the   *)
(* single-threaded engine.                                                 *)
(***************************************************************************)
EXTENDS Integers, Sequences, FiniteSets, Functions

CONSTANTS
    Requests,             \* request identifiers
    Prompts,              \* the prompts a request may carry, token sequences
    Generated,            \* what a block holds when only decode wrote to it
    NumBlocks,            \* KVCacheManager(num_blocks)
    BlockSize,            \* KVCacheManager(block_size), tokens per block
    EnablePrefixSharing,  \* KVCacheManager(enable_prefix_sharing)
    MaxTokens             \* bound: tokens stored for one request

Blocks == 0 .. NumBlocks - 1

(* The first l tokens of a prompt, and every key a prompt may be filed under. *)
Prefix(p, l) == SubSeq(p, 1, l)
Keys == UNION {{Prefix(p, l) : l \in 1 .. Len(p)} : p \in Prompts}

ASSUME RequestsAssumption == IsFiniteSet(Requests)
ASSUME PromptsAssumption == Prompts \subseteq Seq(UNION {Range(p) : p \in Prompts})
ASSUME GeneratedAssumption == Generated \notin Keys
ASSUME NumBlocksAssumption == NumBlocks \in Nat
ASSUME BlockSizeAssumption == BlockSize \in Nat \ {0}
ASSUME SharingAssumption == EnablePrefixSharing \in BOOLEAN
ASSUME MaxTokensAssumption == MaxTokens \in Nat

VARIABLES
    free_list,      \* BlockAllocator._free_list, oldest freed block first
    state,          \* Block.state
    ref_count,      \* Block.ref_count
    token_num,      \* Block.token_num
    tabled,         \* the keys of BlockManager._tables
    tables,         \* the entries of each block table, <<>> when there is none
    cache,          \* PrefixCache._cache, <<>> for a key that is not cached
    cached_tokens,  \* KVCacheManager._cached_tokens_by_request
    live,           \* requests the scheduler holds blocks for since the last reset
    (* History: what the code does not record but promises about. *)
    content,        \* the prompt prefix whose KV state each block holds
    prompt_of,      \* the prompt of each live request
    stored,         \* tokens each live request has stored
    lapsed,         \* keys whose entry names a block freed since it was cached
    misled          \* an allocation since the last reset hit a lapsed entry

pool == <<free_list, state, ref_count, token_num>>
history == <<content, prompt_of, stored, lapsed, misled>>
vars == <<free_list, state, ref_count, token_num, tabled, tables, cache,
          cached_tokens, live, content, prompt_of, stored, lapsed, misled>>

-----------------------------------------------------------------------------
(* Arithmetic of blocks and lookups in the prefix cache. *)

(* math.ceil(n / block_size) *)
BlocksFor(n) == (n + BlockSize - 1) \div BlockSize

(* The length of the prefix of an n-token prompt that ends in its i-th block. *)
EndOfBlock(i, n) == IF i * BlockSize < n THEN i * BlockSize ELSE n

(* Tokens in the i-th of the blocks laid out for n tokens. *)
Fill(i, n) == EndOfBlock(i, n) - (i - 1) * BlockSize

(* The block-aligned lengths find_longest_prefix scans. *)
FaultyAlignedLengths(p) == 1 .. Len(p)   \* a prefix may end inside a block
AlignedLengths(p) == {l \in 1 .. Len(p) : l % BlockSize = 0}

Cached(k) == cache[k] # <<>>

(* "Verify blocks are still valid": no block of the entry is free. *)
FaultyValid(k) == TRUE   \* freed blocks are not looked for
Valid(k) == \A b \in Range(cache[k]) : state[b] # "free"

Hits(p) ==
    IF EnablePrefixSharing
    THEN {l \in AlignedLengths(p) : Cached(Prefix(p, l)) /\ Valid(Prefix(p, l))}
    ELSE {}

(* l is the length find_longest_prefix returns for p, 0 on a miss. *)
IsLongestHit(p, l) ==
    /\ l \in Hits(p) \cup {0}
    /\ \A m \in Hits(p) : m <= l

(* The blocks of the entry that was hit. *)
SharedBlocks(p, l) == IF l = 0 THEN <<>> ELSE cache[Prefix(p, l)]

(* The stale entries the scan deletes on its way down to length l. *)
FaultyDropped(p, l) ==   \* the entry that was hit is deleted as well
    {Prefix(p, m) : m \in {n \in AlignedLengths(p) : n >= l}}

Dropped(p, l) ==
    IF EnablePrefixSharing
    THEN {Prefix(p, m) : m \in {n \in AlignedLengths(p) : n > l}}
    ELSE {}

CacheAfterScan(p, l) ==
    [k \in Keys |-> IF k \in Dropped(p, l) THEN <<>> ELSE cache[k]]

(* The keys cache_prefix files p under: one per block, the last one clipped *)
(* to the end of the prompt.                                                *)
PrefixKeys(p) == {Prefix(p, EndOfBlock(i, Len(p))) : i \in 1 .. BlocksFor(Len(p))}

(* Keys cache_prefix fills after the scan stopped at l: those not present. *)
NewKeys(p, l) ==
    IF EnablePrefixSharing
    THEN {k \in PrefixKeys(p) : CacheAfterScan(p, l)[k] = <<>>}
    ELSE {}

CacheAfterAllocation(p, l, table) ==
    [k \in Keys |-> IF k \in NewKeys(p, l)
                    THEN SubSeq(table, 1, BlocksFor(Len(k)))
                    ELSE CacheAfterScan(p, l)[k]]

-----------------------------------------------------------------------------
(* The block pool. *)

(* The next n blocks of the free list, and what is left behind them. *)
NextFree(n) == SubSeq(free_list, 1, n)

FaultyRestOfFree(n) ==   \* the last block handed out stays on the list
    IF n = 0 THEN free_list ELSE SubSeq(free_list, n, Len(free_list))
RestOfFree(n) == SubSeq(free_list, n + 1, Len(free_list))

PositionOf(b, t) == CHOOSE i \in DOMAIN t : t[i] = b

(* Blocks only this request refers to: releasing its table frees them. *)
FaultySoleBlocks(r) == Range(tables[r])   \* released without counting references
StingySoleBlocks(r) ==   \* ref_count < 0 for ref_count <= 0
    {b \in Range(tables[r]) : state[b] = "allocated" /\ ref_count[b] < 1}
SoleBlocks(r) == {b \in Range(tables[r]) : state[b] = "allocated" /\ ref_count[b] <= 1}

(* The members of S in the order in which t lists them. *)
InOrderOf(t, S) ==
    {s \in [1 .. Cardinality(S) -> S] :
        /\ Range(s) = S
        /\ \A i, j \in DOMAIN s : i < j =>
               \E k, l \in DOMAIN t : k < l /\ t[k] = s[i] /\ t[l] = s[j]}

(* Block.has_space *)
HasSpace(b) == token_num[b] < BlockSize

(* Entries that name one of the blocks in S. *)
EntriesNaming(S) == {k \in Keys : Range(cache[k]) \cap S # {}}

-----------------------------------------------------------------------------
Init ==
    /\ free_list = [i \in 1 .. NumBlocks |-> i - 1]
    /\ state = [b \in Blocks |-> "free"]
    /\ ref_count = [b \in Blocks |-> 0]
    /\ token_num = [b \in Blocks |-> 0]
    /\ tabled = {}
    /\ tables = [r \in Requests |-> <<>>]
    /\ cache = [k \in Keys |-> <<>>]
    /\ cached_tokens = [r \in Requests |-> 0]
    /\ live = {}
    /\ content = [b \in Blocks |-> Generated]
    /\ prompt_of = [r \in Requests |-> <<>>]
    /\ stored = [r \in Requests |-> 0]
    /\ lapsed = {}
    /\ misled = FALSE

(* allocate_blocks with a hit of length l (0: no shared prefix): the blocks  *)
(* of the entry are shared, the rest of the prompt gets fresh blocks.        *)
AllocateBlocks(r, p, l) ==
    LET shared == SharedBlocks(p, l)
        need == BlocksFor(Len(p) - l)
        fresh == NextFree(need)
        table == shared \o fresh
    IN /\ r \notin live
       /\ Len(p) <= MaxTokens
       /\ IsLongestHit(p, l)
       /\ need <= Len(free_list)
       /\ free_list' = RestOfFree(need)
       /\ state' = [b \in Blocks |-> IF b \in Range(fresh) THEN "allocated" ELSE state[b]]
       /\ ref_count' = [b \in Blocks |-> IF b \in Range(fresh) THEN 1
                                         ELSE IF b \in Range(shared) THEN ref_count[b] + 1
                                         ELSE ref_count[b]]
       /\ token_num' = [b \in Blocks |->
              IF b \in Range(fresh) THEN Fill(PositionOf(b, fresh), Len(p) - l)
              ELSE token_num[b]]
       /\ tabled' = tabled \cup {r}
       /\ tables' = [tables EXCEPT ![r] = table]
       /\ cache' = CacheAfterAllocation(p, l, table)
       /\ cached_tokens' = [cached_tokens EXCEPT ![r] = l]
       /\ live' = live \cup {r}
       /\ content' = [b \in Blocks |->
              IF b \in Range(fresh)
              THEN Prefix(p, EndOfBlock(PositionOf(b, table), Len(p)))
              ELSE content[b]]
       /\ prompt_of' = [prompt_of EXCEPT ![r] = p]
       /\ stored' = [stored EXCEPT ![r] = Len(p)]
       /\ lapsed' = lapsed \ (Dropped(p, l) \cup NewKeys(p, l))
       /\ misled' = (misled \/ (l # 0 /\ Prefix(p, l) \in lapsed))

(* allocate_blocks when the pool cannot hold the rest of the prompt: None.   *)
(* With a shared prefix the table made for it is freed again.                *)
AllocateBlocksFails(r, p, l) ==
    /\ r \notin live
    /\ Len(p) <= MaxTokens
    /\ IsLongestHit(p, l)
    /\ BlocksFor(Len(p) - l) > Len(free_list)
    /\ tabled' = IF l = 0 THEN tabled ELSE tabled \ {r}
    /\ tables' = IF l = 0 THEN tables ELSE [tables EXCEPT ![r] = <<>>]
    /\ cache' = CacheAfterScan(p, l)
    /\ cached_tokens' = [cached_tokens EXCEPT ![r] = 0]
    /\ lapsed' = lapsed \ Dropped(p, l)
    /\ UNCHANGED <<pool, live, content, prompt_of, stored, misled>>

(* append_token when the last block of the table has a slot left. *)
AppendInPlace(r) ==
    /\ r \in live
    /\ stored[r] < MaxTokens
    /\ tables[r] # <<>>
    /\ LET last == tables[r][Len(tables[r])]
       IN /\ HasSpace(last)
          /\ token_num' = [token_num EXCEPT ![last] = @ + 1]
    /\ stored' = [stored EXCEPT ![r] = @ + 1]
    /\ UNCHANGED <<free_list, state, ref_count, tabled, tables, cache, cached_tokens,
                   live, content, prompt_of, lapsed, misled>>

FaultyLastBlockFull(r) == TRUE   \* a new block for every token
LastBlockFull(r) ==
    tables[r] = <<>> \/ ~HasSpace(tables[r][Len(tables[r])])

(* append_token when the last block is full: a new block is taken. *)
AppendInNewBlock(r) ==
    /\ r \in live
    /\ stored[r] < MaxTokens
    /\ LastBlockFull(r)
    /\ free_list # <<>>
    /\ LET b == Head(free_list)
       IN /\ state' = [state EXCEPT ![b] = "allocated"]
          /\ ref_count' = [ref_count EXCEPT ![b] = 1]
          /\ token_num' = [token_num EXCEPT ![b] = 1]
          /\ tables' = [tables EXCEPT ![r] = Append(@, b)]
          /\ content' = [content EXCEPT ![b] = Generated]
    /\ free_list' = Tail(free_list)
    /\ stored' = [stored EXCEPT ![r] = @ + 1]
    /\ UNCHANGED <<tabled, cache, cached_tokens, live, prompt_of, lapsed, misled>>

(* free_request: the table is popped and each of its blocks released; those   *)
(* nobody else refers to go to the end of the free list in table order.       *)
FreeRequest(r) ==
    LET freed == SoleBlocks(r)
    IN /\ r \in live
       /\ \E back \in InOrderOf(tables[r], freed) : free_list' = free_list \o back
       /\ state' = [b \in Blocks |-> IF b \in freed THEN "free" ELSE state[b]]
       /\ ref_count' = [b \in Blocks |->
              IF b \in freed THEN 0
              ELSE IF b \in Range(tables[r]) THEN ref_count[b] - 1
              ELSE ref_count[b]]
       /\ token_num' = [b \in Blocks |-> IF b \in freed THEN 0 ELSE token_num[b]]
       /\ tabled' = tabled \ {r}
       /\ tables' = [tables EXCEPT ![r] = <<>>]
       /\ cached_tokens' = [cached_tokens EXCEPT ![r] = 0]
       /\ live' = live \ {r}
       /\ prompt_of' = [prompt_of EXCEPT ![r] = <<>>]
       /\ stored' = [stored EXCEPT ![r] = 0]
       /\ lapsed' = lapsed \cup EntriesNaming(freed)
       /\ UNCHANGED <<cache, content, misled>>

(* reset: the pool, the prefix cache and the cached-token counts; the block   *)
(* tables stay.  The engine resets its scheduler with it: nobody is live.     *)
Reset ==
    /\ free_list' = [i \in 1 .. NumBlocks |-> i - 1]
    /\ state' = [b \in Blocks |-> "free"]
    /\ ref_count' = [b \in Blocks |-> 0]
    /\ token_num' = [b \in Blocks |-> 0]
    /\ cache' = [k \in Keys |-> <<>>]
    /\ cached_tokens' = [r \in Requests |-> 0]
    /\ live' = {}
    /\ content' = [b \in Blocks |-> Generated]
    /\ prompt_of' = [r \in Requests |-> <<>>]
    /\ stored' = [r \in Requests |-> 0]
    /\ lapsed' = {}
    /\ misled' = FALSE
    /\ UNCHANGED <<tabled, tables>>

Next ==
    \/ \E r \in Requests, p \in Prompts :
           \E l \in 0 .. Len(p) : AllocateBlocks(r, p, l) \/ AllocateBlocksFails(r, p, l)
    \/ \E r \in Requests : AppendInPlace(r) \/ AppendInNewBlock(r) \/ FreeRequest(r)
    \/ Reset

Spec == Init /\ [][Next]_vars

-----------------------------------------------------------------------------
(* Type correctness. *)

TypeOK ==
    /\ free_list \in Seq(Blocks)
    /\ state \in [Blocks -> {"free", "allocated"}]
    /\ ref_count \in [Blocks -> Nat]
    /\ token_num \in [Blocks -> 0 .. BlockSize]
    /\ tabled \subseteq Requests
    /\ tables \in [Requests -> Seq(Blocks)]
    /\ cache \in [Keys -> Seq(Blocks)]
    /\ cached_tokens \in [Requests -> Nat]
    /\ live \subseteq tabled
    /\ content \in [Blocks -> Keys \cup {Generated}]
    /\ prompt_of \in [Requests -> Prompts \cup {<<>>}]
    /\ stored \in [Requests -> Nat]
    /\ lapsed \subseteq Keys
    /\ misled \in BOOLEAN

(* Safety. *)

(* The requests whose block table names b. *)
Holders(b) == {r \in live : b \in Range(tables[r])}

(* BlockAllocator: the free list names exactly the blocks that are free, each *)
(* of them once, so no block is handed out twice and none is ever lost.       *)
FreeListExact ==
    /\ IsInjective(free_list)
    /\ \A b \in Blocks : b \in Range(free_list) <=> state[b] = "free"

(* Block.ref_count is the number of live block tables that name the block,    *)
(* and it is zero exactly when the block is free: sharing, failed             *)
(* allocations and releases in any order never leak or overdraw a reference.  *)
RefCountsMatchTables ==
    \A b \in Blocks :
        /\ ref_count[b] = Cardinality(Holders(b))
        /\ state[b] = "free" <=> ref_count[b] = 0

(* A block table names a block at most once, whatever mixture of cached and   *)
(* fresh blocks it was built from.                                            *)
TablesInjective == \A r \in live : IsInjective(tables[r])

(* An entry lists one block for every block its key spans, each once. *)
EntriesWellFormed ==
    \A k \in Keys : Cached(k) => Len(cache[k]) = BlocksFor(Len(k)) /\ IsInjective(cache[k])

(* The i-th block of k's entry holds the KV state of k up to its end. *)
Backed(k) ==
    \A i \in DOMAIN cache[k] :
        LET b == cache[k][i]
        IN state[b] = "allocated" /\ content[b] = Prefix(k, EndOfBlock(i, Len(k)))

TableSound(r) ==
    \A i \in 1 .. BlocksFor(Len(prompt_of[r])) :
        content[tables[r][i]] = Prefix(prompt_of[r], EndOfBlock(i, Len(prompt_of[r])))

(* KVCacheManager.allocate_blocks: as long as no lookup was answered by a     *)
(* lapsed entry, the blocks of every live request hold the KV state of its    *)
(* own prompt, shared or not, until the request is freed; and an entry of the *)
(* prefix cache none of whose blocks was freed names allocated blocks that    *)
(* hold that very prefix, so the check for free blocks is all it needs.       *)
TablesSound ==
    ~misled =>
        /\ \A r \in live : TableSound(r)
        /\ \A k \in Keys : Cached(k) /\ k \notin lapsed => Backed(k)

(* The same without the proviso: "Stale entries (freed blocks) are lazily     *)
(* removed", so a hit never hands out another prompt's blocks.                *)
StaleEntriesNeverShared == \A r \in live : TableSound(r)

(* Action properties. *)

(* PrefixCache: an entry whose blocks are all in use survives every operation *)
(* but reset, unchanged: lookups delete stale entries only, successful and    *)
(* failed allocations overwrite none.                                         *)
UsableEntriesSurvive ==
    [][Reset \/ \A k \in Keys : Cached(k) /\ Valid(k) => cache'[k] = cache[k]]_vars

(* Prefix sharing hands out full blocks only, so with no lapsed hit a token   *)
(* is never written into a block that two requests share.                     *)
SharedBlocksReadOnly ==
    [][Reset \/ \A b \in Blocks : ~misled /\ Cardinality(Holders(b)) > 1 =>
           token_num'[b] = token_num[b]]_vars

-----------------------------------------------------------------------------
(* Refinement: seen from the requests, a block belongs to the live tables     *)
(* that name it.                                                              *)
PoolHolders == [b \in Blocks |-> Holders(b)]
Pool == INSTANCE SharedBlockPool WITH holders <- PoolHolders

(* Every operation of the KV cache is an operation of the abstract pool, or   *)
(* leaves the holders alone: in particular a fresh block never belongs to     *)
(* another request, and a block found through the prefix cache always does.   *)
RefinesSharedBlockPool == Pool!Spec
=============================================================================
