--------------------------- MODULE KVCacheProofs ---------------------------
(***************************************************************************)
(* Proofs about KVCache for every pool size, block size, set of requests   *)
(* and set of prompts: the accounting of blocks is exact, the cache        *)
(* implements the abstract pool, and sharing a prefix never gives a        *)
(* request the KV state of another prompt, as long as no lookup is         *)
(* answered by an entry whose blocks were freed since it was cached.       *)
(***************************************************************************)
EXTENDS KVCache, CollectionLemmas

-----------------------------------------------------------------------------
(* Positions and sub-lists. *)

LEMMA PositionFacts ==
    ASSUME NEW S, NEW s \in Seq(S), NEW x \in Range(s)
    PROVE  PositionOf(x, s) \in 1 .. Len(s) /\ s[PositionOf(x, s)] = x
<1>1. \E i \in DOMAIN s : s[i] = x
  BY RangeMembers, LenProperties
<1> QED BY <1>1, LenProperties DEF PositionOf

-----------------------------------------------------------------------------
(* Block arithmetic. *)

(* Rounding up: BlocksFor(n) blocks hold n tokens, one block less does not,   *)
(* and that determines BlocksFor(n).                                          *)
LEMMA BlocksForBounds ==
    ASSUME NEW n \in Nat
    PROVE  /\ BlocksFor(n) \in Nat
           /\ n = 0 => BlocksFor(n) = 0
           /\ (BlocksFor(n) - 1) * BlockSize < n
           /\ n <= BlocksFor(n) * BlockSize
<1> DEFINE m == n + BlockSize - 1
           q == m \div BlockSize
<1>1. m \in Nat /\ BlockSize \in Nat /\ BlockSize > 0
  BY BlockSizeAssumption
<1>2. q \in Nat
  BY <1>1
<1>3. q * BlockSize <= m /\ m < q * BlockSize + BlockSize
  BY <1>1, <1>2
<1>4. m < BlockSize => q = 0
  BY <1>1
<1>5. (q - 1) * BlockSize = q * BlockSize - BlockSize
  BY <1>1, <1>2
<1> QED BY <1>1, <1>2, <1>3, <1>4, <1>5 DEF BlocksFor

LEMMA BlocksForUnique ==
    ASSUME NEW n \in Nat, NEW q \in Nat,
           (q - 1) * BlockSize < n, n <= q * BlockSize
    PROVE  BlocksFor(n) = q
<1> DEFINE c == BlocksFor(n)
<1>1. /\ BlockSize \in Nat /\ BlockSize > 0 /\ c \in Nat
      /\ (c - 1) * BlockSize < n /\ n <= c * BlockSize
  BY BlocksForBounds, BlockSizeAssumption
<1> HIDE DEF c
<1>2. ASSUME NEW x \in Nat, NEW y \in Nat, x < y
      PROVE  x * BlockSize <= (y - 1) * BlockSize
  <2>1. y - 1 - x \in Nat /\ y - 1 = x + (y - 1 - x)
    BY <1>2
  <2>2. (y - 1) * BlockSize = x * BlockSize + (y - 1 - x) * BlockSize
    BY <1>1, <2>1
  <2>3. (y - 1 - x) * BlockSize \in Nat /\ x * BlockSize \in Nat
    BY <1>1, <2>1
  <2> QED BY <2>2, <2>3
<1>3. ~(c < q)
  BY <1>1, <1>2
<1>4. ~(q < c)
  BY <1>1, <1>2
<1> QED BY <1>1, <1>3, <1>4 DEF c

(* Whatever more than fills q blocks needs another one. *)
LEMMA BlocksForMore ==
    ASSUME NEW n \in Nat, NEW q \in Nat, q * BlockSize < n
    PROVE  q < BlocksFor(n)
<1> DEFINE c == BlocksFor(n)
<1>1. BlockSize \in Nat /\ c \in Nat /\ n <= c * BlockSize
  BY BlocksForBounds, BlockSizeAssumption
<1> HIDE DEF c
<1>2. ASSUME c <= q PROVE c * BlockSize <= q * BlockSize
  <2>1. q - c \in Nat /\ q = c + (q - c)
    BY <1>1, <1>2
  <2>2. q * BlockSize = c * BlockSize + (q - c) * BlockSize
    BY <1>1, <2>1
  <2>3. (q - c) * BlockSize \in Nat /\ c * BlockSize \in Nat
    BY <1>1, <2>1
  <2> QED BY <2>2, <2>3
<1>3. c * BlockSize \in Nat /\ q * BlockSize \in Nat
  BY <1>1
<1>4. q < c
  BY <1>1, <1>2, <1>3
<1> QED BY <1>4 DEF c

LEMMA BlocksForMonotone ==
    ASSUME NEW m \in Nat, NEW n \in Nat, m <= n
    PROVE  BlocksFor(m) <= BlocksFor(n)
<1>1. /\ BlocksFor(m) \in Nat /\ BlocksFor(n) \in Nat
      /\ (BlocksFor(m) - 1) * BlockSize < m
  BY BlocksForBounds
<1>2. CASE BlocksFor(m) = 0
  BY <1>1, <1>2
<1>3. CASE BlocksFor(m) # 0
  <2> DEFINE q == BlocksFor(m) - 1
  <2>1. q \in Nat /\ q * BlockSize < m
    BY <1>1, <1>3
  <2>2. q * BlockSize \in Nat
    BY <2>1, BlockSizeAssumption
  <2>3. q < BlocksFor(n)
    <3> HIDE DEF q
    <3> QED BY <2>1, <2>2, BlocksForMore
  <2> QED BY <1>1, <2>3
<1> QED BY <1>2, <1>3

(* A layout cut at a block boundary: the parts need the blocks of the whole.  *)
LEMMA BlocksForSplit ==
    ASSUME NEW n \in Nat, NEW l \in 0 .. n, l % BlockSize = 0
    PROVE  BlocksFor(l) + BlocksFor(n - l) = BlocksFor(n)
<1> DEFINE k == l \div BlockSize
           q == BlocksFor(n - l)
<1>1. BlockSize \in Nat /\ BlockSize > 0 /\ l \in Nat /\ n - l \in Nat
  BY BlockSizeAssumption
<1>2. k \in Nat /\ l = k * BlockSize
  BY <1>1
<1>3. q \in Nat /\ (q - 1) * BlockSize < n - l /\ n - l <= q * BlockSize
  BY <1>1, BlocksForBounds
<1> HIDE DEF k, q
<1>4. BlocksFor(l) = k
  <2>1. (k - 1) * BlockSize < l
    BY <1>1, <1>2
  <2> QED BY <1>1, <1>2, <2>1, BlocksForUnique
<1>5. BlocksFor(n) = k + q
  <2>1. /\ (k + q) * BlockSize = k * BlockSize + q * BlockSize
        /\ (k + q - 1) * BlockSize = k * BlockSize + (q - 1) * BlockSize
    BY <1>1, <1>2, <1>3
  <2>2. (k + q - 1) * BlockSize < n /\ n <= (k + q) * BlockSize
    BY <1>1, <1>2, <1>3, <2>1
  <2> QED BY <1>2, <1>3, <2>2, BlocksForUnique
<1> QED BY <1>4, <1>5 DEF q

(* Every block of an n-token layout but the last is full, and the last one is *)
(* not empty.                                                                 *)
LEMMA FillBounds ==
    ASSUME NEW n \in Nat, NEW i \in 1 .. BlocksFor(n)
    PROVE  /\ Fill(i, n) \in 0 .. BlockSize
           /\ EndOfBlock(i, n) \in 1 .. n
           /\ BlocksFor(EndOfBlock(i, n)) = i
<1>1. /\ BlockSize \in Nat /\ BlockSize > 0 /\ BlocksFor(n) \in Nat /\ n > 0
      /\ (BlocksFor(n) - 1) * BlockSize < n
  BY BlocksForBounds, BlockSizeAssumption
<1>2. (i - 1) * BlockSize <= (BlocksFor(n) - 1) * BlockSize
  <2>1. BlocksFor(n) - 1 = (i - 1) + (BlocksFor(n) - i) /\ BlocksFor(n) - i \in Nat
    BY <1>1
  <2>2. (BlocksFor(n) - 1) * BlockSize = (i - 1) * BlockSize + (BlocksFor(n) - i) * BlockSize
    BY <1>1, <2>1
  <2>3. (BlocksFor(n) - i) * BlockSize \in Nat
    BY <1>1, <2>1
  <2> QED BY <1>1, <2>2, <2>3
<1>3. i * BlockSize = (i - 1) * BlockSize + BlockSize /\ (i - 1) * BlockSize \in Nat
  BY <1>1
<1>4. Fill(i, n) \in 0 .. BlockSize /\ EndOfBlock(i, n) \in 1 .. n
  BY <1>1, <1>2, <1>3 DEF Fill, EndOfBlock
<1>5. (i - 1) * BlockSize < EndOfBlock(i, n) /\ EndOfBlock(i, n) <= i * BlockSize
  BY <1>1, <1>2, <1>3 DEF EndOfBlock
<1> QED BY <1>4, <1>5, BlocksForUnique

-----------------------------------------------------------------------------
(* Prompts and keys. *)

LEMMA PromptFacts ==
    ASSUME NEW p \in Prompts
    PROVE  /\ \E S : p \in Seq(S)
           /\ Len(p) \in Nat
           /\ \A l \in 1 .. Len(p) : Prefix(p, l) \in Keys
<1> DEFINE S == UNION {Range(q) : q \in Prompts}
<1>1. p \in Seq(S)
  BY PromptsAssumption
<1>2. Len(p) \in Nat
  BY <1>1, LenProperties
<1>3. \A l \in 1 .. Len(p) : Prefix(p, l) \in Keys
  BY DEF Keys
<1> QED BY <1>1, <1>2, <1>3

LEMMA PrefixFacts ==
    ASSUME NEW p \in Prompts, NEW l \in 0 .. Len(p)
    PROVE  Len(Prefix(p, l)) = l
<1>1. PICK S : p \in Seq(S)
  BY PromptFacts
<1>2. \A i \in 1 .. l : p[i] \in S
  BY <1>1, ElementOfSeq
<1>3. 1 \in Int /\ l \in Int
  BY PromptFacts
<1>4. Len(SubSeq(p, 1, l)) = IF 1 <= l THEN l - 1 + 1 ELSE 0
  BY ONLY <1>2, <1>3, SubSeqProperties
<1> QED BY <1>4, PromptFacts DEF Prefix

-----------------------------------------------------------------------------
(* The inductive invariant.  The accounting of references needs the tables to *)
(* be free of repetitions; a table built on a cache entry is, because entries *)
(* are; and cutting an entry out of a table needs its length.                 *)
IInv ==
    /\ TypeOK
    /\ FreeListExact
    /\ RefCountsMatchTables
    /\ TablesInjective
    /\ EntriesWellFormed

(* What allocate_blocks builds a table from when the lookup returned l: the   *)
(* entry's blocks, all in use, and fresh ones, all free until now.            *)
LEMMA AllocationFacts ==
    ASSUME IInv, NEW p \in Prompts, NEW l \in 0 .. Len(p), IsLongestHit(p, l),
           BlocksFor(Len(p) - l) <= Len(free_list)
    PROVE  LET shared == SharedBlocks(p, l)
               need == BlocksFor(Len(p) - l)
               fresh == NextFree(need)
               table == shared \o fresh
           IN /\ need \in Nat
              /\ shared \in Seq(Blocks) /\ fresh \in Seq(Blocks) /\ table \in Seq(Blocks)
              /\ Len(fresh) = need
              /\ Len(table) = BlocksFor(Len(p))
              /\ IsInjective(table)
              /\ Range(table) = Range(shared) \cup Range(fresh)
              /\ \A b \in Range(shared) : b \in Blocks /\ state[b] = "allocated"
              /\ \A b \in Range(fresh) : b \in Blocks /\ state[b] = "free"
              /\ RestOfFree(need) \in Seq(Blocks)
              /\ IsInjective(RestOfFree(need))
              /\ Range(RestOfFree(need)) = Range(free_list) \ Range(fresh)
<1> DEFINE shared == SharedBlocks(p, l)
           need == BlocksFor(Len(p) - l)
           fresh == NextFree(need)
<1>1. Len(p) \in Nat /\ l \in Nat /\ Len(p) - l \in Nat /\ need \in Nat
  BY PromptFacts, BlocksForBounds
<1>2. /\ shared \in Seq(Blocks) /\ IsInjective(shared) /\ Len(shared) = BlocksFor(l)
      /\ \A b \in Range(shared) : b \in Blocks /\ state[b] = "allocated"
  <2>1. CASE l = 0
    <3>1. shared = <<>> /\ BlocksFor(l) = 0
      BY <2>1, BlocksForBounds DEF SharedBlocks
    <3>2. <<>> \in Seq(Blocks) /\ Len(<<>>) = 0 /\ \A i \in 1 .. Len(<<>>) : FALSE
      OBVIOUS
    <3>3. IsInjective(<<>>)
      BY <3>2, InjectiveMembers
    <3>4. Range(<<>>) = {}
      BY DEF Range
    <3> QED BY <3>1, <3>2, <3>3, <3>4
  <2>2. CASE l # 0
    <3> DEFINE k == Prefix(p, l)
    <3>1. k \in Keys /\ Len(k) = l /\ shared = cache[k]
      BY <1>1, <2>2, PromptFacts, PrefixFacts DEF SharedBlocks
    <3>2. Cached(k) /\ Valid(k)
      BY <2>2 DEF IsLongestHit, Hits
    <3>3. cache[k] \in Seq(Blocks) /\ Range(cache[k]) \subseteq Blocks
      BY <3>1, RangeMembers DEF IInv, TypeOK
    <3>4. Len(cache[k]) = BlocksFor(Len(k)) /\ IsInjective(cache[k])
      BY <3>1, <3>2 DEF IInv, EntriesWellFormed
    <3>5. \A b \in Range(cache[k]) : b \in Blocks /\ state[b] = "allocated"
      BY <3>2, <3>3 DEF Valid, IInv, TypeOK
    <3> QED BY <3>1, <3>3, <3>4, <3>5
  <2> QED BY <2>1, <2>2
<1>3. /\ fresh \in Seq(Blocks) /\ IsInjective(fresh) /\ Len(fresh) = need
      /\ RestOfFree(need) \in Seq(Blocks) /\ IsInjective(RestOfFree(need))
      /\ Range(fresh) \cap Range(RestOfFree(need)) = {}
      /\ Range(fresh) \cup Range(RestOfFree(need)) = Range(free_list)
  <2>1. free_list \in Seq(Blocks) /\ IsInjective(free_list) /\ need \in 0 .. Len(free_list)
    BY <1>1, LenProperties DEF IInv, TypeOK, FreeListExact
  <2> QED BY <2>1, CutInjective DEF NextFree, RestOfFree
<1>4. \A b \in Range(fresh) : b \in Blocks /\ state[b] = "free"
  BY <1>3, RangeMembers DEF IInv, FreeListExact
<1>5. Range(shared) \cap Range(fresh) = {}
  BY <1>2, <1>4
<1>6. /\ shared \o fresh \in Seq(Blocks)
      /\ IsInjective(shared \o fresh)
      /\ Range(shared \o fresh) = Range(shared) \cup Range(fresh)
  BY <1>2, <1>3, <1>5, JoinInjective
<1>7. Len(shared \o fresh) = BlocksFor(Len(p))
  <2>1. Len(shared \o fresh) = Len(shared) + Len(fresh)
    BY <1>2, <1>3, ConcatProperties
  <2>2. l % BlockSize = 0
    <3>1. CASE l = 0
      BY <3>1, BlockSizeAssumption
    <3>2. CASE l # 0
      BY <3>2 DEF IsLongestHit, Hits, AlignedLengths
    <3> QED BY <3>1, <3>2
  <2>3. BlocksFor(l) + BlocksFor(Len(p) - l) = BlocksFor(Len(p))
    BY <1>1, <2>2, BlocksForSplit
  <2> QED BY <1>2, <1>3, <2>1, <2>3
<1> HIDE DEF shared, need, fresh
<1>8. Range(RestOfFree(need)) = Range(free_list) \ Range(fresh)
  BY <1>3
<1> QED BY <1>1, <1>2, <1>3, <1>4, <1>6, <1>7, <1>8 DEF shared, need, fresh

WellFormed(c) ==
    /\ c \in [Keys -> Seq(Blocks)]
    /\ \A k \in Keys : c[k] # <<>> =>
           Len(c[k]) = BlocksFor(Len(k)) /\ IsInjective(c[k])

(* The scan deletes whole entries, and the filing of a prompt writes entries  *)
(* cut from its table: both keep the entries well formed.                     *)
LEMMA CacheStaysWellFormed ==
    ASSUME IInv, NEW p \in Prompts, NEW l,
           NEW table \in Seq(Blocks), IsInjective(table), Len(table) = BlocksFor(Len(p))
    PROVE  /\ WellFormed(CacheAfterScan(p, l))
           /\ WellFormed(CacheAfterAllocation(p, l, table))
<1> USE DEF WellFormed
<1>1. WellFormed(CacheAfterScan(p, l))
  <2>1. cache \in [Keys -> Seq(Blocks)] /\ <<>> \in Seq(Blocks)
    BY DEF IInv, TypeOK
  <2> QED BY <2>1 DEF CacheAfterScan, IInv, EntriesWellFormed, Cached
<1>2. ASSUME NEW k \in NewKeys(p, l)
      PROVE  LET e == SubSeq(table, 1, BlocksFor(Len(k)))
             IN e \in Seq(Blocks) /\ Len(e) = BlocksFor(Len(k)) /\ IsInjective(e)
  <2>1. PICK i \in 1 .. BlocksFor(Len(p)) : k = Prefix(p, EndOfBlock(i, Len(p)))
    BY <1>2 DEF NewKeys, PrefixKeys
  <2>2. EndOfBlock(i, Len(p)) \in 1 .. Len(p) /\ BlocksFor(EndOfBlock(i, Len(p))) = i
    BY PromptFacts, FillBounds
  <2>3. BlocksFor(Len(k)) = i /\ i \in 0 .. Len(table)
    BY <2>1, <2>2, PromptFacts, PrefixFacts, BlocksForBounds
  <2> QED BY <2>3, CutInjective
<1>3. WellFormed(CacheAfterAllocation(p, l, table))
  BY <1>1, <1>2 DEF CacheAfterAllocation
<1> QED BY <1>1, <1>3

LEMMA HoldersFinite ==
    ASSUME TypeOK, NEW b
    PROVE  IsFiniteSet(Holders(b)) /\ Cardinality(Holders(b)) \in Nat
<1>1. live \subseteq Requests
  BY DEF TypeOK
<1>2. IsFiniteSet(Holders(b))
  BY <1>1, RequestsAssumption, FS_Subset DEF Holders
<1> QED BY <1>2, FS_CardinalityType

-----------------------------------------------------------------------------
(* The invariant holds at the start and every operation keeps it. *)

LEMMA FullFreeList ==
    LET full == [i \in 1 .. NumBlocks |-> i - 1]
    IN full \in Seq(Blocks) /\ IsInjective(full) /\ Range(full) = Blocks
<1> DEFINE full == [i \in 1 .. NumBlocks |-> i - 1]
<1>1. /\ full \in Seq(Blocks) /\ Len(full) = NumBlocks
      /\ \A i \in 1 .. NumBlocks : full[i] = i - 1
  BY NumBlocksAssumption DEF Blocks
<1> HIDE DEF full
<1>2. IsInjective(full)
  BY <1>1, NumBlocksAssumption, InjectiveMembers
<1>3. ASSUME NEW b \in Blocks PROVE b \in Range(full)
  <2>1. b + 1 \in 1 .. Len(full) /\ full[b + 1] = b
    BY <1>1, NumBlocksAssumption DEF Blocks
  <2> QED BY <1>1, <2>1, RangeMembers
<1>4. Range(full) \subseteq Blocks
  BY <1>1, RangeMembers
<1> QED BY <1>1, <1>2, <1>3, <1>4 DEF full

LEMMA InitIInv == Init => IInv
<1> SUFFICES ASSUME Init PROVE IInv
  OBVIOUS
<1>1. /\ free_list \in Seq(Blocks) /\ IsInjective(free_list)
      /\ Range(free_list) = Blocks
  BY FullFreeList DEF Init
<1>2. TypeOK
  <2>1. 0 \in 0 .. BlockSize /\ <<>> \in Seq(Blocks)
    BY BlockSizeAssumption
  <2> QED BY <1>1, <2>1 DEF Init, TypeOK
<1>3. FreeListExact
  BY <1>1 DEF FreeListExact, Init
<1>4. RefCountsMatchTables
  BY FS_EmptySet DEF RefCountsMatchTables, Holders, Init
<1>5. TablesInjective /\ EntriesWellFormed
  BY DEF TablesInjective, EntriesWellFormed, Cached, Init
<1> QED BY <1>2, <1>3, <1>4, <1>5 DEF IInv

LEMMA AllocateBlocksIInv ==
    ASSUME IInv, NEW r \in Requests, NEW p \in Prompts, NEW l \in 0 .. Len(p),
           AllocateBlocks(r, p, l)
    PROVE  IInv'
<1> DEFINE shared == SharedBlocks(p, l)
           need == BlocksFor(Len(p) - l)
           fresh == NextFree(need)
           table == shared \o fresh
<1>1. /\ need \in Nat
      /\ shared \in Seq(Blocks) /\ fresh \in Seq(Blocks) /\ table \in Seq(Blocks)
      /\ Len(fresh) = need
      /\ Len(table) = BlocksFor(Len(p))
      /\ IsInjective(table)
      /\ Range(table) = Range(shared) \cup Range(fresh)
      /\ \A b \in Range(shared) : b \in Blocks /\ state[b] = "allocated"
      /\ \A b \in Range(fresh) : b \in Blocks /\ state[b] = "free"
      /\ RestOfFree(need) \in Seq(Blocks)
      /\ IsInjective(RestOfFree(need))
      /\ Range(RestOfFree(need)) = Range(free_list) \ Range(fresh)
  BY AllocationFacts DEF AllocateBlocks
<1>2. /\ r \notin live
      /\ free_list' = RestOfFree(need)
      /\ state' = [b \in Blocks |-> IF b \in Range(fresh) THEN "allocated" ELSE state[b]]
      /\ ref_count' = [b \in Blocks |-> IF b \in Range(fresh) THEN 1
                                        ELSE IF b \in Range(shared) THEN ref_count[b] + 1
                                        ELSE ref_count[b]]
      /\ token_num' = [b \in Blocks |->
             IF b \in Range(fresh) THEN Fill(PositionOf(b, fresh), Len(p) - l)
             ELSE token_num[b]]
      /\ tabled' = tabled \cup {r}
      /\ tables' = [tables EXCEPT ![r] = table]
      /\ cache' = CacheAfterAllocation(p, l, table)
      /\ cached_tokens' = [cached_tokens EXCEPT ![r] = l]
      /\ live' = live \cup {r}
      /\ content' = [b \in Blocks |->
             IF b \in Range(fresh) THEN Prefix(p, EndOfBlock(PositionOf(b, table), Len(p)))
             ELSE content[b]]
      /\ prompt_of' = [prompt_of EXCEPT ![r] = p]
      /\ stored' = [stored EXCEPT ![r] = Len(p)]
      /\ lapsed' = lapsed \ (Dropped(p, l) \cup NewKeys(p, l))
      /\ misled' = (misled \/ (l # 0 /\ Prefix(p, l) \in lapsed))
  BY DEF AllocateBlocks
<1>3. WellFormed(cache')
  BY <1>1, <1>2, CacheStaysWellFormed
<1> HIDE DEF shared, fresh, table
<1>4. TypeOK'
  <2>1. Len(p) \in Nat /\ l \in Nat /\ Len(p) - l \in Nat
    BY PromptFacts
  <2>2. ASSUME NEW b \in Range(fresh)
        PROVE  Fill(PositionOf(b, fresh), Len(p) - l) \in 0 .. BlockSize
    <3>1. PositionOf(b, fresh) \in 1 .. need
      BY <1>1, PositionFacts
    <3> QED BY <2>1, <3>1, FillBounds
  <2>3. ASSUME NEW b \in Range(fresh)
        PROVE  Prefix(p, EndOfBlock(PositionOf(b, table), Len(p))) \in Keys
    <3>1. b \in Range(table)
      BY <1>1
    <3>2. PositionOf(b, table) \in 1 .. BlocksFor(Len(p))
      BY <1>1, <3>1, PositionFacts
    <3> QED BY <2>1, <3>2, FillBounds, PromptFacts
  <2>4. /\ free_list' \in Seq(Blocks)
        /\ state' \in [Blocks -> {"free", "allocated"}]
        /\ ref_count' \in [Blocks -> Nat]
    BY <1>1, <1>2 DEF IInv, TypeOK
  <2>5. /\ tabled' \subseteq Requests
        /\ live' \subseteq tabled'
        /\ tables' \in [Requests -> Seq(Blocks)]
        /\ cached_tokens' \in [Requests -> Nat]
    BY <1>1, <1>2, <2>1 DEF IInv, TypeOK
  <2>6. /\ prompt_of' \in [Requests -> Prompts \cup {<<>>}]
        /\ stored' \in [Requests -> Nat]
        /\ lapsed' \subseteq Keys
        /\ misled' \in BOOLEAN
    BY <1>2, <2>1 DEF IInv, TypeOK
  <2>7. token_num' \in [Blocks -> 0 .. BlockSize]
    BY <1>2, <2>2 DEF IInv, TypeOK
  <2>8. content' \in [Blocks -> Keys \cup {Generated}]
    BY <1>2, <2>3 DEF IInv, TypeOK
  <2> QED BY <1>3, <2>4, <2>5, <2>6, <2>7, <2>8 DEF TypeOK, WellFormed
<1>5. FreeListExact'
  BY <1>1, <1>2 DEF IInv, TypeOK, FreeListExact
<1>6. RefCountsMatchTables'
  <2> SUFFICES ASSUME NEW b \in Blocks
               PROVE  /\ ref_count'[b] = Cardinality(Holders(b)')
                      /\ state'[b] = "free" <=> ref_count'[b] = 0
    BY DEF RefCountsMatchTables
  <2>1. Holders(b)' = IF b \in Range(table) THEN Holders(b) \cup {r} ELSE Holders(b)
    BY <1>1, <1>2 DEF Holders, IInv, TypeOK
  <2>2. IsFiniteSet(Holders(b)) /\ Cardinality(Holders(b)) \in Nat /\ r \notin Holders(b)
    BY <1>2, HoldersFinite DEF IInv, Holders
  <2>3. Cardinality(Holders(b) \cup {r}) = Cardinality(Holders(b)) + 1
    BY <2>2, FS_AddElement
  <2>4. /\ ref_count[b] = Cardinality(Holders(b))
        /\ state[b] = "free" <=> ref_count[b] = 0
        /\ state[b] \in {"free", "allocated"}
    BY DEF IInv, RefCountsMatchTables, TypeOK
  <2>5. CASE b \in Range(fresh)
    <3>1. ref_count[b] = 0 /\ ref_count'[b] = 1 /\ state'[b] = "allocated"
      BY <1>1, <1>2, <2>4, <2>5
    <3> QED BY <1>1, <2>1, <2>3, <2>4, <2>5, <3>1
  <2>6. CASE b \in Range(shared) /\ b \notin Range(fresh)
    <3>1. ref_count'[b] = ref_count[b] + 1 /\ state'[b] = "allocated"
      BY <1>1, <1>2, <2>6
    <3> QED BY <1>1, <2>1, <2>2, <2>3, <2>4, <2>6, <3>1
  <2>7. CASE b \notin Range(table)
    <3>1. ref_count'[b] = ref_count[b] /\ state'[b] = state[b]
      BY <1>1, <1>2, <2>7
    <3> QED BY <2>1, <2>4, <2>7, <3>1
  <2> QED BY <1>1, <2>5, <2>6, <2>7
<1>7. TablesInjective'
  BY <1>1, <1>2 DEF IInv, TypeOK, TablesInjective
<1>8. EntriesWellFormed'
  BY <1>3 DEF EntriesWellFormed, Cached, WellFormed
<1> QED BY <1>4, <1>5, <1>6, <1>7, <1>8 DEF IInv

LEMMA AllocateBlocksFailsIInv ==
    ASSUME IInv, NEW r \in Requests, NEW p \in Prompts, NEW l \in 0 .. Len(p),
           AllocateBlocksFails(r, p, l)
    PROVE  IInv'
<1>1. /\ r \notin live
      /\ tabled' = IF l = 0 THEN tabled ELSE tabled \ {r}
      /\ tables' = IF l = 0 THEN tables ELSE [tables EXCEPT ![r] = <<>>]
      /\ cache' = CacheAfterScan(p, l)
      /\ cached_tokens' = [cached_tokens EXCEPT ![r] = 0]
      /\ lapsed' = lapsed \ Dropped(p, l)
      /\ UNCHANGED <<free_list, state, ref_count, token_num, live, content, prompt_of,
                     stored, misled>>
  BY DEF AllocateBlocksFails, pool
<1>2. WellFormed(cache')
  <2>1. /\ cache \in [Keys -> Seq(Blocks)] /\ <<>> \in Seq(Blocks)
        /\ \A k \in Keys : cache'[k] \in {cache[k], <<>>}
    BY <1>1 DEF IInv, TypeOK, CacheAfterScan
  <2>2. cache' = [k \in Keys |-> cache'[k]]
    BY <1>1 DEF CacheAfterScan
  <2> QED BY <2>1, <2>2 DEF WellFormed, IInv, EntriesWellFormed, Cached
<1>3. TypeOK'
  <2>1. tables' \in [Requests -> Seq(Blocks)]
    BY <1>1 DEF IInv, TypeOK
  <2> QED BY <1>1, <1>2, <2>1 DEF IInv, TypeOK, WellFormed
<1>4. FreeListExact'
  BY <1>1 DEF IInv, FreeListExact
<1>5. \A q \in live : tables'[q] = tables[q]
  BY <1>1 DEF IInv, TypeOK
<1>6. RefCountsMatchTables'
  <2>1. \A b : Holders(b)' = Holders(b)
    BY <1>1, <1>5 DEF Holders
  <2> QED BY <1>1, <2>1 DEF IInv, RefCountsMatchTables
<1>7. TablesInjective'
  BY <1>1, <1>5 DEF IInv, TablesInjective
<1>8. EntriesWellFormed'
  BY <1>2 DEF EntriesWellFormed, Cached, WellFormed
<1> QED BY <1>3, <1>4, <1>6, <1>7, <1>8 DEF IInv

LEMMA AppendInPlaceIInv ==
    ASSUME IInv, NEW r \in Requests, AppendInPlace(r)
    PROVE  IInv'
<1> DEFINE last == tables[r][Len(tables[r])]
<1>1. /\ tables[r] # <<>> /\ token_num[last] < BlockSize
      /\ token_num' = [token_num EXCEPT ![last] = @ + 1]
      /\ stored' = [stored EXCEPT ![r] = @ + 1]
      /\ UNCHANGED <<free_list, state, ref_count, tabled, tables, cache, cached_tokens,
                     live, content, prompt_of, lapsed, misled>>
  BY DEF AppendInPlace, HasSpace
<1>2. last \in Blocks
  <2>1. tables[r] \in Seq(Blocks)
    BY DEF IInv, TypeOK
  <2>2. Len(tables[r]) \in 1 .. Len(tables[r])
    BY <1>1, <2>1
  <2> QED BY <2>1, <2>2, ElementOfSeq
<1> HIDE DEF last
<1>3. TypeOK'
  <2>1. token_num[last] + 1 \in 0 .. BlockSize
    BY <1>1, <1>2, BlockSizeAssumption DEF IInv, TypeOK
  <2>2. token_num' \in [Blocks -> 0 .. BlockSize]
    BY <1>1, <1>2, <2>1 DEF IInv, TypeOK
  <2>3. stored' \in [Requests -> Nat]
    BY <1>1 DEF IInv, TypeOK
  <2> QED BY <1>1, <2>2, <2>3 DEF IInv, TypeOK
<1> QED BY <1>1, <1>3 DEF IInv, FreeListExact, RefCountsMatchTables, Holders,
           TablesInjective, EntriesWellFormed, Cached

LEMMA AppendInNewBlockIInv ==
    ASSUME IInv, NEW r \in Requests, AppendInNewBlock(r)
    PROVE  IInv'
<1> DEFINE b == Head(free_list)
           rest == Tail(free_list)
<1>1. /\ r \in live /\ free_list # <<>>
      /\ free_list' = rest
      /\ state' = [state EXCEPT ![b] = "allocated"]
      /\ ref_count' = [ref_count EXCEPT ![b] = 1]
      /\ token_num' = [token_num EXCEPT ![b] = 1]
      /\ tables' = [tables EXCEPT ![r] = Append(@, b)]
      /\ content' = [content EXCEPT ![b] = Generated]
      /\ stored' = [stored EXCEPT ![r] = @ + 1]
      /\ UNCHANGED <<tabled, cache, cached_tokens, live, prompt_of, lapsed, misled>>
  BY DEF AppendInNewBlock
<1>2. /\ b \in Blocks /\ state[b] = "free"
      /\ rest \in Seq(Blocks) /\ IsInjective(rest)
      /\ Range(rest) = Range(free_list) \ {b}
  <2>1. free_list \in Seq(Blocks) /\ IsInjective(free_list) /\ free_list # <<>>
    BY <1>1 DEF IInv, TypeOK, FreeListExact
  <2>2. /\ b \in Blocks /\ b \in Range(free_list)
        /\ rest \in Seq(Blocks) /\ IsInjective(rest)
        /\ Range(rest) = Range(free_list) \ {b}
    BY <2>1, TailInjective
  <2> QED BY <2>2 DEF IInv, FreeListExact
<1> HIDE DEF b, rest
<1>3. tables[r] \in Seq(Blocks) /\ r \in Requests /\ IsInjective(tables[r])
  BY <1>1 DEF IInv, TypeOK, TablesInjective
<1>4. Holders(b) = {}
  <2>1. Cardinality(Holders(b)) = 0 /\ IsFiniteSet(Holders(b))
    BY <1>2, HoldersFinite DEF IInv, RefCountsMatchTables
  <2> QED BY <2>1, FS_EmptySet
<1>5. /\ Append(tables[r], b) \in Seq(Blocks)
      /\ IsInjective(Append(tables[r], b))
      /\ Range(Append(tables[r], b)) = Range(tables[r]) \cup {b}
  <2>1. b \notin Range(tables[r])
    BY <1>1, <1>4 DEF Holders
  <2> QED BY <1>2, <1>3, <2>1, AppendDistinct
<1>6. TypeOK'
  <2>1. 1 \in 0 .. BlockSize
    BY BlockSizeAssumption
  <2>2. /\ free_list' \in Seq(Blocks)
        /\ state' \in [Blocks -> {"free", "allocated"}]
        /\ ref_count' \in [Blocks -> Nat]
        /\ token_num' \in [Blocks -> 0 .. BlockSize]
        /\ tables' \in [Requests -> Seq(Blocks)]
        /\ content' \in [Blocks -> Keys \cup {Generated}]
        /\ stored' \in [Requests -> Nat]
    BY <1>1, <1>2, <1>5, <2>1 DEF IInv, TypeOK
  <2> QED BY <1>1, <2>2 DEF IInv, TypeOK
<1>7. FreeListExact'
  BY <1>1, <1>2 DEF IInv, TypeOK, FreeListExact
<1>8. RefCountsMatchTables'
  <2> SUFFICES ASSUME NEW c \in Blocks
               PROVE  /\ ref_count'[c] = Cardinality(Holders(c)')
                      /\ state'[c] = "free" <=> ref_count'[c] = 0
    BY DEF RefCountsMatchTables
  <2>1. Holders(c)' = IF c = b THEN {r} ELSE Holders(c)
    BY <1>1, <1>3, <1>4, <1>5 DEF Holders, IInv, TypeOK
  <2>2. Cardinality({r}) = 1
    BY FS_Singleton
  <2> QED BY <1>1, <1>2, <2>1, <2>2 DEF IInv, RefCountsMatchTables, TypeOK
<1>9. TablesInjective'
  BY <1>1, <1>5 DEF IInv, TypeOK, TablesInjective
<1> QED BY <1>1, <1>6, <1>7, <1>8, <1>9 DEF IInv, EntriesWellFormed, Cached

(* The released blocks in table order form a list without repetition. *)
LEMMA InOrderOfInjective ==
    ASSUME NEW t \in Seq(Blocks), IsInjective(t), NEW S \in SUBSET Blocks,
           NEW back \in InOrderOf(t, S)
    PROVE  back \in Seq(Blocks) /\ IsInjective(back) /\ Range(back) = S
<1>1. Cardinality(S) \in Nat
  <2>1. IsFiniteSet(Blocks)
    BY NumBlocksAssumption, FS_Interval DEF Blocks
  <2> QED BY <2>1, FS_Subset, FS_CardinalityType
<1>2. /\ back \in [1 .. Cardinality(S) -> S] /\ Range(back) = S
      /\ \A i, j \in 1 .. Cardinality(S) : i < j =>
             \E k, l \in 1 .. Len(t) : k < l /\ t[k] = back[i] /\ t[l] = back[j]
  BY LenProperties DEF InOrderOf
<1>3. back \in Seq(Blocks) /\ Len(back) = Cardinality(S)
  BY <1>1, <1>2
<1>4. Len(t) \in Nat /\ \A i, j \in 1 .. Len(t) : t[i] = t[j] => i = j
  BY InjectiveMembers
<1>5. ASSUME NEW i \in 1 .. Len(back), NEW j \in 1 .. Len(back), i < j
      PROVE  back[i] # back[j]
  <2>1. PICK k \in 1 .. Len(t), l \in 1 .. Len(t) :
            k < l /\ t[k] = back[i] /\ t[l] = back[j]
    BY <1>2, <1>3, <1>5
  <2> QED BY <1>4, <2>1
<1>6. \A i, j \in 1 .. Len(back) : back[i] = back[j] => i = j
  BY <1>1, <1>3, <1>5
<1> QED BY <1>2, <1>3, <1>6, InjectiveMembers

LEMMA FreeRequestIInv ==
    ASSUME IInv, NEW r \in Requests, FreeRequest(r)
    PROVE  IInv'
<1> DEFINE freed == SoleBlocks(r)
<1>1. PICK back \in InOrderOf(tables[r], freed) : free_list' = free_list \o back
  BY DEF FreeRequest
<1>2. /\ r \in live
      /\ state' = [b \in Blocks |-> IF b \in freed THEN "free" ELSE state[b]]
      /\ ref_count' = [b \in Blocks |->
             IF b \in freed THEN 0
             ELSE IF b \in Range(tables[r]) THEN ref_count[b] - 1
             ELSE ref_count[b]]
      /\ token_num' = [b \in Blocks |-> IF b \in freed THEN 0 ELSE token_num[b]]
      /\ tabled' = tabled \ {r}
      /\ tables' = [tables EXCEPT ![r] = <<>>]
      /\ cached_tokens' = [cached_tokens EXCEPT ![r] = 0]
      /\ live' = live \ {r}
      /\ prompt_of' = [prompt_of EXCEPT ![r] = <<>>]
      /\ stored' = [stored EXCEPT ![r] = 0]
      /\ lapsed' = lapsed \cup EntriesNaming(freed)
      /\ UNCHANGED <<cache, content, misled>>
  BY DEF FreeRequest
<1>3. tables[r] \in Seq(Blocks) /\ IsInjective(tables[r]) /\ Range(tables[r]) \subseteq Blocks
  BY <1>2, RangeMembers DEF IInv, TypeOK, TablesInjective
<1>4. freed \subseteq Blocks /\ \A b \in freed : state[b] = "allocated"
  BY <1>3 DEF SoleBlocks
<1>5. back \in Seq(Blocks) /\ IsInjective(back) /\ Range(back) = freed
  BY <1>1, <1>3, <1>4, InOrderOfInjective
<1>6. /\ free_list' \in Seq(Blocks) /\ IsInjective(free_list')
      /\ Range(free_list') = Range(free_list) \cup freed
  <2>1. free_list \in Seq(Blocks) /\ IsInjective(free_list)
    BY DEF IInv, TypeOK, FreeListExact
  <2>2. Range(free_list) \cap freed = {}
    BY <1>4, <2>1, RangeMembers DEF IInv, FreeListExact
  <2> QED BY <1>1, <1>5, <2>1, <2>2, JoinInjective
<1>7. \A b \in freed : b \in Range(tables[r]) /\ ref_count[b] <= 1
  BY DEF SoleBlocks
<1>8. ASSUME NEW b \in Blocks
      PROVE  /\ ref_count'[b] = Cardinality(Holders(b)')
             /\ state'[b] = "free" <=> ref_count'[b] = 0
             /\ ref_count'[b] \in Nat
  <2>1. Holders(b)' = Holders(b) \ {r}
    BY <1>2 DEF Holders, IInv, TypeOK
  <2>2. IsFiniteSet(Holders(b)) /\ Cardinality(Holders(b)) \in Nat
    BY HoldersFinite DEF IInv
  <2>3. Cardinality(Holders(b) \ {r}) = IF r \in Holders(b) THEN Cardinality(Holders(b)) - 1
                                                           ELSE Cardinality(Holders(b))
    BY <2>2, FS_RemoveElement
  <2>4. r \in Holders(b) <=> b \in Range(tables[r])
    BY <1>2 DEF Holders
  <2>5. /\ ref_count[b] = Cardinality(Holders(b))
        /\ state[b] = "free" <=> ref_count[b] = 0
        /\ state[b] \in {"free", "allocated"}
    BY DEF IInv, RefCountsMatchTables, TypeOK
  <2>6. r \in Holders(b) => Cardinality(Holders(b)) # 0
    BY <2>2, FS_EmptySet
  <2>7. b \in freed <=> b \in Range(tables[r]) /\ state[b] = "allocated" /\ ref_count[b] <= 1
    BY DEF SoleBlocks
  <2> HIDE DEF freed
  <2>8. CASE b \in freed
    <3>1. ref_count'[b] = 0 /\ state'[b] = "free"
      BY <1>2, <2>8
    <3> QED BY <2>1, <2>2, <2>3, <2>4, <2>5, <2>6, <2>7, <2>8, <3>1
  <2>9. CASE b \in Range(tables[r]) /\ b \notin freed
    <3>1. ref_count'[b] = ref_count[b] - 1 /\ state'[b] = state[b]
      BY <1>2, <2>9
    <3> QED BY <2>1, <2>2, <2>3, <2>4, <2>5, <2>6, <2>7, <2>9, <3>1
  <2>10. CASE b \notin Range(tables[r])
    <3>1. ref_count'[b] = ref_count[b] /\ state'[b] = state[b]
      BY <1>2, <1>7, <2>7, <2>10
    <3> QED BY <2>1, <2>2, <2>3, <2>4, <2>5, <2>10, <3>1
  <2> QED BY <2>8, <2>9, <2>10
<1> HIDE DEF freed
<1>9. TypeOK'
  <2>1. 0 \in 0 .. BlockSize /\ <<>> \in Seq(Blocks)
    BY BlockSizeAssumption
  <2>2. ref_count' \in [Blocks -> Nat]
    BY <1>2, <1>8
  <2>3. /\ state' \in [Blocks -> {"free", "allocated"}]
        /\ token_num' \in [Blocks -> 0 .. BlockSize]
        /\ tables' \in [Requests -> Seq(Blocks)]
        /\ cached_tokens' \in [Requests -> Nat]
        /\ prompt_of' \in [Requests -> Prompts \cup {<<>>}]
        /\ stored' \in [Requests -> Nat]
        /\ live' \subseteq tabled'
        /\ tabled' \subseteq Requests
    BY <1>2, <2>1 DEF IInv, TypeOK
  <2>4. lapsed' \subseteq Keys
    BY <1>2 DEF IInv, TypeOK, EntriesNaming
  <2> QED BY <1>2, <1>6, <2>2, <2>3, <2>4 DEF IInv, TypeOK
<1>10. FreeListExact'
  BY <1>2, <1>4, <1>6 DEF IInv, FreeListExact
<1>11. RefCountsMatchTables'
  BY <1>8 DEF RefCountsMatchTables
<1>12. TablesInjective'
  BY <1>2 DEF IInv, TypeOK, TablesInjective
<1> QED BY <1>2, <1>9, <1>10, <1>11, <1>12 DEF IInv, EntriesWellFormed, Cached

LEMMA ResetIInv ==
    ASSUME IInv, Reset
    PROVE  IInv'
<1>1. /\ free_list' \in Seq(Blocks) /\ IsInjective(free_list')
      /\ Range(free_list') = Blocks
  BY FullFreeList DEF Reset
<1>2. TypeOK'
  <2>1. 0 \in 0 .. BlockSize /\ <<>> \in Seq(Blocks)
    BY BlockSizeAssumption
  <2> QED BY <1>1, <2>1 DEF Reset, IInv, TypeOK
<1>3. FreeListExact'
  BY <1>1 DEF FreeListExact, Reset
<1>4. RefCountsMatchTables'
  BY FS_EmptySet DEF RefCountsMatchTables, Holders, Reset
<1>5. TablesInjective' /\ EntriesWellFormed'
  BY DEF TablesInjective, EntriesWellFormed, Cached, Reset
<1> QED BY <1>2, <1>3, <1>4, <1>5 DEF IInv

LEMMA StepIInv == IInv /\ [Next]_vars => IInv'
<1> SUFFICES ASSUME IInv, [Next]_vars
             PROVE  IInv'
  OBVIOUS
<1>1. ASSUME NEW r \in Requests, NEW p \in Prompts, NEW l \in 0 .. Len(p),
             AllocateBlocks(r, p, l)
      PROVE  IInv'
  BY <1>1, AllocateBlocksIInv
<1>2. ASSUME NEW r \in Requests, NEW p \in Prompts, NEW l \in 0 .. Len(p),
             AllocateBlocksFails(r, p, l)
      PROVE  IInv'
  BY <1>2, AllocateBlocksFailsIInv
<1>3. ASSUME NEW r \in Requests, AppendInPlace(r) PROVE IInv'
  BY <1>3, AppendInPlaceIInv
<1>4. ASSUME NEW r \in Requests, AppendInNewBlock(r) PROVE IInv'
  BY <1>4, AppendInNewBlockIInv
<1>5. ASSUME NEW r \in Requests, FreeRequest(r) PROVE IInv'
  BY <1>5, FreeRequestIInv
<1>6. CASE Reset
  BY <1>6, ResetIInv
<1>7. CASE UNCHANGED vars
  BY <1>7 DEF vars, IInv, TypeOK, FreeListExact, RefCountsMatchTables, Holders,
              TablesInjective, EntriesWellFormed, Cached
<1> QED BY <1>1, <1>2, <1>3, <1>4, <1>5, <1>6, <1>7 DEF Next

LEMMA Inductive == Spec => []IInv
BY InitIInv, StepIInv, PTL DEF Spec

-----------------------------------------------------------------------------
(* Results. *)

(* Every field of the cache has its type whatever the order of operations:    *)
(* in particular no block ever counts more tokens than it has slots.          *)
THEOREM TypeCorrect == Spec => []TypeOK
<1>1. IInv => TypeOK
  BY DEF IInv
<1> QED BY <1>1, Inductive, PTL

(* BlockAllocator: the free list is exactly the set of free blocks, without   *)
(* repetition, for every pool size and every interleaving of requests.        *)
THEOREM FreeListCorrect == Spec => []FreeListExact
<1>1. IInv => FreeListExact
  BY DEF IInv
<1> QED BY <1>1, Inductive, PTL

(* Block.ref_count counts the live tables that name the block, and a block is *)
(* free exactly when no live table names it.                                  *)
THEOREM ReferencesCorrect == Spec => []RefCountsMatchTables
<1>1. IInv => RefCountsMatchTables
  BY DEF IInv
<1> QED BY <1>1, Inductive, PTL

-----------------------------------------------------------------------------
(* Refinement: seen from the holders of each block, every operation is one of *)
(* the abstract pool or changes nothing.                                      *)

LEMMA PoolInit == Init => Pool!Init
BY DEF Init, Pool!Init, PoolHolders, Holders

LEMMA PoolAcquire ==
    ASSUME IInv, NEW r \in Requests, NEW p \in Prompts, NEW l \in 0 .. Len(p),
           AllocateBlocks(r, p, l)
    PROVE  Pool!Next
<1> DEFINE shared == SharedBlocks(p, l)
           need == BlocksFor(Len(p) - l)
           fresh == NextFree(need)
           table == shared \o fresh
<1>1. /\ table \in Seq(Blocks)
      /\ Range(table) = Range(shared) \cup Range(fresh)
      /\ \A b \in Range(shared) : b \in Blocks /\ state[b] = "allocated"
      /\ \A b \in Range(fresh) : b \in Blocks /\ state[b] = "free"
  BY AllocationFacts DEF AllocateBlocks
<1>2. r \notin live /\ live' = live \cup {r} /\ tables' = [tables EXCEPT ![r] = table]
  BY DEF AllocateBlocks
<1> HIDE DEF shared, fresh, table
<1>3. \A b \in Blocks : /\ state[b] = "free" <=> Holders(b) = {}
                        /\ r \notin Holders(b)
  BY <1>2, HoldersFinite, FS_EmptySet DEF IInv, RefCountsMatchTables, Holders
<1>4. Range(shared) \in SUBSET Blocks /\ Range(fresh) \in SUBSET Blocks
  BY <1>1
<1>5. \A b \in Blocks :
          Holders(b)' = IF b \in Range(shared) \cup Range(fresh) THEN Holders(b) \cup {r}
                        ELSE Holders(b)
  BY <1>1, <1>2 DEF Holders, IInv, TypeOK
<1>6. Range(shared) \subseteq Pool!Held /\ Range(fresh) \cap Pool!Held = {}
  BY <1>1, <1>3 DEF Pool!Held, PoolHolders
<1>7. Pool!HoldsNothing(r)
  BY <1>3 DEF Pool!HoldsNothing, PoolHolders
<1>8. PoolHolders' = Pool!Joined(r, Range(shared) \cup Range(fresh))
  BY <1>5 DEF Pool!Joined, PoolHolders
<1>9. Pool!Acquire(r, Range(shared), Range(fresh))
  BY <1>6, <1>7, <1>8 DEF Pool!Acquire
<1> QED BY <1>4, <1>9 DEF Pool!Next

LEMMA PoolGrow ==
    ASSUME IInv, NEW r \in Requests, AppendInNewBlock(r)
    PROVE  Pool!Next
<1> DEFINE b == Head(free_list)
<1>1. /\ r \in live /\ free_list # <<>>
      /\ tables' = [tables EXCEPT ![r] = Append(@, b)]
      /\ live' = live
  BY DEF AppendInNewBlock
<1>2. b \in Blocks /\ state[b] = "free"
  <2>1. free_list \in Seq(Blocks) /\ 1 \in 1 .. Len(free_list) /\ b = free_list[1]
    BY <1>1 DEF IInv, TypeOK
  <2> QED BY <2>1, RangeMembers, ElementOfSeq DEF IInv, FreeListExact
<1> HIDE DEF b
<1>3. Holders(b) = {}
  BY <1>2, HoldersFinite, FS_EmptySet DEF IInv, RefCountsMatchTables
<1>4. Range(Append(tables[r], b)) = Range(tables[r]) \cup {b}
  <2>1. tables[r] \in Seq(Blocks) /\ <<b>> \in Seq(Blocks) /\ Range(<<b>>) = {b}
    BY <1>2 DEF IInv, TypeOK, Range
  <2>2. Append(tables[r], b) = tables[r] \o <<b>>
    BY <1>2, <2>1, AppendIsConcat
  <2>3. Range(tables[r] \o <<b>>) = Range(tables[r]) \cup Range(<<b>>)
    BY <2>1, RangeConcatenation
  <2> QED BY <2>1, <2>2, <2>3
<1>5. \A c \in Blocks : Holders(c)' = IF c \in {b} THEN Holders(c) \cup {r} ELSE Holders(c)
  BY <1>1, <1>4 DEF Holders, IInv, TypeOK
<1>6. Pool!Grow(r, b)
  BY <1>2, <1>3, <1>5 DEF Pool!Grow, Pool!Held, Pool!Joined, PoolHolders
<1> QED BY <1>2, <1>6 DEF Pool!Next

LEMMA PoolStep == IInv /\ [Next]_vars => [Pool!Next]_PoolHolders
<1> SUFFICES ASSUME IInv, [Next]_vars
             PROVE  Pool!Next \/ UNCHANGED PoolHolders
  OBVIOUS
<1>1. ASSUME NEW r \in Requests, NEW p \in Prompts, NEW l \in 0 .. Len(p),
             AllocateBlocks(r, p, l)
      PROVE  Pool!Next
  BY <1>1, PoolAcquire
<1>2. ASSUME NEW r \in Requests, NEW p \in Prompts, NEW l \in 0 .. Len(p),
             AllocateBlocksFails(r, p, l)
      PROVE  UNCHANGED PoolHolders
  <2>1. live' = live /\ \A q \in live : tables'[q] = tables[q]
    BY <1>2 DEF AllocateBlocksFails, IInv, TypeOK
  <2> QED BY <2>1 DEF PoolHolders, Holders
<1>3. ASSUME NEW r \in Requests, AppendInPlace(r)
      PROVE  UNCHANGED PoolHolders
  BY <1>3 DEF AppendInPlace, PoolHolders, Holders
<1>4. ASSUME NEW r \in Requests, AppendInNewBlock(r)
      PROVE  Pool!Next
  BY <1>4, PoolGrow
<1>5. ASSUME NEW r \in Requests, FreeRequest(r)
      PROVE  Pool!Next
  <2>1. live' = live \ {r} /\ \A q \in live \ {r} : tables'[q] = tables[q]
    BY <1>5 DEF FreeRequest, IInv, TypeOK
  <2>2. \A b \in Blocks : Holders(b)' = Holders(b) \ {r}
    BY <2>1 DEF Holders
  <2>3. Pool!Release(r)
    BY <2>2 DEF Pool!Release, PoolHolders
  <2> QED BY <2>3 DEF Pool!Next
<1>6. CASE Reset
  BY <1>6 DEF Reset, Pool!Next, Pool!ReleaseAll, PoolHolders, Holders
<1>7. CASE UNCHANGED vars
  BY <1>7 DEF vars, PoolHolders, Holders
<1> QED BY <1>1, <1>2, <1>3, <1>4, <1>5, <1>6, <1>7 DEF Next

(* KVCacheManager implements the abstract pool: whatever the free list, the   *)
(* reference counts and the prefix cache do, a fresh block belongs to nobody  *)
(* else, a block found through the cache belongs to somebody, and a release   *)
(* takes nothing from anybody but the request released.                       *)
THEOREM ImplementsSharedBlockPool == Spec => RefinesSharedBlockPool
<1>1. Spec => Pool!Init /\ [][Pool!Next]_PoolHolders
  BY Inductive, PoolInit, PoolStep, PTL DEF Spec
<1> QED BY <1>1 DEF RefinesSharedBlockPool, Pool!Spec

-----------------------------------------------------------------------------
(* Results that follow from the accounting alone. *)

(* BlockManager: a block table names no block twice, whatever mixture of      *)
(* cached and fresh blocks it was built from.                                 *)
THEOREM TablesCorrect == Spec => []TablesInjective
<1>1. IInv => TablesInjective
  BY DEF IInv
<1> QED BY <1>1, Inductive, PTL

(* The lookup that returned l deleted no usable entry: a longer one that is   *)
(* usable would have been returned instead.                                   *)
LEMMA ScanKeepsUsable ==
    ASSUME TypeOK, NEW p \in Prompts, NEW l \in 0 .. Len(p), IsLongestHit(p, l),
           NEW k \in Keys, Cached(k), Valid(k)
    PROVE  k \notin Dropped(p, l) /\ CacheAfterScan(p, l)[k] = cache[k]
<1>1. ASSUME k \in Dropped(p, l) PROVE FALSE
  <2>1. /\ EnablePrefixSharing
        /\ \E m \in {n \in AlignedLengths(p) : n > l} : k = Prefix(p, m)
    BY <1>1 DEF Dropped
  <2>2. PICK m \in AlignedLengths(p) : m > l /\ k = Prefix(p, m)
    BY <2>1
  <2>3. m \in Hits(p) /\ m \in Nat /\ l \in Nat
    BY <2>1, <2>2, PromptFacts DEF Hits, AlignedLengths
  <2> QED BY <2>2, <2>3 DEF IsLongestHit
<1> QED BY <1>1 DEF CacheAfterScan

LEMMA StepKeepsUsable ==
    IInv /\ [Next]_vars => Reset \/ \A k \in Keys : Cached(k) /\ Valid(k) => cache'[k] = cache[k]
<1> SUFFICES ASSUME IInv, [Next]_vars, ~Reset, NEW k \in Keys, Cached(k), Valid(k)
             PROVE  cache'[k] = cache[k]
  OBVIOUS
<1>1. ASSUME NEW r \in Requests, NEW p \in Prompts, NEW l \in 0 .. Len(p), AllocateBlocks(r, p, l)
      PROVE  cache'[k] = cache[k]
  <2>1. /\ IsLongestHit(p, l)
        /\ \E table : cache' = CacheAfterAllocation(p, l, table)
    BY <1>1 DEF AllocateBlocks
  <2>2. CacheAfterScan(p, l)[k] = cache[k] /\ cache[k] # <<>>
    BY <2>1, ScanKeepsUsable DEF IInv, Cached
  <2>3. k \notin NewKeys(p, l)
    BY <2>2 DEF NewKeys
  <2> QED BY <2>1, <2>2, <2>3 DEF CacheAfterAllocation
<1>2. ASSUME NEW r \in Requests, NEW p \in Prompts, NEW l \in 0 .. Len(p), AllocateBlocksFails(r, p, l)
      PROVE  cache'[k] = cache[k]
  BY <1>2, ScanKeepsUsable DEF AllocateBlocksFails, IInv
<1>3. ASSUME NEW r \in Requests, AppendInPlace(r) \/ AppendInNewBlock(r) \/ FreeRequest(r)
      PROVE  cache'[k] = cache[k]
  BY <1>3 DEF AppendInPlace, AppendInNewBlock, FreeRequest
<1>4. CASE UNCHANGED vars
  BY <1>4 DEF vars
<1> QED BY <1>1, <1>2, <1>3, <1>4 DEF Next

(* PrefixCache: an entry whose blocks are all in use survives every operation *)
(* but reset, unchanged, whatever is looked up, allocated, refused or freed.  *)
THEOREM UsableEntriesKept == Spec => UsableEntriesSurvive
BY Inductive, StepKeepsUsable, PTL DEF Spec, UsableEntriesSurvive

-----------------------------------------------------------------------------
(* Prefixes of prefixes. *)

LEMMA PrefixOfPrefix ==
    ASSUME NEW p \in Prompts, NEW l \in 0 .. Len(p), NEW m \in 0 .. l
    PROVE  Prefix(Prefix(p, l), m) = Prefix(p, m)
<1>1. PICK S : p \in Seq(S)
  BY PromptFacts
<1>2. Len(p) \in Nat /\ l \in Nat /\ m \in Nat /\ l <= Len(p)
  BY PromptFacts
<1>3. \A i \in 1 .. l : p[i] \in S
  BY <1>1, <1>2, ElementOfSeq
<1>4. /\ SubSeq(p, 1, l) \in Seq(S) /\ Len(SubSeq(p, 1, l)) = l
      /\ \A i \in 1 .. l : SubSeq(p, 1, l)[i] = p[i]
  BY <1>2, <1>3, SubSeqProperties
<1>5. /\ SubSeq(p, 1, m) \in Seq(S) /\ Len(SubSeq(p, 1, m)) = m
      /\ \A i \in 1 .. m : SubSeq(p, 1, m)[i] = p[i]
  BY <1>2, <1>3, SubSeqProperties
<1> DEFINE q == SubSeq(p, 1, l)
<1> HIDE DEF q
<1>6. \A i \in 1 .. m : q[i] \in S
  BY <1>2, <1>3, <1>4 DEF q
<1>7. /\ SubSeq(q, 1, m) \in Seq(S) /\ Len(SubSeq(q, 1, m)) = m
      /\ \A i \in 1 .. m : SubSeq(q, 1, m)[i] = q[i]
  BY <1>2, <1>6, SubSeqProperties
<1>8. SubSeq(q, 1, m) = SubSeq(p, 1, m)
  <2>1. \A i \in 1 .. m : SubSeq(q, 1, m)[i] = SubSeq(p, 1, m)[i]
    BY <1>2, <1>4, <1>5, <1>7 DEF q
  <2> QED BY <1>5, <1>7, <2>1, SeqEqual
<1> QED BY <1>8 DEF Prefix, q

(* The blocks of a prefix that ends at a block boundary, or is the whole, end *)
(* where those of the whole do.                                               *)
LEMMA EndOfBlockInPrefix ==
    ASSUME NEW n \in Nat, NEW e \in 0 .. n, NEW i \in 1 .. BlocksFor(e),
           e = n \/ \E j \in Nat : e = j * BlockSize
    PROVE  EndOfBlock(i, e) = EndOfBlock(i, n) /\ EndOfBlock(i, e) \in 1 .. e
<1>1. /\ e \in Nat /\ i \in Nat /\ BlockSize \in Nat /\ BlockSize > 0 /\ BlocksFor(e) \in Nat
  BY BlocksForBounds, BlockSizeAssumption
<1>2. EndOfBlock(i, e) \in 1 .. e
  BY <1>1, FillBounds
<1>3. ASSUME NEW j \in Nat, e = j * BlockSize
      PROVE  EndOfBlock(i, e) = EndOfBlock(i, n)
  <2>1. (j - 1) * BlockSize = j * BlockSize - BlockSize
    BY <1>1
  <2>2. j * BlockSize \in Nat
    BY <1>1
  <2>3. (j - 1) * BlockSize < e /\ e <= j * BlockSize
    BY <1>1, <1>3, <2>1, <2>2
  <2>4. BlocksFor(e) = j
    BY <1>1, <2>3, BlocksForUnique
  <2>5. j = i + (j - i) /\ j - i \in Nat
    BY <1>1, <2>4
  <2>6. j * BlockSize = i * BlockSize + (j - i) * BlockSize
    BY <1>1, <2>5
  <2>7. (j - i) * BlockSize \in Nat /\ i * BlockSize \in Nat
    BY <1>1, <2>5
  <2>8. i * BlockSize <= e
    BY <1>3, <2>6, <2>7
  <2> QED BY <1>1, <2>7, <2>8 DEF EndOfBlock
<1> QED BY <1>2, <1>3

-----------------------------------------------------------------------------
(* The soundness of tables and entries.  A table is as long as its prompt     *)
(* needs, so the blocks a decode adds to it come after those of the prompt.   *)
TablesLong ==
    \A r \in live : /\ prompt_of[r] \in Prompts
                    /\ BlocksFor(Len(prompt_of[r])) <= Len(tables[r])

EntriesBacked == \A k \in Keys : Cached(k) /\ k \notin lapsed => Backed(k)

(* A block of a live table is in use. *)
LEMMA TableBlocksInUse ==
    ASSUME IInv, NEW r \in live, NEW i \in 1 .. Len(tables[r])
    PROVE  /\ tables[r] \in Seq(Blocks) /\ Len(tables[r]) \in Nat
           /\ tables[r][i] \in Blocks /\ state[tables[r][i]] = "allocated"
<1> DEFINE b == tables[r][i]
<1>1. r \in Requests /\ tables[r] \in Seq(Blocks)
  BY DEF IInv, TypeOK
<1>2. b \in Range(tables[r]) /\ b \in Blocks
  BY <1>1, RangeMembers
<1>3. r \in Holders(b)
  BY <1>2 DEF Holders
<1>4. IsFiniteSet(Holders(b))
  BY HoldersFinite DEF IInv
<1>5. Cardinality(Holders(b)) # 0
  BY <1>3, <1>4, FS_EmptySet
<1>6. state[b] # "free"
  BY <1>2, <1>5 DEF IInv, RefCountsMatchTables
<1> QED BY <1>1, <1>2, <1>6, LenProperties DEF IInv, TypeOK

(* What each block of a new table holds: the shared ones what their entry     *)
(* said, the fresh ones what the prefill writes.                              *)
LEMMA NewTableSound ==
    ASSUME IInv, EntriesBacked, NEW r \in Requests, NEW p \in Prompts, NEW l \in 0 .. Len(p),
           AllocateBlocks(r, p, l), ~misled'
    PROVE  \A i \in 1 .. BlocksFor(Len(p)) :
               /\ i \in 1 .. Len(tables'[r])
               /\ state'[tables'[r][i]] = "allocated"
               /\ content'[tables'[r][i]] = Prefix(p, EndOfBlock(i, Len(p)))
<1> DEFINE shared == SharedBlocks(p, l)
           need == BlocksFor(Len(p) - l)
           fresh == NextFree(need)
           table == shared \o fresh
<1>1. /\ shared \in Seq(Blocks) /\ fresh \in Seq(Blocks) /\ table \in Seq(Blocks)
      /\ Len(table) = BlocksFor(Len(p))
      /\ IsInjective(table)
      /\ Range(table) = Range(shared) \cup Range(fresh)
      /\ \A b \in Range(shared) : b \in Blocks /\ state[b] = "allocated"
      /\ \A b \in Range(fresh) : b \in Blocks /\ state[b] = "free"
  BY AllocationFacts DEF AllocateBlocks
<1>2. /\ state' = [b \in Blocks |-> IF b \in Range(fresh) THEN "allocated" ELSE state[b]]
      /\ tables' = [tables EXCEPT ![r] = table]
      /\ content' = [b \in Blocks |->
             IF b \in Range(fresh) THEN Prefix(p, EndOfBlock(PositionOf(b, table), Len(p)))
             ELSE content[b]]
      /\ misled' = (misled \/ (l # 0 /\ Prefix(p, l) \in lapsed))
      /\ IsLongestHit(p, l)
  BY DEF AllocateBlocks
<1>3. Len(p) \in Nat /\ l \in Nat /\ Len(p) - l \in Nat
  BY PromptFacts
<1>4. tables'[r] = table
  BY <1>2 DEF IInv, TypeOK
<1>5. l # 0 => /\ Prefix(p, l) \in Keys /\ Len(Prefix(p, l)) = l
               /\ Cached(Prefix(p, l)) /\ Prefix(p, l) \notin lapsed
               /\ shared = cache[Prefix(p, l)] /\ l % BlockSize = 0
  BY <1>2, <1>3, PromptFacts, PrefixFacts DEF IsLongestHit, Hits, AlignedLengths, SharedBlocks
<1>6. l = 0 => shared = <<>> /\ Range(shared) = {}
  BY DEF SharedBlocks, Range
<1> HIDE DEF fresh, shared, table
<1> SUFFICES ASSUME NEW i \in 1 .. Len(table)
             PROVE  /\ state'[table[i]] = "allocated"
                    /\ content'[table[i]] = Prefix(p, EndOfBlock(i, Len(p)))
  BY <1>1, <1>4
<1> DEFINE b == table[i]
<1>7. b \in Range(table) /\ b \in Blocks
  BY <1>1, RangeMembers
<1>8. CASE b \in Range(fresh)
  <2>1. PositionOf(b, table) = i
    <3>1. PositionOf(b, table) \in 1 .. Len(table) /\ table[PositionOf(b, table)] = b
      BY <1>1, <1>7, PositionFacts
    <3>2. \A m, n \in 1 .. Len(table) : table[m] = table[n] => m = n
      BY <1>1, InjectiveMembers
    <3> QED BY <3>1, <3>2
  <2> QED BY <1>2, <1>7, <1>8, <2>1
<1>9. CASE b \notin Range(fresh)
  <2>1. b \in Range(shared) /\ state[b] = "allocated"
    BY <1>1, <1>7, <1>9
  <2>2. l # 0
    BY <1>6, <2>1
  <2> DEFINE k == Prefix(p, l)
  <2>3. PICK j \in 1 .. Len(shared) : shared[j] = b
    BY <1>1, <2>1, RangeMembers
  <2>4. j = i
    <3>1. table = shared \o fresh /\ Len(shared) \in Nat /\ Len(fresh) \in Nat
      BY <1>1, LenProperties DEF table
    <3>2. j \in 1 .. Len(table) /\ table[j] = shared[j]
      BY <1>1, <2>3, <3>1, ConcatProperties
    <3>3. \A m, n \in 1 .. Len(table) : table[m] = table[n] => m = n
      BY <1>1, InjectiveMembers
    <3> QED BY <2>3, <3>2, <3>3
  <2>5. Backed(k)
    BY <1>5, <2>2 DEF EntriesBacked
  <2>6. i \in DOMAIN cache[k] /\ cache[k][i] = b
    BY <1>1, <1>5, <2>2, <2>3, <2>4, LenProperties
  <2>7. content[b] = Prefix(k, EndOfBlock(i, l))
    BY <1>5, <2>2, <2>5, <2>6 DEF Backed
  <2>8. i \in 1 .. BlocksFor(l)
    BY <1>5, <2>2, <2>3, <2>4 DEF IInv, EntriesWellFormed
  <2>9. \E m \in Nat : l = m * BlockSize
    <3>1. l \div BlockSize \in Nat /\ l = (l \div BlockSize) * BlockSize
      BY <1>3, <1>5, <2>2, BlockSizeAssumption
    <3> QED BY <3>1
  <2>10. EndOfBlock(i, l) = EndOfBlock(i, Len(p)) /\ EndOfBlock(i, l) \in 1 .. l
    BY <1>3, <2>8, <2>9, EndOfBlockInPrefix
  <2>11. Prefix(k, EndOfBlock(i, l)) = Prefix(p, EndOfBlock(i, Len(p)))
    BY <1>3, <2>10, PrefixOfPrefix
  <2>12. state'[b] = "allocated" /\ content'[b] = content[b]
    BY <1>2, <1>7, <1>9, <2>1
  <2> QED BY <2>7, <2>11, <2>12
<1> QED BY <1>8, <1>9

Soundness == TablesLong /\ TablesSound

(* Nothing is written over: what holds of a table, or of an entry, goes on    *)
(* holding while the blocks in use keep their content.                        *)
LEMMA TableStaysSound ==
    ASSUME IInv, TablesLong, NEW s \in live, TableSound(s),
           \A b \in Blocks : state[b] = "allocated" => content'[b] = content[b],
           prompt_of'[s] = prompt_of[s],
           \A i \in 1 .. Len(tables[s]) : tables'[s][i] = tables[s][i]
    PROVE  TableSound(s)'
<1> SUFFICES ASSUME NEW i \in 1 .. BlocksFor(Len(prompt_of[s]))
             PROVE  content'[tables'[s][i]] = Prefix(prompt_of[s], EndOfBlock(i, Len(prompt_of[s])))
  BY DEF TableSound
<1>1. BlocksFor(Len(prompt_of[s])) \in Nat
  BY PromptFacts, BlocksForBounds DEF TablesLong
<1>2. Len(tables[s]) \in Nat
  BY LenProperties DEF IInv, TypeOK
<1>3. i \in 1 .. Len(tables[s])
  BY <1>1, <1>2 DEF TablesLong
<1>4. tables[s][i] \in Blocks /\ state[tables[s][i]] = "allocated"
  BY <1>3, TableBlocksInUse
<1> QED BY <1>3, <1>4 DEF TableSound

LEMMA EntryStaysBacked ==
    ASSUME IInv, NEW k \in Keys, Backed(k), cache'[k] = cache[k],
           \A b \in Range(cache[k]) : state[b] = "allocated" =>
               state'[b] = "allocated" /\ content'[b] = content[b]
    PROVE  Backed(k)'
<1> SUFFICES ASSUME NEW i \in DOMAIN cache[k]
             PROVE  /\ state'[cache[k][i]] = "allocated"
                    /\ content'[cache[k][i]] = Prefix(k, EndOfBlock(i, Len(k)))
  BY DEF Backed
<1>1. cache[k] \in Seq(Blocks)
  BY DEF IInv, TypeOK
<1>2. cache[k][i] \in Range(cache[k])
  BY <1>1, RangeMembers, LenProperties
<1> QED BY <1>2 DEF Backed

(* An entry filed for p is cut from the table p was given.                    *)
LEMMA NewEntryBacked ==
    ASSUME IInv, EntriesBacked, NEW r \in Requests, NEW p \in Prompts, NEW l \in 0 .. Len(p),
           AllocateBlocks(r, p, l), ~misled', NEW k \in NewKeys(p, l)
    PROVE  Backed(k)'
<1>1. PICK j \in 1 .. BlocksFor(Len(p)) : k = Prefix(p, EndOfBlock(j, Len(p)))
  BY DEF NewKeys, PrefixKeys
<1> DEFINE e == EndOfBlock(j, Len(p))
           table == SharedBlocks(p, l) \o NextFree(BlocksFor(Len(p) - l))
<1>2. Len(p) \in Nat /\ e \in 1 .. Len(p) /\ BlocksFor(e) = j /\ BlocksFor(Len(p)) \in Nat
  BY PromptFacts, FillBounds, BlocksForBounds
<1>3. k \in Keys /\ Len(k) = e
  BY <1>1, <1>2, PromptFacts, PrefixFacts
<1>4. table \in Seq(Blocks) /\ Len(table) = BlocksFor(Len(p)) /\ tables'[r] = table
  BY AllocationFacts DEF AllocateBlocks, IInv, TypeOK
<1>5. cache'[k] = SubSeq(table, 1, j)
  BY <1>2, <1>3 DEF AllocateBlocks, CacheAfterAllocation
<1> HIDE DEF table
<1>6. /\ DOMAIN cache'[k] = 1 .. j
      /\ \A i \in 1 .. j : cache'[k][i] = table[i]
  <2>1. \A i \in 1 .. j : table[i] \in Blocks
    BY <1>2, <1>4, ElementOfSeq
  <2>2. /\ SubSeq(table, 1, j) \in Seq(Blocks) /\ Len(SubSeq(table, 1, j)) = j
        /\ \A i \in 1 .. j : SubSeq(table, 1, j)[i] = table[i]
    BY <1>2, <2>1, SubSeqProperties
  <2> QED BY <1>5, <2>2, LenProperties
<1> SUFFICES ASSUME NEW i \in 1 .. j
             PROVE  /\ state'[table[i]] = "allocated"
                    /\ content'[table[i]] = Prefix(k, EndOfBlock(i, e))
  BY <1>3, <1>6 DEF Backed
<1>7. /\ state'[table[i]] = "allocated"
      /\ content'[table[i]] = Prefix(p, EndOfBlock(i, Len(p)))
  BY <1>2, <1>4, NewTableSound
<1>8. e = Len(p) \/ \E m \in Nat : e = m * BlockSize
  BY <1>2 DEF EndOfBlock
<1> HIDE DEF e
<1>9. EndOfBlock(i, e) = EndOfBlock(i, Len(p)) /\ EndOfBlock(i, e) \in 1 .. e
  BY <1>2, <1>8, EndOfBlockInPrefix
<1>10. Prefix(k, EndOfBlock(i, e)) = Prefix(p, EndOfBlock(i, Len(p)))
  BY <1>1, <1>2, <1>9, PrefixOfPrefix DEF e
<1> QED BY <1>7, <1>10

LEMMA AllocateSound ==
    ASSUME IInv, Soundness, NEW r \in Requests, NEW p \in Prompts, NEW l \in 0 .. Len(p),
           AllocateBlocks(r, p, l)
    PROVE  Soundness'
<1> DEFINE shared == SharedBlocks(p, l)
           need == BlocksFor(Len(p) - l)
           fresh == NextFree(need)
           table == shared \o fresh
<1>1. /\ Len(table) = BlocksFor(Len(p)) /\ table \in Seq(Blocks)
      /\ \A b \in Range(fresh) : b \in Blocks /\ state[b] = "free"
  BY AllocationFacts DEF AllocateBlocks
<1>2. /\ r \notin live
      /\ state' = [b \in Blocks |-> IF b \in Range(fresh) THEN "allocated" ELSE state[b]]
      /\ tables' = [tables EXCEPT ![r] = table]
      /\ cache' = CacheAfterAllocation(p, l, table)
      /\ live' = live \cup {r}
      /\ content' = [b \in Blocks |->
             IF b \in Range(fresh) THEN Prefix(p, EndOfBlock(PositionOf(b, table), Len(p)))
             ELSE content[b]]
      /\ prompt_of' = [prompt_of EXCEPT ![r] = p]
      /\ lapsed' = lapsed \ (Dropped(p, l) \cup NewKeys(p, l))
      /\ misled' = (misled \/ (l # 0 /\ Prefix(p, l) \in lapsed))
  BY DEF AllocateBlocks
<1> HIDE DEF fresh, shared, table, need
<1>3. /\ tables'[r] = table /\ prompt_of'[r] = p /\ live \subseteq Requests
      /\ \A s \in live : tables'[s] = tables[s] /\ prompt_of'[s] = prompt_of[s]
  BY <1>2 DEF IInv, TypeOK
<1>4. \A b \in Blocks : state[b] = "allocated" =>
          state'[b] = "allocated" /\ content'[b] = content[b]
  BY <1>1, <1>2
<1>5. TablesLong'
  <2>1. BlocksFor(Len(p)) <= Len(table)
    BY <1>1, PromptFacts, BlocksForBounds
  <2> QED BY <1>2, <1>3, <2>1 DEF Soundness, TablesLong
<1>6. ASSUME ~misled'
      PROVE  (\A s \in live' : TableSound(s)') /\ EntriesBacked'
  <2>1. /\ \A s \in live : TableSound(s)
        /\ EntriesBacked
    BY <1>2, <1>6 DEF Soundness, TablesSound, EntriesBacked
  <2>2. TableSound(r)'
    <3>1. \A i \in 1 .. BlocksFor(Len(p)) :
              content'[tables'[r][i]] = Prefix(p, EndOfBlock(i, Len(p)))
      BY <1>6, <2>1, NewTableSound
    <3> QED BY <1>3, <3>1 DEF TableSound
  <2>3. ASSUME NEW s \in live PROVE TableSound(s)'
    BY <1>3, <1>4, <2>1, TableStaysSound DEF Soundness
  <2>4. ASSUME NEW k \in Keys, Cached(k)', k \notin lapsed'
        PROVE  Backed(k)'
    <3>1. CASE k \in NewKeys(p, l)
      BY <1>6, <2>1, <3>1, NewEntryBacked
    <3>2. CASE k \notin NewKeys(p, l)
      <4>1. k \notin Dropped(p, l) /\ cache'[k] = cache[k]
        BY <1>2, <2>4, <3>2 DEF Cached, CacheAfterAllocation, CacheAfterScan
      <4>2. Backed(k) /\ Range(cache[k]) \subseteq Blocks
        BY <1>2, <2>1, <2>4, <3>2, <4>1, RangeMembers DEF EntriesBacked, Cached, IInv, TypeOK
      <4> QED BY <1>4, <4>1, <4>2, EntryStaysBacked
    <3> QED BY <3>1, <3>2
  <2> QED BY <1>2, <2>2, <2>3, <2>4 DEF EntriesBacked
<1> QED BY <1>5, <1>6 DEF Soundness, TablesSound, EntriesBacked

LEMMA AllocateFailsSound ==
    ASSUME IInv, Soundness, NEW r \in Requests, NEW p \in Prompts, NEW l \in 0 .. Len(p),
           AllocateBlocksFails(r, p, l)
    PROVE  Soundness'
<1>1. /\ r \notin live
      /\ tables' = IF l = 0 THEN tables ELSE [tables EXCEPT ![r] = <<>>]
      /\ cache' = CacheAfterScan(p, l)
      /\ lapsed' = lapsed \ Dropped(p, l)
      /\ UNCHANGED <<state, live, content, prompt_of, misled>>
  BY DEF AllocateBlocksFails, pool
<1>2. \A s \in live : tables'[s] = tables[s]
  BY <1>1 DEF IInv, TypeOK
<1>3. TablesLong'
  BY <1>1, <1>2 DEF Soundness, TablesLong
<1>4. ASSUME ~misled
      PROVE  (\A s \in live : TableSound(s)') /\ EntriesBacked'
  <2>1. (\A s \in live : TableSound(s)) /\ EntriesBacked
    BY <1>4 DEF Soundness, TablesSound, EntriesBacked
  <2>2. ASSUME NEW s \in live PROVE TableSound(s)'
    BY <1>1, <1>2, <2>1, TableStaysSound DEF Soundness
  <2>3. ASSUME NEW k \in Keys, Cached(k)', k \notin lapsed'
        PROVE  Backed(k)'
    <3>1. k \notin Dropped(p, l) /\ cache'[k] = cache[k]
      BY <1>1, <2>3 DEF Cached, CacheAfterScan
    <3>2. Backed(k)
      BY <1>1, <2>1, <2>3, <3>1 DEF EntriesBacked, Cached
    <3> QED BY <1>1, <3>1, <3>2, EntryStaysBacked
  <2> QED BY <2>2, <2>3 DEF EntriesBacked
<1> QED BY <1>1, <1>3, <1>4 DEF Soundness, TablesSound, EntriesBacked

LEMMA AppendInNewBlockSound ==
    ASSUME IInv, Soundness, NEW r \in Requests, AppendInNewBlock(r)
    PROVE  Soundness'
<1> DEFINE b == Head(free_list)
<1>1. /\ free_list # <<>>
      /\ state' = [state EXCEPT ![b] = "allocated"]
      /\ tables' = [tables EXCEPT ![r] = Append(tables[r], b)]
      /\ content' = [content EXCEPT ![b] = Generated]
      /\ UNCHANGED <<cache, live, prompt_of, lapsed, misled>>
  BY DEF AppendInNewBlock
<1>2. b \in Blocks /\ state[b] = "free"
  BY <1>1, TailInjective, RangeMembers DEF IInv, TypeOK, FreeListExact
<1> HIDE DEF b
<1>3. \A c \in Blocks : state[c] = "allocated" =>
          state'[c] = "allocated" /\ content'[c] = content[c]
  BY <1>1, <1>2 DEF IInv, TypeOK
<1>4. ASSUME NEW s \in live
      PROVE  /\ \A i \in 1 .. Len(tables[s]) : tables'[s][i] = tables[s][i]
             /\ Len(tables[s]) \in Nat /\ Len(tables'[s]) >= Len(tables[s])
  <2>1. tables[s] \in Seq(Blocks) /\ s \in Requests
    BY DEF IInv, TypeOK
  <2>2. tables'[s] = IF s = r THEN Append(tables[s], b) ELSE tables[s]
    BY <1>1, <2>1 DEF IInv, TypeOK
  <2>3. /\ Len(Append(tables[s], b)) = Len(tables[s]) + 1 /\ Len(tables[s]) \in Nat
        /\ \A i \in 1 .. Len(tables[s]) : Append(tables[s], b)[i] = tables[s][i]
    BY <1>2, <2>1, AppendProperties, LenProperties
  <2> QED BY <2>2, <2>3
<1>5. TablesLong'
  <2>1. ASSUME NEW s \in live
        PROVE  prompt_of[s] \in Prompts /\ BlocksFor(Len(prompt_of[s])) <= Len(tables'[s])
    <3>1. prompt_of[s] \in Prompts /\ BlocksFor(Len(prompt_of[s])) <= Len(tables[s])
      BY DEF Soundness, TablesLong
    <3>2. BlocksFor(Len(prompt_of[s])) \in Nat /\ Len(tables'[s]) \in Nat
      BY <3>1, PromptFacts, BlocksForBounds, AppendInNewBlockIInv, LenProperties, <1>1
         DEF IInv, TypeOK
    <3> QED BY <1>4, <3>1, <3>2
  <2> QED BY <1>1, <2>1 DEF TablesLong
<1>6. ASSUME ~misled
      PROVE  (\A s \in live : TableSound(s)') /\ EntriesBacked'
  <2>1. (\A s \in live : TableSound(s)) /\ EntriesBacked
    BY <1>6 DEF Soundness, TablesSound, EntriesBacked
  <2>2. ASSUME NEW s \in live PROVE TableSound(s)'
    BY <1>1, <1>3, <1>4, <2>1, TableStaysSound DEF Soundness
  <2>3. ASSUME NEW k \in Keys, Cached(k), k \notin lapsed
        PROVE  Backed(k)'
    <3>1. Backed(k) /\ Range(cache[k]) \subseteq Blocks
      BY <2>1, <2>3, RangeMembers DEF EntriesBacked, IInv, TypeOK
    <3> QED BY <1>1, <1>3, <3>1, EntryStaysBacked
  <2> QED BY <1>1, <2>2, <2>3 DEF EntriesBacked, Cached
<1> QED BY <1>1, <1>5, <1>6 DEF Soundness, TablesSound, EntriesBacked

LEMMA FreeRequestSound ==
    ASSUME IInv, Soundness, NEW r \in Requests, FreeRequest(r)
    PROVE  Soundness'
<1> DEFINE freed == SoleBlocks(r)
<1>1. /\ state' = [b \in Blocks |-> IF b \in freed THEN "free" ELSE state[b]]
      /\ tables' = [tables EXCEPT ![r] = <<>>]
      /\ live' = live \ {r}
      /\ prompt_of' = [prompt_of EXCEPT ![r] = <<>>]
      /\ lapsed' = lapsed \cup EntriesNaming(freed)
      /\ UNCHANGED <<cache, content, misled>>
  BY DEF FreeRequest
<1> HIDE DEF freed
<1>2. \A s \in live' : s \in live /\ tables'[s] = tables[s] /\ prompt_of'[s] = prompt_of[s]
  BY <1>1 DEF IInv, TypeOK
<1>3. TablesLong'
  BY <1>2 DEF Soundness, TablesLong
<1>4. ASSUME ~misled
      PROVE  (\A s \in live' : TableSound(s)') /\ EntriesBacked'
  <2>1. (\A s \in live : TableSound(s)) /\ EntriesBacked
    BY <1>4 DEF Soundness, TablesSound, EntriesBacked
  <2>2. ASSUME NEW s \in live' PROVE TableSound(s)'
    BY <1>1, <1>2, <2>1, TableStaysSound DEF Soundness
  <2>3. ASSUME NEW k \in Keys, Cached(k), k \notin lapsed'
        PROVE  Backed(k)'
    <3>1. Backed(k) /\ Range(cache[k]) \subseteq Blocks /\ Range(cache[k]) \cap freed = {}
      BY <1>1, <2>1, <2>3, RangeMembers DEF EntriesBacked, EntriesNaming, IInv, TypeOK
    <3> QED BY <1>1, <3>1, EntryStaysBacked
  <2> QED BY <1>1, <2>2, <2>3 DEF EntriesBacked, Cached
<1> QED BY <1>1, <1>3, <1>4 DEF Soundness, TablesSound, EntriesBacked

LEMMA StepSound == IInv /\ Soundness /\ [Next]_vars => Soundness'
<1> SUFFICES ASSUME IInv, Soundness, [Next]_vars
             PROVE  Soundness'
  OBVIOUS
<1>1. ASSUME UNCHANGED <<state, tables, cache, live, content, prompt_of, lapsed, misled>>
      PROVE  Soundness'
  BY <1>1 DEF Soundness, TablesLong, TablesSound, TableSound, Backed, Cached
<1>2. ASSUME NEW r \in Requests, AppendInPlace(r) PROVE Soundness'
  BY <1>1, <1>2 DEF AppendInPlace
<1>3. CASE Reset
  BY <1>3 DEF Reset, Soundness, TablesLong, TablesSound, Cached
<1>4. CASE UNCHANGED vars
  BY <1>1, <1>4 DEF vars
<1> QED BY <1>2, <1>3, <1>4, AllocateSound, AllocateFailsSound, AppendInNewBlockSound,
           FreeRequestSound DEF Next

LEMMA InitSound == Init => Soundness
BY DEF Init, Soundness, TablesLong, TablesSound, Cached

(* KVCacheManager.allocate_blocks: as long as no lookup was answered by an    *)
(* entry whose blocks were freed since it was cached, the blocks of a live    *)
(* request hold the KV state of its own prompt until it is freed, whatever is *)
(* shared, generated, refused or freed meanwhile.                             *)
THEOREM SharingSound == Spec => []TablesSound
<1>1. Soundness => TablesSound
  BY DEF Soundness
<1> QED BY <1>1, InitSound, StepSound, Inductive, PTL DEF Spec

-----------------------------------------------------------------------------
(* Shared blocks are full.  A block that ends where a cached prefix may end   *)
(* was filled by the prefill that wrote it; entries that are hit name such    *)
(* blocks only, and decode writes into blocks with a slot left.               *)
EndsAtBoundary(k) == k # Generated /\ Len(k) % BlockSize = 0

BoundaryBlocksFull ==
    \A b \in Blocks : state[b] = "allocated" /\ EndsAtBoundary(content[b]) =>
        token_num[b] = BlockSize

SharedBlocksFull ==
    ~misled => \A b \in Blocks : Cardinality(Holders(b)) > 1 => token_num[b] = BlockSize

Fullness == BoundaryBlocksFull /\ SharedBlocksFull

LEMMA BoundaryBlockIsFull ==
    ASSUME NEW n \in Nat, NEW i \in 1 .. BlocksFor(n), EndOfBlock(i, n) % BlockSize = 0
    PROVE  EndOfBlock(i, n) = i * BlockSize
<1> DEFINE m == n \div BlockSize
<1>1. /\ BlockSize \in Nat /\ BlockSize > 0 /\ BlocksFor(n) \in Nat /\ i \in Nat
      /\ i * BlockSize \in Nat
  BY BlocksForBounds, BlockSizeAssumption
<1>2. CASE i * BlockSize < n
  BY <1>2 DEF EndOfBlock
<1>3. CASE ~(i * BlockSize < n)
  <2>1. EndOfBlock(i, n) = n /\ n % BlockSize = 0
    BY <1>3 DEF EndOfBlock
  <2>2. m \in Nat /\ n = m * BlockSize
    BY <1>1, <2>1
  <2> HIDE DEF m
  <2>3. (m - 1) * BlockSize = m * BlockSize - BlockSize
    BY <1>1, <2>2
  <2>4. (m - 1) * BlockSize < n /\ n <= m * BlockSize
    BY <1>1, <2>2, <2>3
  <2>5. BlocksFor(n) = m
    BY <2>2, <2>4, BlocksForUnique
  <2>6. m = i + (m - i) /\ m - i \in Nat
    BY <1>1, <2>2, <2>5
  <2>7. m * BlockSize = i * BlockSize + (m - i) * BlockSize /\ (m - i) * BlockSize \in Nat
    BY <1>1, <2>6
  <2> QED BY <1>1, <1>3, <2>1, <2>2, <2>7
<1> QED BY <1>2, <1>3

(* A fresh block that ends at a boundary of the prompt is filled: it begins   *)
(* at one, as the shared blocks before it do.                                 *)
LEMMA FreshBoundaryBlockFull ==
    ASSUME NEW n \in Nat, NEW l \in 0 .. n, l % BlockSize = 0,
           NEW j \in 1 .. BlocksFor(n - l), NEW i \in 1 .. BlocksFor(n),
           i = BlocksFor(l) + j, EndOfBlock(i, n) % BlockSize = 0
    PROVE  Fill(j, n - l) = BlockSize
<1> DEFINE m == l \div BlockSize
<1>1. /\ BlockSize \in Nat /\ BlockSize > 0 /\ l \in Nat /\ n - l \in Nat
      /\ BlocksFor(n - l) \in Nat /\ j \in Nat
  BY BlocksForBounds, BlockSizeAssumption
<1>2. m \in Nat /\ l = m * BlockSize
  BY <1>1
<1> HIDE DEF m
<1>3. (m - 1) * BlockSize = m * BlockSize - BlockSize
  BY <1>1, <1>2
<1>4. BlocksFor(l) = m
  BY <1>1, <1>2, <1>3, BlocksForUnique
<1>5. i * BlockSize = m * BlockSize + j * BlockSize /\ j * BlockSize \in Nat
  BY <1>1, <1>2, <1>4
<1>6. EndOfBlock(i, n) = i * BlockSize
  BY BoundaryBlockIsFull
<1>7. EndOfBlock(j, n - l) = j * BlockSize
  BY <1>1, <1>2, <1>5, <1>6 DEF EndOfBlock
<1>8. (j - 1) * BlockSize = j * BlockSize - BlockSize
  BY <1>1
<1> QED BY <1>1, <1>5, <1>7, <1>8 DEF Fill

LEMMA AllocateFull ==
    ASSUME IInv, Soundness, Fullness, NEW r \in Requests, NEW p \in Prompts,
           NEW l \in 0 .. Len(p), AllocateBlocks(r, p, l)
    PROVE  Fullness'
<1> DEFINE shared == SharedBlocks(p, l)
           need == BlocksFor(Len(p) - l)
           fresh == NextFree(need)
           table == shared \o fresh
<1>1. /\ shared \in Seq(Blocks) /\ fresh \in Seq(Blocks) /\ table \in Seq(Blocks)
      /\ Len(fresh) = need /\ need \in Nat
      /\ Len(table) = BlocksFor(Len(p))
      /\ IsInjective(table)
      /\ Range(table) = Range(shared) \cup Range(fresh)
      /\ \A b \in Range(shared) : b \in Blocks /\ state[b] = "allocated"
      /\ \A b \in Range(fresh) : b \in Blocks /\ state[b] = "free"
  BY AllocationFacts DEF AllocateBlocks
<1>2. /\ r \notin live
      /\ state' = [b \in Blocks |-> IF b \in Range(fresh) THEN "allocated" ELSE state[b]]
      /\ token_num' = [b \in Blocks |->
             IF b \in Range(fresh) THEN Fill(PositionOf(b, fresh), Len(p) - l)
             ELSE token_num[b]]
      /\ tables' = [tables EXCEPT ![r] = table]
      /\ live' = live \cup {r}
      /\ content' = [b \in Blocks |->
             IF b \in Range(fresh) THEN Prefix(p, EndOfBlock(PositionOf(b, table), Len(p)))
             ELSE content[b]]
      /\ misled' = (misled \/ (l # 0 /\ Prefix(p, l) \in lapsed))
      /\ IsLongestHit(p, l)
  BY DEF AllocateBlocks
<1>3. Len(p) \in Nat /\ l \in Nat /\ Len(p) - l \in Nat /\ l % BlockSize = 0
  <2>1. Len(p) \in Nat /\ l \in Nat /\ Len(p) - l \in Nat
    BY PromptFacts
  <2>2. l = 0 \/ l \in AlignedLengths(p)
    BY <1>2 DEF IsLongestHit, Hits
  <2>3. 0 % BlockSize = 0
    BY BlockSizeAssumption
  <2> QED BY <2>1, <2>2, <2>3 DEF AlignedLengths
<1>4. l # 0 => /\ Prefix(p, l) \in Keys /\ Len(Prefix(p, l)) = l
               /\ Cached(Prefix(p, l)) /\ shared = cache[Prefix(p, l)]
  BY <1>2, <1>3, PromptFacts, PrefixFacts DEF IsLongestHit, Hits, SharedBlocks
<1>5. Len(shared) = BlocksFor(l) /\ (l = 0 => Range(shared) = {})
  <2>1. CASE l = 0
    BY <2>1, <1>3, BlocksForBounds DEF SharedBlocks, Range
  <2>2. CASE l # 0
    BY <1>4, <2>2 DEF IInv, EntriesWellFormed
  <2> QED BY <2>1, <2>2
<1> HIDE DEF shared, need, fresh, table
<1>6. ASSUME NEW b \in Range(fresh), EndsAtBoundary(content'[b])
      PROVE  token_num'[b] = BlockSize
  <2> DEFINE j == PositionOf(b, fresh)
             i == PositionOf(b, table)
  <2>1. j \in 1 .. need /\ fresh[j] = b
    BY <1>1, PositionFacts
  <2>2. b \in Blocks /\ i \in 1 .. BlocksFor(Len(p)) /\ table[i] = b
    BY <1>1, PositionFacts
  <2>3. i = BlocksFor(l) + j
    <3>1. /\ table = shared \o fresh /\ Len(shared) \in Nat
          /\ Len(table) = Len(shared) + Len(fresh)
      BY <1>1, LenProperties, ConcatProperties DEF table
    <3>2. Len(shared) + j \in 1 .. Len(table) /\ table[Len(shared) + j] = fresh[j]
      <4>1. Len(shared) + j \in 1 .. Len(shared) + Len(fresh) /\ Len(shared) + j > Len(shared)
        BY <1>1, <2>1, <3>1
      <4>2. (Len(shared) + j) - Len(shared) = j
        BY <1>1, <2>1, <3>1
      <4>3. (shared \o fresh)[Len(shared) + j] = fresh[(Len(shared) + j) - Len(shared)]
        BY <1>1, <4>1, ConcatProperties
      <4> QED BY <3>1, <4>1, <4>2, <4>3
    <3>3. \A m, n \in 1 .. Len(table) : table[m] = table[n] => m = n
      BY <1>1, InjectiveMembers
    <3> QED BY <1>1, <1>5, <2>1, <2>2, <3>2, <3>3
  <2>4. content'[b] = Prefix(p, EndOfBlock(i, Len(p))) /\ token_num'[b] = Fill(j, Len(p) - l)
    BY <1>2, <2>2
  <2> HIDE DEF i, j
  <2>5. EndOfBlock(i, Len(p)) \in 1 .. Len(p)
    BY <1>3, <2>2, FillBounds
  <2>6. EndOfBlock(i, Len(p)) % BlockSize = 0
    BY <1>3, <1>6, <2>4, <2>5, PrefixFacts DEF EndsAtBoundary
  <2> QED BY <1>3, <2>1, <2>2, <2>3, <2>4, <2>6, FreshBoundaryBlockFull DEF need
<1>7. \A b \in Blocks \ Range(fresh) :
          state'[b] = state[b] /\ token_num'[b] = token_num[b] /\ content'[b] = content[b]
  BY <1>2
<1>8. BoundaryBlocksFull'
  BY <1>6, <1>7 DEF Fullness, BoundaryBlocksFull
<1>9. ASSUME ~misled', NEW b \in Blocks, Cardinality(Holders(b)') > 1
      PROVE  token_num'[b] = BlockSize
  <2>1. Holders(b)' = IF b \in Range(table) THEN Holders(b) \cup {r} ELSE Holders(b)
    BY <1>1, <1>2 DEF Holders, IInv, TypeOK
  <2>2. IsFiniteSet(Holders(b)) /\ Cardinality(Holders(b)) \in Nat /\ r \notin Holders(b)
    BY <1>2, HoldersFinite DEF IInv, Holders
  <2>3. ~misled /\ (l # 0 => Prefix(p, l) \notin lapsed)
    BY <1>2, <1>9
  <2>4. CASE b \in Range(fresh)
    <3>1. Cardinality(Holders(b)) = 0
      BY <1>1, <2>4 DEF IInv, RefCountsMatchTables
    <3>2. Cardinality(Holders(b) \cup {r}) = Cardinality(Holders(b)) + 1
      BY <2>2, FS_AddElement
    <3>3. Holders(b)' = Holders(b) \cup {r}
      BY <1>1, <2>1, <2>4
    <3> QED BY <1>9, <3>1, <3>2, <3>3
  <2>5. CASE b \in Range(shared) /\ b \notin Range(fresh)
    <3> DEFINE k == Prefix(p, l)
    <3>1. l # 0 /\ Backed(k) /\ k \in Keys
      BY <1>4, <1>5, <2>3, <2>5 DEF Soundness, TablesSound
    <3>2. PICK i \in 1 .. Len(shared) : shared[i] = b
      BY <1>1, <2>5, RangeMembers
    <3>3. i \in DOMAIN cache[k] /\ i \in 1 .. BlocksFor(l)
      BY <1>1, <1>4, <1>5, <3>1, <3>2, LenProperties
    <3>4. content[b] = Prefix(k, EndOfBlock(i, l))
      BY <1>4, <3>1, <3>2, <3>3 DEF Backed
    <3>5. EndOfBlock(i, l) \in 1 .. l
      BY <1>3, <3>3, FillBounds
    <3>6. content[b] = Prefix(p, EndOfBlock(i, l)) /\ Len(content[b]) = EndOfBlock(i, l)
          /\ content[b] \in Keys
      BY <1>3, <3>4, <3>5, PrefixOfPrefix, PrefixFacts, PromptFacts
    <3>7. EndOfBlock(i, l) % BlockSize = 0
      <4>1. BlockSize \in Nat /\ BlockSize > 0 /\ i \in Nat
        BY <3>3, BlockSizeAssumption
      <4>2. EndOfBlock(i, l) = l \/ EndOfBlock(i, l) = i * BlockSize
        BY DEF EndOfBlock
      <4>3. (i * BlockSize) % BlockSize = 0
        BY <4>1
      <4> QED BY <1>3, <4>2, <4>3
    <3>8. EndsAtBoundary(content[b])
      BY <3>6, <3>7, GeneratedAssumption DEF EndsAtBoundary
    <3> QED BY <1>1, <1>7, <2>5, <3>8 DEF Fullness, BoundaryBlocksFull
  <2>6. CASE b \notin Range(table)
    BY <1>1, <1>7, <1>9, <2>1, <2>3, <2>6 DEF Fullness, SharedBlocksFull
  <2> QED BY <1>1, <2>4, <2>5, <2>6
<1> QED BY <1>8, <1>9 DEF Fullness, SharedBlocksFull

(* The block an append in place writes to has a slot left. *)
LEMMA AppendedBlockNotShared ==
    ASSUME IInv, Fullness, ~misled, NEW r \in Requests, AppendInPlace(r)
    PROVE  LET last == tables[r][Len(tables[r])]
           IN /\ last \in Blocks /\ state[last] = "allocated"
              /\ token_num[last] # BlockSize
              /\ ~(Cardinality(Holders(last)) > 1)
<1> DEFINE last == tables[r][Len(tables[r])]
<1>1. r \in live /\ tables[r] # <<>> /\ token_num[last] < BlockSize
  BY DEF AppendInPlace, HasSpace
<1>2. tables[r] \in Seq(Blocks)
  BY DEF IInv, TypeOK
<1>3. Len(tables[r]) \in 1 .. Len(tables[r])
  BY <1>1, <1>2, LenProperties, EmptySeq
<1>4. last \in Blocks /\ state[last] = "allocated"
  BY <1>1, <1>3, TableBlocksInUse
<1>5. token_num[last] \in 0 .. BlockSize
  BY <1>4 DEF IInv, TypeOK
<1>6. token_num[last] # BlockSize
  BY <1>1, <1>5, BlockSizeAssumption
<1> QED BY <1>4, <1>6 DEF Fullness, SharedBlocksFull

LEMMA AppendInPlaceFull ==
    ASSUME IInv, Fullness, NEW r \in Requests, AppendInPlace(r)
    PROVE  Fullness'
<1> DEFINE last == tables[r][Len(tables[r])]
<1>1. /\ r \in live /\ tables[r] # <<>> /\ token_num[last] < BlockSize
      /\ token_num' = [token_num EXCEPT ![last] = token_num[last] + 1]
      /\ UNCHANGED <<state, tables, live, content, misled>>
  BY DEF AppendInPlace, HasSpace
<1>2. tables[r] \in Seq(Blocks)
  BY DEF IInv, TypeOK
<1>3. Len(tables[r]) \in 1 .. Len(tables[r])
  BY <1>1, <1>2, LenProperties, EmptySeq
<1>4. last \in Blocks /\ state[last] = "allocated"
  BY <1>1, <1>3, TableBlocksInUse
<1>5. token_num[last] # BlockSize
  BY <1>1, <1>4, BlockSizeAssumption DEF IInv, TypeOK
<1> HIDE DEF last
<1>6. \A b \in Blocks : b # last => token_num'[b] = token_num[b]
  BY <1>1 DEF IInv, TypeOK
<1>7. BoundaryBlocksFull'
  BY <1>1, <1>4, <1>5, <1>6 DEF Fullness, BoundaryBlocksFull
<1>8. ASSUME ~misled, NEW b \in Blocks, Cardinality(Holders(b)) > 1
      PROVE  token_num'[b] = BlockSize
  <2>1. token_num[b] = BlockSize
    BY <1>8 DEF Fullness, SharedBlocksFull
  <2>2. b # last
    BY <1>5, <2>1
  <2> QED BY <1>6, <2>1, <2>2
<1>9. \A b \in Blocks : Holders(b)' = Holders(b)
  BY <1>1 DEF Holders
<1> QED BY <1>1, <1>7, <1>8, <1>9 DEF Fullness, SharedBlocksFull

LEMMA AppendInNewBlockFull ==
    ASSUME IInv, Fullness, NEW r \in Requests, AppendInNewBlock(r)
    PROVE  Fullness'
<1>0. Head(free_list) \in Blocks /\ state[Head(free_list)] = "free"
  BY TailInjective, RangeMembers DEF AppendInNewBlock, IInv, TypeOK, FreeListExact
<1>1. PICK b \in Blocks :
      /\ r \in live /\ state[b] = "free"
      /\ state' = [state EXCEPT ![b] = "allocated"]
      /\ token_num' = [token_num EXCEPT ![b] = 1]
      /\ tables' = [tables EXCEPT ![r] = Append(tables[r], b)]
      /\ content' = [content EXCEPT ![b] = Generated]
      /\ UNCHANGED <<live, misled>>
  BY <1>0 DEF AppendInNewBlock
<1>2. b \in Blocks /\ state[b] = "free"
  BY <1>1
<1>3. \A c \in Blocks : c # b => /\ state'[c] = state[c] /\ content'[c] = content[c]
                                 /\ token_num'[c] = token_num[c]
  BY <1>1 DEF IInv, TypeOK
<1>4. content'[b] = Generated
  BY <1>1, <1>2 DEF IInv, TypeOK
<1>5. BoundaryBlocksFull'
  BY <1>3, <1>4 DEF Fullness, BoundaryBlocksFull, EndsAtBoundary
<1>6. ASSUME NEW s \in live
      PROVE  Range(tables'[s]) = IF s = r THEN Range(tables[s]) \cup {b} ELSE Range(tables[s])
  <2>1. tables[s] \in Seq(Blocks) /\ s \in Requests
    BY DEF IInv, TypeOK
  <2>2. tables'[s] = IF s = r THEN Append(tables[s], b) ELSE tables[s]
    BY <1>1, <2>1 DEF IInv, TypeOK
  <2>3. Range(Append(tables[s], b)) = Range(tables[s]) \cup {b}
    BY <1>2, <2>1, AppendProperties DEF Range
  <2> QED BY <2>2, <2>3
<1>7. ASSUME NEW c \in Blocks, c # b PROVE Holders(c)' = Holders(c)
  <2>1. \A s \in live : c \in Range(tables'[s]) <=> c \in Range(tables[s])
    BY <1>6, <1>7
  <2>2. live' = live
    BY <1>1
  <2> QED BY <2>1, <2>2 DEF Holders
<1>8. ~(Cardinality(Holders(b)') > 1)
  <2>1. Cardinality(Holders(b)) = 0 /\ IsFiniteSet(Holders(b))
    BY <1>2, HoldersFinite DEF IInv, RefCountsMatchTables
  <2>2. Holders(b)' = {r}
    <3>1. Holders(b) = {}
      BY <2>1, FS_EmptySet
    <3>2. \A s \in live : b \notin Range(tables[s])
      BY <3>1 DEF Holders
    <3>3. \A s \in live : b \in Range(tables'[s]) <=> s = r
      BY <1>6, <3>2
    <3>4. live' = live /\ r \in live
      BY <1>1
    <3> QED BY <3>3, <3>4 DEF Holders
  <2>3. Cardinality({r}) = 1
    BY FS_Singleton
  <2> QED BY <2>2, <2>3
<1>9. ASSUME ~misled, NEW c \in Blocks, Cardinality(Holders(c)') > 1
      PROVE  token_num'[c] = BlockSize
  <2>1. c # b
    BY <1>8, <1>9
  <2>2. Holders(c)' = Holders(c) /\ token_num'[c] = token_num[c]
    BY <1>3, <1>7, <2>1
  <2> QED BY <1>9, <2>2 DEF Fullness, SharedBlocksFull
<1>10. misled' = misled
  BY <1>1
<1> QED BY <1>5, <1>9, <1>10 DEF Fullness, SharedBlocksFull

LEMMA FreeRequestFull ==
    ASSUME IInv, Fullness, NEW r \in Requests, FreeRequest(r)
    PROVE  Fullness'
<1> DEFINE freed == SoleBlocks(r)
<1>1. /\ r \in live
      /\ state' = [b \in Blocks |-> IF b \in freed THEN "free" ELSE state[b]]
      /\ token_num' = [b \in Blocks |-> IF b \in freed THEN 0 ELSE token_num[b]]
      /\ tables' = [tables EXCEPT ![r] = <<>>]
      /\ live' = live \ {r}
      /\ UNCHANGED <<content, misled>>
  BY DEF FreeRequest
<1>2. \A b \in freed : state[b] = "allocated" /\ ref_count[b] <= 1
  BY DEF SoleBlocks
<1> HIDE DEF freed
<1>3. BoundaryBlocksFull'
  BY <1>1 DEF Fullness, BoundaryBlocksFull
<1>4. ASSUME ~misled, NEW b \in Blocks, Cardinality(Holders(b)') > 1
      PROVE  token_num'[b] = BlockSize
  <2>1. Holders(b)' = Holders(b) \ {r}
    BY <1>1 DEF Holders, IInv, TypeOK
  <2>2. IsFiniteSet(Holders(b)) /\ Cardinality(Holders(b)) \in Nat
    BY HoldersFinite DEF IInv
  <2>3. Cardinality(Holders(b) \ {r}) \in Nat /\ Cardinality(Holders(b) \ {r}) <= Cardinality(Holders(b))
    BY <2>2, FS_Subset, FS_CardinalityType
  <2>4. Cardinality(Holders(b)) > 1
    BY <1>4, <2>1, <2>2, <2>3
  <2>5. b \notin freed
    <3>1. ref_count[b] = Cardinality(Holders(b))
      BY DEF IInv, RefCountsMatchTables
    <3> QED BY <1>2, <2>2, <2>4, <3>1
  <2> QED BY <1>1, <1>4, <2>4, <2>5 DEF Fullness, SharedBlocksFull
<1> QED BY <1>1, <1>3, <1>4 DEF Fullness, SharedBlocksFull

LEMMA StepFull == IInv /\ Soundness /\ Fullness /\ [Next]_vars => Fullness'
<1> SUFFICES ASSUME IInv, Soundness, Fullness, [Next]_vars
             PROVE  Fullness'
  OBVIOUS
<1>1. ASSUME UNCHANGED <<state, token_num, content, misled>>,
             \A b \in Blocks : Holders(b)' = Holders(b)
      PROVE  Fullness'
  BY <1>1 DEF Fullness, BoundaryBlocksFull, SharedBlocksFull
<1>2. ASSUME NEW r \in Requests, NEW p \in Prompts, NEW l \in 0 .. Len(p), AllocateBlocksFails(r, p, l)
      PROVE  Fullness'
  <2>1. /\ r \notin live
        /\ tables' = IF l = 0 THEN tables ELSE [tables EXCEPT ![r] = <<>>]
        /\ UNCHANGED <<state, token_num, live, content, misled>>
    BY <1>2 DEF AllocateBlocksFails, pool
  <2>2. \A s \in live : tables'[s] = tables[s]
    BY <2>1 DEF IInv, TypeOK
  <2> QED BY <1>1, <2>1, <2>2 DEF Holders
<1>3. CASE Reset
  <2>1. /\ state' = [b \in Blocks |-> "free"] /\ live' = {}
        /\ \A b \in Blocks : Holders(b)' = {}
    BY <1>3 DEF Reset, Holders
  <2> QED BY <2>1, FS_EmptySet DEF Fullness, BoundaryBlocksFull, SharedBlocksFull
<1>4. CASE UNCHANGED vars
  BY <1>1, <1>4 DEF vars, pool, Holders
<1> QED BY <1>2, <1>3, <1>4, AllocateFull, AppendInPlaceFull, AppendInNewBlockFull,
           FreeRequestFull DEF Next

LEMMA InitFull == Init => Fullness
<1> SUFFICES ASSUME Init PROVE Fullness
  OBVIOUS
<1>1. \A b \in Blocks : state[b] = "free" /\ Holders(b) = {}
  BY DEF Init, Holders
<1> QED BY <1>1, FS_EmptySet DEF Fullness, BoundaryBlocksFull, SharedBlocksFull

LEMMA StepReadOnly ==
    IInv /\ Fullness /\ [Next]_vars =>
        Reset \/ \A b \in Blocks : ~misled /\ Cardinality(Holders(b)) > 1 =>
                     token_num'[b] = token_num[b]
<1> SUFFICES ASSUME IInv, Fullness, [Next]_vars, ~Reset, ~misled,
                    NEW b \in Blocks, Cardinality(Holders(b)) > 1
             PROVE  token_num'[b] = token_num[b]
  OBVIOUS
<1>0. /\ ref_count[b] = Cardinality(Holders(b)) /\ Cardinality(Holders(b)) \in Nat
      /\ state[b] # "free" /\ ~(ref_count[b] <= 1)
  BY HoldersFinite DEF IInv, RefCountsMatchTables
<1>1. ASSUME NEW r \in Requests, NEW p \in Prompts, NEW l \in 0 .. Len(p), AllocateBlocks(r, p, l)
      PROVE  token_num'[b] = token_num[b]
  <2>1. b \notin Range(NextFree(BlocksFor(Len(p) - l)))
    BY <1>0, <1>1, AllocationFacts DEF AllocateBlocks
  <2> QED BY <1>1, <2>1 DEF AllocateBlocks
<1>2. ASSUME NEW r \in Requests, AppendInPlace(r) PROVE token_num'[b] = token_num[b]
  BY <1>2, AppendedBlockNotShared DEF AppendInPlace, IInv, TypeOK
<1>3. ASSUME NEW r \in Requests, AppendInNewBlock(r) PROVE token_num'[b] = token_num[b]
  <2>1. state[Head(free_list)] = "free"
    BY <1>3, TailInjective DEF AppendInNewBlock, IInv, TypeOK, FreeListExact
  <2> QED BY <1>0, <1>3, <2>1 DEF AppendInNewBlock, IInv, TypeOK
<1>4. ASSUME NEW r \in Requests, FreeRequest(r) PROVE token_num'[b] = token_num[b]
  BY <1>0, <1>4 DEF FreeRequest, SoleBlocks
<1>5. ASSUME NEW r \in Requests, NEW p \in Prompts, NEW l \in 0 .. Len(p), AllocateBlocksFails(r, p, l)
      PROVE  token_num'[b] = token_num[b]
  BY <1>5 DEF AllocateBlocksFails, pool
<1>6. CASE UNCHANGED vars
  BY <1>6 DEF vars
<1> QED BY <1>1, <1>2, <1>3, <1>4, <1>5, <1>6 DEF Next

(* Prefix sharing hands out full blocks only: with no lapsed hit, decode      *)
(* never writes a token into a block that two requests share.                 *)
THEOREM SharedNeverWritten == Spec => SharedBlocksReadOnly
<1>1. Spec => [](IInv /\ Fullness)
  BY Inductive, InitSound, StepSound, InitFull, StepFull, PTL DEF Spec
<1> QED BY <1>1, StepReadOnly, PTL DEF Spec, SharedBlocksReadOnly

-----------------------------------------------------------------------------
(* The slots of a table: all but its last block are counted full.  The        *)
(* lemmas below say what each operation does to them; the engine composes     *)
(* them with the counts of the scheduler.                                     *)
LastBlock(r) == tables[r][Len(tables[r])]

TableSlots(r) ==
    IF tables[r] = <<>> THEN 0 ELSE (Len(tables[r]) - 1) * BlockSize + token_num[LastBlock(r)]

LEMMA LastBlockFacts ==
    ASSUME IInv, NEW r \in live, tables[r] # <<>>
    PROVE  /\ Len(tables[r]) \in Nat /\ Len(tables[r]) > 0
           /\ LastBlock(r) \in Range(tables[r])
           /\ LastBlock(r) \in Blocks /\ state[LastBlock(r)] = "allocated"
           /\ token_num[LastBlock(r)] \in 0 .. BlockSize
<1>1. r \in Requests /\ tables[r] \in Seq(Blocks)
  BY DEF IInv, TypeOK
<1>2. Len(tables[r]) \in Nat /\ Len(tables[r]) \in 1 .. Len(tables[r])
  BY <1>1, LenProperties, EmptySeq
<1>3. LastBlock(r) \in Range(tables[r]) /\ LastBlock(r) \in Blocks
  BY <1>1, <1>2, RangeMembers DEF LastBlock
<1>4. state[LastBlock(r)] = "allocated"
  BY <1>2, TableBlocksInUse DEF LastBlock
<1> QED BY <1>2, <1>3, <1>4 DEF IInv, TypeOK

LEMMA SlotsTyped ==
    ASSUME IInv, NEW r \in live
    PROVE  TableSlots(r) \in Nat
<1>1. CASE tables[r] = <<>>
  BY <1>1 DEF TableSlots
<1>2. CASE tables[r] # <<>>
  <2>1. /\ Len(tables[r]) - 1 \in Nat /\ token_num[LastBlock(r)] \in Nat /\ BlockSize \in Nat
    BY <1>2, LastBlockFacts, BlockSizeAssumption
  <2>2. (Len(tables[r]) - 1) * BlockSize \in Nat
    BY <2>1
  <2> QED BY <1>2, <2>1, <2>2 DEF TableSlots
<1> QED BY <1>1, <1>2

(* Nothing about a table changes while it and its blocks' counts do not. *)
OtherTableKept(q) ==
    /\ tables'[q] = tables[q]
    /\ \A b \in Range(tables[q]) : token_num'[b] = token_num[b]

LEMMA SlotsStay ==
    ASSUME IInv, NEW q \in live, OtherTableKept(q)
    PROVE  /\ TableSlots(q)' = TableSlots(q)
           /\ tables[q] # <<>> => token_num'[LastBlock(q)'] = token_num[LastBlock(q)]
<1>1. tables'[q] = tables[q] /\ LastBlock(q)' = LastBlock(q)
  BY DEF OtherTableKept, LastBlock
<1>2. tables[q] # <<>> => token_num'[LastBlock(q)] = token_num[LastBlock(q)]
  BY LastBlockFacts DEF OtherTableKept
<1> QED BY <1>1, <1>2 DEF TableSlots

(* The block of a live table is held by its request. *)
LEMMA TableHeld ==
    ASSUME IInv, NEW r \in live, NEW b \in Range(tables[r])
    PROVE  /\ b \in Blocks /\ r \in Holders(b)
           /\ state[b] = "allocated" /\ IsFiniteSet(Holders(b))
<1>1. r \in Requests /\ tables[r] \in Seq(Blocks)
  BY DEF IInv, TypeOK
<1>2. \E i \in 1 .. Len(tables[r]) : b = tables[r][i]
  BY <1>1, RangeMembers
<1>3. state[b] = "allocated" /\ b \in Blocks
  BY <1>2, TableBlocksInUse
<1>4. r \in Holders(b)
  BY DEF Holders
<1> QED BY <1>3, <1>4, HoldersFinite DEF IInv

LEMMA TwoHolders ==
    ASSUME NEW S, IsFiniteSet(S), NEW x \in S, NEW y \in S, x # y
    PROVE  Cardinality(S) > 1
<1>1. Cardinality(S) \in Nat /\ Cardinality(S \ {x}) = Cardinality(S) - 1
  BY FS_CardinalityType, FS_RemoveElement
<1>2. IsFiniteSet(S \ {x}) /\ S \ {x} # {}
  BY FS_RemoveElement
<1>3. Cardinality(S \ {x}) \in Nat /\ Cardinality(S \ {x}) # 0
  BY <1>2, FS_CardinalityType, FS_EmptySet
<1> QED BY <1>1, <1>3

(* allocate_blocks: the table has a slot for each token of the prompt, no     *)
(* more, and the tables of the others keep theirs.                            *)
LEMMA AllocateKeepsOthers ==
    ASSUME IInv, NEW r \in Requests, NEW p \in Prompts, NEW l \in 0 .. Len(p),
           AllocateBlocks(r, p, l), NEW q \in live
    PROVE  OtherTableKept(q)
<1> DEFINE need == BlocksFor(Len(p) - l)
           fresh == NextFree(need)
<1>1. /\ r \notin live /\ IsLongestHit(p, l) /\ need <= Len(free_list)
      /\ tables' = [tables EXCEPT ![r] = SharedBlocks(p, l) \o fresh]
      /\ \A b \in Blocks : b \notin Range(fresh) => token_num'[b] = token_num[b]
  BY DEF AllocateBlocks
<1>2. \A b \in Range(fresh) : state[b] = "free"
  BY <1>1, AllocationFacts
<1>3. tables'[q] = tables[q]
  BY <1>1 DEF IInv, TypeOK
<1> HIDE DEF fresh
<1> QED BY <1>1, <1>2, <1>3, TableHeld DEF OtherTableKept

LEMMA NewTableSlots ==
    ASSUME IInv, IInv', Fullness', NEW r \in Requests, NEW p \in Prompts,
           NEW l \in 0 .. Len(p), AllocateBlocks(r, p, l), ~misled'
    PROVE  /\ TableSlots(r)' = Len(p)
           /\ tables'[r] # <<>> => token_num'[LastBlock(r)'] > 0
<1> DEFINE n == Len(p)
           need == BlocksFor(n - l)
           shared == SharedBlocks(p, l)
           fresh == NextFree(need)
           table == shared \o fresh
           last == table[Len(table)]
<1>1. /\ IsLongestHit(p, l) /\ need <= Len(free_list) /\ r \notin live
      /\ tables' = [tables EXCEPT ![r] = table]
      /\ live' = live \cup {r}
      /\ token_num' = [b \in Blocks |-> IF b \in Range(fresh)
                                        THEN Fill(PositionOf(b, fresh), n - l)
                                        ELSE token_num[b]]
  BY DEF AllocateBlocks
<1>2. /\ need \in Nat /\ shared \in Seq(Blocks) /\ fresh \in Seq(Blocks)
      /\ table \in Seq(Blocks) /\ Len(fresh) = need /\ Len(table) = BlocksFor(n)
      /\ \A b \in Range(shared) : b \in Blocks /\ state[b] = "allocated"
      /\ \A b \in Range(fresh) : b \in Blocks /\ state[b] = "free"
      /\ IsInjective(fresh)
  <2>1. IsInjective(table)
    BY <1>1, AllocationFacts
  <2> HIDE DEF table
  <2>2. /\ need \in Nat /\ shared \in Seq(Blocks) /\ fresh \in Seq(Blocks)
        /\ table \in Seq(Blocks) /\ Len(fresh) = need /\ Len(table) = BlocksFor(n)
        /\ \A b \in Range(shared) : b \in Blocks /\ state[b] = "allocated"
        /\ \A b \in Range(fresh) : b \in Blocks /\ state[b] = "free"
    BY <1>1, AllocationFacts DEF table
  <2>3. IsInjective(fresh)
    BY <2>1, <2>2, SplitInjective DEF table
  <2> QED BY <2>2, <2>3
<1>3. /\ tables'[r] = table /\ TableSlots(r)' = (IF table = <<>> THEN 0
                                ELSE (Len(table) - 1) * BlockSize + token_num'[last])
      /\ LastBlock(r)' = last
  <2> HIDE DEF table
  <2>1. tables'[r] = table
    BY <1>1 DEF IInv, TypeOK
  <2> QED BY <2>1 DEF TableSlots, LastBlock
<1>4. /\ n \in Nat /\ l \in Nat /\ n - l \in Nat /\ l <= n
      /\ BlockSize \in Nat /\ BlockSize > 0 /\ l % BlockSize = 0
  <2>1. l % BlockSize = 0
    BY <1>1, BlockSizeAssumption DEF IsLongestHit, Hits, AlignedLengths
  <2> QED BY <2>1, PromptFacts, BlockSizeAssumption
<1>5. BlocksFor(l) \in Nat /\ BlocksFor(l) + need = BlocksFor(n) /\ BlocksFor(l) * BlockSize = l
  <2>1. BlocksFor(l) \in Nat /\ BlocksFor(l) + need = BlocksFor(n)
    BY <1>4, BlocksForBounds, BlocksForSplit
  <2>2. BlocksFor(l) * BlockSize = l
    <3> DEFINE k == l \div BlockSize
    <3>1. l = k * BlockSize /\ k \in Nat
      BY <1>4
    <3> HIDE DEF k
    <3>2. (k - 1) * BlockSize < l
      BY <1>4, <3>1
    <3>3. BlocksFor(l) = k
      BY <1>4, <3>1, <3>2, BlocksForUnique
    <3> QED BY <3>1, <3>3
  <2> QED BY <2>1, <2>2
<1>6. CASE n = 0
  <2>1. Len(table) = 0
    BY <1>2, <1>6, BlocksForBounds
  <2>2. table = <<>>
    BY <1>2, <2>1, EmptySeq
  <2> QED BY <1>3, <1>6, <2>2
<1>7. CASE n > 0 /\ need > 0
  <2>1. /\ Len(shared) = BlocksFor(l) /\ Len(table) = BlocksFor(l) + need
        /\ last = fresh[need]
    <3>1. Len(table) = Len(shared) + Len(fresh)
      BY <1>2, ConcatProperties
    <3>2. Len(shared) \in Nat /\ Len(table) \in 1 .. Len(shared) + Len(fresh)
          /\ Len(table) > Len(shared)
      BY <1>2, <1>7, <3>1, LenProperties
    <3>3. last = fresh[Len(table) - Len(shared)]
      BY <1>2, <3>2, ConcatProperties
    <3> QED BY <1>2, <1>5, <3>1, <3>2, <3>3
  <2>2. last \in Range(fresh) /\ last \in Blocks /\ PositionOf(last, fresh) = need
    <3>1. need \in 1 .. Len(fresh)
      BY <1>2, <1>7
    <3>2. last \in Range(fresh)
      BY <1>2, <2>1, <3>1, RangeMembers
    <3>3. PositionOf(last, fresh) \in 1 .. Len(fresh) /\ fresh[PositionOf(last, fresh)] = last
      BY <1>2, <3>2, PositionFacts
    <3> QED BY <1>2, <2>1, <3>1, <3>2, <3>3, InjectiveMembers
  <2>3. token_num'[last] = Fill(need, n - l)
    BY <1>1, <2>2
  <2>4. /\ (need - 1) * BlockSize < n - l /\ n - l <= need * BlockSize
        /\ Fill(need, n - l) = n - l - (need - 1) * BlockSize
    <3>1. (need - 1) * BlockSize < n - l /\ n - l <= need * BlockSize
      BY <1>4, BlocksForBounds
    <3>2. need * BlockSize \in Nat
      BY <1>2, <1>4
    <3>3. EndOfBlock(need, n - l) = n - l
      BY <1>4, <3>1, <3>2 DEF EndOfBlock
    <3> QED BY <3>1, <3>3 DEF Fill
  <2>5. (Len(table) - 1) * BlockSize = l + (need - 1) * BlockSize
    <3>1. Len(table) - 1 = BlocksFor(l) + (need - 1) /\ need - 1 \in Nat
      <4> HIDE DEF table, need
      <4> QED BY <1>2, <1>5, <1>7, <2>1
    <3>2. (BlocksFor(l) + (need - 1)) * BlockSize = BlocksFor(l) * BlockSize + (need - 1) * BlockSize
      BY <1>4, <1>5, <3>1
    <3> HIDE DEF table, need
    <3> QED BY <1>5, <3>1, <3>2
  <2>6. table # <<>>
    BY <1>2, <1>5, <1>7, <2>1
  <2>7. (need - 1) * BlockSize \in Nat
    BY <1>2, <1>4, <1>7
  <2>8. TableSlots(r)' = n /\ token_num'[LastBlock(r)'] > 0
    <3> HIDE DEF table, last, need, n
    <3> QED BY <1>3, <1>4, <2>3, <2>4, <2>5, <2>6, <2>7
  <2> QED BY <2>8
<1>8. CASE n > 0 /\ need = 0
  <2>1. l = n
    <3>1. n - l <= need * BlockSize
      BY <1>4, BlocksForBounds
    <3> QED BY <1>4, <1>8, <3>1
  <2>2. table = shared /\ Len(table) > 0 /\ table # <<>>
    <3>1. fresh = <<>>
      BY <1>2, <1>8, EmptySeq
    <3>2. table = shared
      BY <1>2, <3>1, ConcatEmptySeq
    <3>3. BlocksFor(n) # 0
      BY <1>4, <1>8, BlocksForBounds
    <3>4. Len(table) \in Nat /\ Len(table) # 0
      BY <1>2, <1>4, <3>3, BlocksForBounds
    <3>5. table # <<>>
      BY <3>4
    <3> QED BY <3>2, <3>4, <3>5
  <2>3. last \in Range(shared) /\ last \in Range(table) /\ last \in Blocks
        /\ state[last] = "allocated"
    <3>1. Len(shared) \in 1 .. Len(shared)
      BY <1>2, <2>2, LenProperties
    <3>2. last \in Range(shared)
      BY <1>2, <2>2, <3>1, RangeMembers
    <3> QED BY <1>2, <2>2, <3>2
  <2>4. PICK q \in live : last \in Range(tables[q])
    <3>1. Holders(last) # {}
      BY <2>3, FS_EmptySet DEF IInv, RefCountsMatchTables
    <3> QED BY <3>1 DEF Holders
  <2>5. PICK b \in Blocks : b = last
    BY <2>3
  <2>6. token_num'[last] = BlockSize
    <3> HIDE DEF last, table
    <3>1. q # r /\ tables'[q] = tables[q] /\ q \in live' /\ r \in live'
      BY <1>1 DEF IInv, TypeOK
    <3>2. q \in Holders(b)' /\ r \in Holders(b)'
      BY <1>3, <2>3, <2>4, <2>5, <3>1 DEF Holders
    <3>3. Holders(b)' \subseteq Requests
      BY DEF Holders, IInv, TypeOK
    <3>4. Cardinality(Holders(b)') > 1
      BY <3>1, <3>2, <3>3, RequestsAssumption, FS_Subset, TwoHolders
    <3> QED BY <2>5, <3>4 DEF Fullness, SharedBlocksFull
  <2>7. (Len(table) - 1) * BlockSize + BlockSize = n
    <3>1. Len(table) = BlocksFor(l)
      BY <1>2, <2>1
    <3>2. (BlocksFor(l) - 1) * BlockSize = BlocksFor(l) * BlockSize - BlockSize
      BY <1>4, <1>5
    <3> QED BY <1>4, <1>5, <2>1, <3>1, <3>2
  <2>8. TableSlots(r)' = n /\ token_num'[LastBlock(r)'] > 0
    <3> HIDE DEF table, last, n
    <3> QED BY <1>3, <1>4, <2>2, <2>6, <2>7
  <2> QED BY <2>8
<1> QED BY <1>2, <1>4, <1>6, <1>7, <1>8

(* append_token: one slot more for the request, in its last block or in one   *)
(* taken from the pool, and nothing for the others.                           *)
LEMMA AppendInPlaceSlots ==
    ASSUME IInv, Fullness, ~misled, NEW r \in Requests, AppendInPlace(r)
    PROVE  /\ TableSlots(r)' = TableSlots(r) + 1
           /\ token_num'[LastBlock(r)'] > 0
           /\ \A q \in live \ {r} : OtherTableKept(q)
<1> DEFINE last == LastBlock(r)
<1>1. /\ r \in live /\ tables[r] # <<>> /\ tables' = tables
      /\ token_num' = [token_num EXCEPT ![last] = token_num[last] + 1]
  BY DEF AppendInPlace, LastBlock
<1>2. /\ last \in Range(tables[r]) /\ last \in Blocks /\ token_num[last] \in Nat
      /\ Len(tables[r]) \in Nat /\ BlockSize \in Nat
  BY <1>1, LastBlockFacts, BlockSizeAssumption
<1>3. ~(Cardinality(Holders(last)) > 1)
  BY AppendedBlockNotShared DEF LastBlock
<1>4. LastBlock(r)' = last
  BY <1>1 DEF LastBlock
<1> HIDE DEF last
<1>5. token_num'[last] = token_num[last] + 1
      /\ \A b \in Blocks : b # last => token_num'[b] = token_num[b]
  BY <1>1, <1>2 DEF IInv, TypeOK
<1>6. TableSlots(r)' = TableSlots(r) + 1
  <2>1. TableSlots(r)' = (Len(tables[r]) - 1) * BlockSize + token_num'[last]
    BY <1>1, <1>4 DEF TableSlots
  <2>2. TableSlots(r) = (Len(tables[r]) - 1) * BlockSize + token_num[last]
    BY <1>1 DEF TableSlots, last
  <2>3. (Len(tables[r]) - 1) * BlockSize \in Int
    BY <1>2
  <2> QED BY <1>2, <1>5, <2>1, <2>2, <2>3
<1>7. ASSUME NEW q \in live \ {r}, NEW b \in Range(tables[q])
      PROVE  token_num'[b] = token_num[b]
  <2>1. b \in Blocks /\ q \in Holders(b) /\ IsFiniteSet(Holders(b))
    BY <1>7, TableHeld
  <2>2. b # last
    <3>1. r \in Holders(last)
      BY <1>1, <1>2 DEF Holders
    <3> QED BY <1>3, <1>7, <2>1, <3>1, TwoHolders
  <2> QED BY <1>5, <2>1, <2>2
<1> QED BY <1>1, <1>2, <1>4, <1>5, <1>6, <1>7 DEF OtherTableKept

(* A full table has BlockSize slots for each of its blocks. *)
LEMMA FullTable ==
    ASSUME IInv, NEW r \in live, LastBlockFull(r)
    PROVE  Len(tables[r]) \in Nat /\ TableSlots(r) = Len(tables[r]) * BlockSize
<1>1. CASE tables[r] = <<>>
  BY <1>1, BlockSizeAssumption DEF TableSlots
<1>2. CASE tables[r] # <<>>
  <2>1. /\ Len(tables[r]) \in Nat /\ token_num[LastBlock(r)] \in 0 .. BlockSize
        /\ ~(token_num[LastBlock(r)] < BlockSize) /\ BlockSize \in Nat
    BY <1>2, LastBlockFacts, BlockSizeAssumption DEF LastBlockFull, HasSpace, LastBlock
  <2>2. (Len(tables[r]) - 1) * BlockSize = Len(tables[r]) * BlockSize - BlockSize
    BY <2>1
  <2>3. token_num[LastBlock(r)] = BlockSize
    BY <2>1
  <2> QED BY <1>2, <2>1, <2>2, <2>3 DEF TableSlots
<1> QED BY <1>1, <1>2

LEMMA AppendInNewBlockSlots ==
    ASSUME IInv, NEW r \in Requests, AppendInNewBlock(r)
    PROVE  /\ TableSlots(r)' = TableSlots(r) + 1
           /\ token_num'[LastBlock(r)'] > 0
           /\ \A q \in live \ {r} : OtherTableKept(q)
<1>0. Head(free_list) \in Blocks /\ state[Head(free_list)] = "free"
  BY TailInjective, RangeMembers DEF AppendInNewBlock, IInv, TypeOK, FreeListExact
<1>1. PICK b \in Blocks :
          /\ state[b] = "free" /\ r \in live
          /\ tables' = [tables EXCEPT ![r] = Append(tables[r], b)]
          /\ token_num' = [token_num EXCEPT ![b] = 1]
  BY <1>0 DEF AppendInNewBlock
<1>2. TableSlots(r) = Len(tables[r]) * BlockSize /\ Len(tables[r]) \in Nat
  BY <1>1, FullTable DEF AppendInNewBlock
<1>3. /\ tables[r] \in Seq(Blocks) /\ tables'[r] = Append(tables[r], b)
      /\ token_num'[b] = 1 /\ \A c \in Blocks : c # b => token_num'[c] = token_num[c]
      /\ \A q \in live \ {r} : tables'[q] = tables[q]
  BY <1>1 DEF IInv, TypeOK
<1>4. /\ tables'[r] # <<>> /\ Len(tables'[r]) = Len(tables[r]) + 1
      /\ tables'[r][Len(tables'[r])] = b
  BY <1>2, <1>3, AppendProperties
<1>5. TableSlots(r)' = Len(tables[r]) * BlockSize + 1 /\ LastBlock(r)' = b
  <2>1. LastBlock(r)' = b
    BY <1>4 DEF LastBlock
  <2>2. TableSlots(r)' = (Len(tables[r]) + 1 - 1) * BlockSize + 1
    BY <1>3, <1>4, <2>1 DEF TableSlots
  <2>3. Len(tables[r]) + 1 - 1 = Len(tables[r])
    BY <1>2
  <2> QED BY <2>1, <2>2, <2>3
<1>6. ASSUME NEW q \in live \ {r}, NEW c \in Range(tables[q])
      PROVE  token_num'[c] = token_num[c]
  <2>1. c \in Blocks /\ state[c] = "allocated"
    BY <1>6, TableHeld
  <2> QED BY <1>1, <1>3, <2>1
<1> QED BY <1>2, <1>3, <1>5, <1>6 DEF OtherTableKept

(* A failed allocation touches no live table, and free_request leaves alone   *)
(* the blocks that another table names.                                       *)
LEMMA FailKeepsOthers ==
    ASSUME IInv, NEW r \in Requests, NEW p, NEW l,
           AllocateBlocksFails(r, p, l), NEW q \in live
    PROVE  OtherTableKept(q)
<1>1. /\ r \notin live /\ token_num' = token_num
      /\ tables' = tables \/ tables' = [tables EXCEPT ![r] = <<>>]
  BY DEF AllocateBlocksFails, pool
<1> QED BY <1>1 DEF IInv, TypeOK, OtherTableKept

LEMMA FreeKeepsOthers ==
    ASSUME IInv, NEW r \in Requests, FreeRequest(r), NEW q \in live \ {r}
    PROVE  OtherTableKept(q)
<1>1. /\ r \in live /\ tables' = [tables EXCEPT ![r] = <<>>]
      /\ \A b \in Blocks : b \notin SoleBlocks(r) => token_num'[b] = token_num[b]
  BY DEF FreeRequest
<1>2. ASSUME NEW b \in Range(tables[q]) PROVE b \in Blocks /\ b \notin SoleBlocks(r)
  <2>1. /\ b \in Blocks /\ q \in Holders(b) /\ IsFiniteSet(Holders(b))
        /\ ref_count[b] = Cardinality(Holders(b)) /\ ref_count[b] \in Nat
    BY TableHeld DEF IInv, RefCountsMatchTables, TypeOK
  <2>2. b \in Range(tables[r]) => r \in Holders(b)
    BY <1>1 DEF Holders
  <2>3. b \in Range(tables[r]) => ref_count[b] > 1
    BY <2>1, <2>2, TwoHolders
  <2> QED BY <2>1, <2>3 DEF SoleBlocks
<1>3. tables'[q] = tables[q]
  BY <1>1 DEF IInv, TypeOK
<1> QED BY <1>1, <1>2, <1>3 DEF OtherTableKept

-----------------------------------------------------------------------------
(* The books of the pool: the blocks that are not free are those the live     *)
(* tables name.                                                               *)
InUse == UNION {Range(tables[r]) : r \in live}

LEMMA PoolAccounting ==
    ASSUME IInv
    PROVE  /\ IsFiniteSet(InUse) /\ Cardinality(InUse) \in Nat
           /\ Len(free_list) \in Nat
           /\ Len(free_list) + Cardinality(InUse) = NumBlocks
           /\ live = {} => Range(free_list) = Blocks
<1>1. InUse = {b \in Blocks : state[b] # "free"}
  <2>1. ASSUME NEW b \in InUse PROVE b \in Blocks /\ state[b] # "free"
    <3>1. PICK r \in live : b \in Range(tables[r])
      BY <2>1 DEF InUse
    <3> QED BY <3>1, TableHeld
  <2>2. ASSUME NEW b \in Blocks, state[b] # "free" PROVE b \in InUse
    <3>1. Holders(b) # {}
      BY <2>2, FS_EmptySet DEF IInv, RefCountsMatchTables
    <3> QED BY <3>1 DEF Holders, InUse
  <2> QED BY <2>1, <2>2
<1>2. InUse \cup Range(free_list) = Blocks /\ InUse \cap Range(free_list) = {}
  <2>1. Range(free_list) \subseteq Blocks
    BY RangeMembers DEF IInv, TypeOK
  <2> QED BY <1>1, <2>1 DEF IInv, FreeListExact
<1>3. IsFiniteSet(Blocks) /\ Cardinality(Blocks) = NumBlocks
  BY NumBlocksAssumption, FS_Interval DEF Blocks
<1>4. IsFiniteSet(Range(free_list)) /\ Cardinality(Range(free_list)) = Len(free_list)
      /\ Len(free_list) \in Nat
  BY InjectiveCardinality, LenProperties DEF IInv, TypeOK, FreeListExact
<1>5. IsFiniteSet(InUse) /\ Cardinality(InUse) \in Nat
  BY <1>2, <1>3, FS_Subset, FS_CardinalityType
<1>6. Len(free_list) + Cardinality(InUse) = NumBlocks
  <2>1. Cardinality(InUse \cup Range(free_list)) =
            Cardinality(InUse) + Cardinality(Range(free_list))
                - Cardinality(InUse \cap Range(free_list))
    BY <1>4, <1>5, FS_Union
  <2>2. Cardinality(InUse \cap Range(free_list)) = 0
    BY <1>2, FS_EmptySet
  <2>3. Cardinality(InUse \cup Range(free_list)) = NumBlocks
    BY <1>2, <1>3
  <2> QED BY <1>4, <1>5, <2>1, <2>2, <2>3
<1>7. live = {} => Range(free_list) = Blocks
  <2>1. live = {} => InUse = {}
    BY DEF InUse
  <2> QED BY <1>2, <2>1
<1> QED BY <1>4, <1>5, <1>6, <1>7

(* A hit lives on a block some request holds. *)
LEMMA HitNeedsHolder ==
    ASSUME IInv, NEW p \in Prompts, NEW l, IsLongestHit(p, l), l # 0
    PROVE  live # {}
<1> DEFINE k == Prefix(p, l)
<1>1. l \in 1 .. Len(p) /\ Cached(k) /\ Valid(k)
  BY DEF IsLongestHit, Hits, AlignedLengths
<1>2. k \in Keys
  BY <1>1, PromptFacts
<1>3. cache[k] \in Seq(Blocks) /\ cache[k] # <<>>
  BY <1>1, <1>2 DEF IInv, TypeOK, Cached
<1>4. PICK b \in Range(cache[k]) : b \in Blocks
  <2>1. 1 \in 1 .. Len(cache[k])
    BY <1>3, LenProperties, EmptySeq
  <2> QED BY <1>3, <2>1, RangeMembers
<1>5. state[b] # "free"
  BY <1>1, <1>4 DEF Valid
<1>6. Holders(b) # {}
  BY <1>4, <1>5, FS_EmptySet DEF IInv, RefCountsMatchTables
<1> QED BY <1>6 DEF Holders
=============================================================================
