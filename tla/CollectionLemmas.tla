-------------------------- MODULE CollectionLemmas --------------------------
(***************************************************************************)
(* Facts about sequences that list each element once, and about sums over  *)
(* finite sets: what the proofs of the components keep needing.            *)
(***************************************************************************)
EXTENDS Integers, Sequences, FiniteSets, Functions, FiniteSetTheorems,
        SequenceTheorems, TLAPS

-----------------------------------------------------------------------------
LEMMA RangeMembers ==
    ASSUME NEW S, NEW s \in Seq(S)
    PROVE  /\ \A i \in 1 .. Len(s) : s[i] \in Range(s)
           /\ \A x \in Range(s) : \E i \in 1 .. Len(s) : x = s[i]
           /\ Range(s) \subseteq S
BY RangeEquality

LEMMA InjectiveMembers ==
    ASSUME NEW S, NEW s \in Seq(S)
    PROVE  IsInjective(s) <=> \A i, j \in 1 .. Len(s) : s[i] = s[j] => i = j
BY LenProperties DEF IsInjective

(* Cutting a list in two leaves two lists without a common block. *)
LEMMA CutInjective ==
    ASSUME NEW S, NEW s \in Seq(S), IsInjective(s), NEW n \in 0 .. Len(s)
    PROVE  LET front == SubSeq(s, 1, n)
               back == SubSeq(s, n + 1, Len(s))
           IN /\ front \in Seq(S) /\ IsInjective(front) /\ Len(front) = n
              /\ back \in Seq(S) /\ IsInjective(back)
              /\ Range(front) \cap Range(back) = {}
              /\ Range(front) \cup Range(back) = Range(s)
<1> DEFINE front == SubSeq(s, 1, n)
           back == SubSeq(s, n + 1, Len(s))
<1>1. /\ front \in Seq(S)
      /\ Len(front) = n /\ DOMAIN front = 1 .. n
      /\ \A i \in 1 .. n : front[i] = s[i]
  BY ElementOfSeq, SubSeqProperties
<1>2. /\ back \in Seq(S)
      /\ Len(back) = Len(s) - n /\ DOMAIN back = 1 .. Len(s) - n
      /\ \A i \in 1 .. Len(s) - n : back[i] = s[n + i]
  BY ElementOfSeq, SubSeqProperties
<1> HIDE DEF front, back
<1>0. Len(s) \in Nat /\ \A i, j \in 1 .. Len(s) : s[i] = s[j] => i = j
  BY InjectiveMembers
<1>3. IsInjective(front)
  <2>1. \A i, j \in 1 .. Len(front) : front[i] = front[j] => i = j
    BY <1>0, <1>1
  <2> QED BY <1>1, <2>1, InjectiveMembers
<1>4. IsInjective(back)
  <2>1. ASSUME NEW i \in 1 .. Len(back), NEW j \in 1 .. Len(back), back[i] = back[j]
        PROVE  i = j
    <3>1. n + i \in 1 .. Len(s) /\ n + j \in 1 .. Len(s) /\ s[n + i] = s[n + j]
      BY <1>0, <1>2, <2>1
    <3>2. n + i = n + j
      BY <1>0, <3>1
    <3> QED BY <1>0, <1>2, <3>2
  <2> QED BY <1>2, <2>1, InjectiveMembers
<1>5. Range(front) \cap Range(back) = {}
  <2>1. ASSUME NEW i \in 1 .. Len(front), NEW j \in 1 .. Len(back), front[i] = back[j]
        PROVE  FALSE
    <3>1. i \in 1 .. Len(s) /\ n + j \in 1 .. Len(s) /\ s[i] = s[n + j] /\ i # n + j
      BY <1>0, <1>1, <1>2, <2>1
    <3> QED BY <1>0, <3>1
  <2>2. ASSUME NEW x \in Range(front), x \in Range(back)
        PROVE  FALSE
    <3>1. PICK i \in 1 .. Len(front) : x = front[i]
      BY <1>1, RangeMembers
    <3>2. PICK j \in 1 .. Len(back) : x = back[j]
      BY <1>2, <2>2, RangeMembers
    <3> QED BY <2>1, <3>1, <3>2
  <2> QED BY <2>2
<1>6. Range(front) \cup Range(back) = Range(s)
  <2>1. ASSUME NEW i \in 1 .. Len(s)
        PROVE  s[i] \in Range(front) \cup Range(back)
    <3>1. CASE i <= n
      <4>1. i \in 1 .. Len(front) /\ front[i] = s[i]
        BY <1>0, <1>1, <3>1
      <4> QED BY <1>1, <4>1, RangeMembers
    <3>2. CASE i > n
      <4>1. i - n \in 1 .. Len(back) /\ back[i - n] = s[i]
        BY <1>0, <1>2, <3>2
      <4> QED BY <1>2, <4>1, RangeMembers
    <3> QED BY <1>0, <3>1, <3>2
  <2>2. \A i \in 1 .. Len(front) : i \in 1 .. Len(s) /\ front[i] = s[i]
    BY <1>0, <1>1
  <2>3. \A i \in 1 .. Len(back) : n + i \in 1 .. Len(s) /\ back[i] = s[n + i]
    BY <1>0, <1>2
  <2>4. \A x \in Range(front) \cup Range(back) : x \in Range(s)
    BY <1>1, <1>2, <2>2, <2>3, RangeMembers
  <2>5. \A x \in Range(s) : x \in Range(front) \cup Range(back)
    BY <2>1, RangeMembers
  <2> QED BY <2>4, <2>5
<1> QED BY <1>1, <1>2, <1>3, <1>4, <1>5, <1>6 DEF front, back

(* Two lists without a common member make one list without repetition. *)
LEMMA JoinInjective ==
    ASSUME NEW S, NEW s \in Seq(S), NEW t \in Seq(S), IsInjective(s), IsInjective(t),
           Range(s) \cap Range(t) = {}
    PROVE  /\ s \o t \in Seq(S)
           /\ IsInjective(s \o t)
           /\ Range(s \o t) = Range(s) \cup Range(t)
<1>0. /\ Len(s) \in Nat /\ \A i, j \in 1 .. Len(s) : s[i] = s[j] => i = j
      /\ Len(t) \in Nat /\ \A i, j \in 1 .. Len(t) : t[i] = t[j] => i = j
  BY InjectiveMembers
<1>1. /\ s \o t \in Seq(S)
      /\ Len(s \o t) = Len(s) + Len(t)
      /\ \A i \in 1 .. Len(s) + Len(t) :
             (s \o t)[i] = IF i <= Len(s) THEN s[i] ELSE t[i - Len(s)]
  BY ConcatProperties
<1>2. ASSUME NEW i \in 1 .. Len(s \o t), NEW j \in 1 .. Len(s \o t),
             (s \o t)[i] = (s \o t)[j]
      PROVE  i = j
  <2>1. CASE i <= Len(s) /\ j <= Len(s)
    BY <1>0, <1>1, <1>2, <2>1
  <2>2. CASE i > Len(s) /\ j > Len(s)
    <3>1. /\ i - Len(s) \in 1 .. Len(t) /\ j - Len(s) \in 1 .. Len(t)
          /\ t[i - Len(s)] = t[j - Len(s)]
      BY <1>0, <1>1, <1>2, <2>2
    <3>2. i - Len(s) = j - Len(s)
      BY <1>0, <3>1
    <3> QED BY <1>0, <1>1, <3>2
  <2>3. ASSUME NEW k \in 1 .. Len(s), NEW l \in 1 .. Len(t) PROVE s[k] # t[l]
    <3>1. s[k] \in Range(s) /\ t[l] \in Range(t)
      BY RangeMembers
    <3> QED BY <3>1
  <2>4. CASE i <= Len(s) /\ j > Len(s)
    <3>1. i \in 1 .. Len(s) /\ j - Len(s) \in 1 .. Len(t) /\ s[i] = t[j - Len(s)]
      BY <1>0, <1>1, <1>2, <2>4
    <3> QED BY <2>3, <3>1
  <2>5. CASE i > Len(s) /\ j <= Len(s)
    <3>1. j \in 1 .. Len(s) /\ i - Len(s) \in 1 .. Len(t) /\ s[j] = t[i - Len(s)]
      BY <1>0, <1>1, <1>2, <2>5
    <3> QED BY <2>3, <3>1
  <2> QED BY <1>0, <1>1, <2>1, <2>2, <2>4, <2>5
<1>3. IsInjective(s \o t)
  BY <1>1, <1>2, InjectiveMembers
<1> QED BY <1>1, <1>3, RangeConcatenation

(* One more member. *)
LEMMA AppendDistinct ==
    ASSUME NEW S, NEW s \in Seq(S), IsInjective(s), NEW x \in S, x \notin Range(s)
    PROVE  /\ Append(s, x) \in Seq(S)
           /\ IsInjective(Append(s, x))
           /\ Range(Append(s, x)) = Range(s) \cup {x}
<1>1. /\ <<x>> \in Seq(S) /\ Len(<<x>>) = 1 /\ Range(<<x>>) = {x}
      /\ \A i, j \in 1 .. Len(<<x>>) : i = j
  BY DEF Range
<1>2. IsInjective(<<x>>)
  BY <1>1, InjectiveMembers
<1>3. Append(s, x) = s \o <<x>>
  BY AppendIsConcat
<1>4. Range(s) \cap Range(<<x>>) = {}
  BY <1>1
<1>5. /\ s \o <<x>> \in Seq(S)
      /\ IsInjective(s \o <<x>>)
      /\ Range(s \o <<x>>) = Range(s) \cup Range(<<x>>)
  BY <1>1, <1>2, <1>4, JoinInjective
<1>6. Range(s) \cup Range(<<x>>) = Range(s) \cup {x}
  BY <1>1
<1> QED BY <1>3, <1>5, <1>6

(* The two halves of a list without repetition, whatever they are. *)
LEMMA SplitInjective ==
    ASSUME NEW S, NEW s \in Seq(S), NEW t \in Seq(S), IsInjective(s \o t)
    PROVE  /\ IsInjective(s) /\ IsInjective(t)
           /\ Range(s) \cap Range(t) = {}
           /\ Range(s \o t) = Range(s) \cup Range(t)
<1>1. /\ s \o t \in Seq(S)
      /\ Len(s) \in Nat /\ Len(t) \in Nat
      /\ Len(s \o t) = Len(s) + Len(t)
      /\ \A i \in 1 .. Len(s) + Len(t) :
             (s \o t)[i] = IF i <= Len(s) THEN s[i] ELSE t[i - Len(s)]
  BY ConcatProperties, LenProperties
<1>2. \A i, j \in 1 .. Len(s) + Len(t) : (s \o t)[i] = (s \o t)[j] => i = j
  BY <1>1, InjectiveMembers
<1>3. ASSUME NEW i \in 1 .. Len(s)
      PROVE  i \in 1 .. Len(s) + Len(t) /\ (s \o t)[i] = s[i]
  BY <1>1
<1>4. ASSUME NEW i \in 1 .. Len(t)
      PROVE  Len(s) + i \in 1 .. Len(s) + Len(t) /\ (s \o t)[Len(s) + i] = t[i]
  BY <1>1
<1>5. IsInjective(s)
  <2>1. \A i, j \in 1 .. Len(s) : s[i] = s[j] => i = j
    BY <1>2, <1>3
  <2> QED BY <2>1, InjectiveMembers
<1>6. IsInjective(t)
  <2>1. ASSUME NEW i \in 1 .. Len(t), NEW j \in 1 .. Len(t), t[i] = t[j]
        PROVE  i = j
    <3>1. Len(s) + i = Len(s) + j
      BY <1>2, <1>4, <2>1
    <3> QED BY <1>1, <3>1
  <2> QED BY <2>1, InjectiveMembers
<1>7. ASSUME NEW x \in Range(s), x \in Range(t)
      PROVE  FALSE
  <2>1. PICK i \in 1 .. Len(s) : x = s[i]
    BY RangeMembers
  <2>2. PICK j \in 1 .. Len(t) : x = t[j]
    BY <1>7, RangeMembers
  <2>3. i = Len(s) + j
    BY <1>2, <1>3, <1>4, <2>1, <2>2
  <2> QED BY <1>1, <2>3
<1> QED BY <1>5, <1>6, <1>7, RangeConcatenation

(* A list without its first member. *)
LEMMA TailInjective ==
    ASSUME NEW S, NEW s \in Seq(S), IsInjective(s), s # <<>>
    PROVE  /\ Head(s) \in S /\ Head(s) \in Range(s)
           /\ Tail(s) \in Seq(S) /\ IsInjective(Tail(s))
           /\ Range(Tail(s)) = Range(s) \ {Head(s)}
<1> DEFINE h == Head(s)
           t == Tail(s)
<1>1. h \in S /\ t \in Seq(S) /\ <<h>> \in Seq(S) /\ s = <<h>> \o t
  BY HeadTailProperties
<1>2. Range(<<h>>) = {h}
  BY DEF Range
<1> HIDE DEF h, t
<1>3. IsInjective(t) /\ Range(<<h>>) \cap Range(t) = {} /\ Range(s) = {h} \cup Range(t)
  BY <1>1, <1>2, SplitInjective
<1> QED BY <1>1, <1>2, <1>3 DEF h, t

(* What is in a list is its head, or in its tail. *)
LEMMA HeadAndTail ==
    ASSUME NEW S, NEW s \in Seq(S), s # <<>>
    PROVE  Range(s) = {Head(s)} \cup Range(Tail(s))
<1>1. /\ Tail(s) \in Seq(S) /\ Len(Tail(s)) = Len(s) - 1 /\ Len(s) \in Nat \ {0}
      /\ Head(s) = s[1] /\ \A i \in 1 .. Len(s) - 1 : Tail(s)[i] = s[i + 1]
  BY HeadTailProperties, LenProperties, EmptySeq
<1>2. Range(Tail(s)) = {Tail(s)[i] : i \in 1 .. Len(s) - 1}
  BY <1>1, RangeEquality
<1>3. Range(s) = {s[i] : i \in 1 .. Len(s)}
  BY RangeEquality
<1>4. ASSUME NEW i \in 1 .. Len(s) PROVE s[i] \in {Head(s)} \cup Range(Tail(s))
  <2>1. i = 1 \/ (i - 1 \in 1 .. Len(s) - 1 /\ Tail(s)[i - 1] = s[i])
    BY <1>1
  <2> QED BY <1>1, <1>2, <2>1
<1>5. \A i \in 1 .. Len(s) - 1 : i + 1 \in 1 .. Len(s) /\ Tail(s)[i] = s[i + 1]
  BY <1>1
<1> QED BY <1>1, <1>2, <1>3, <1>4, <1>5

(* The members of a list without repetition are as many as it is long. *)
LEMMA InjectiveCardinality ==
    ASSUME NEW S, NEW s \in Seq(S), IsInjective(s)
    PROVE  IsFiniteSet(Range(s)) /\ Cardinality(Range(s)) = Len(s)
<1>1. Len(s) \in Nat /\ DOMAIN s = 1 .. Len(s)
  BY LenProperties
<1>2. s \in Bijection(1 .. Len(s), Range(s))
  <2>1. s \in [1 .. Len(s) -> Range(s)]
    BY RangeMembers
  <2>2. \A x \in Range(s) : \E i \in 1 .. Len(s) : s[i] = x
    BY RangeMembers
  <2> QED BY <2>1, <2>2 DEF Bijection, Injection, Surjection
<1>3. ExistsBijection(1 .. Len(s), Range(s))
  BY <1>2 DEF ExistsBijection
<1> QED BY <1>1, <1>3, FS_NatBijection, FS_CountingElements

-----------------------------------------------------------------------------
(* Sums over finite sets.  What holds of a sum is shown on a smallest set of  *)
(* which it might fail; the strict subset ordering of a finite set has one.   *)

(* A family of subsets of a finite set has a member with no smaller one. *)
LEMMA MinimalSubset ==
    ASSUME NEW S, IsFiniteSet(S), NEW B \in SUBSET SUBSET S, B # {}
    PROVE  \E T \in B : \A U \in B : U \subseteq T => U = T
<1>1. FiniteSubsetsOf(S) = SUBSET S
  BY FS_FiniteSubsetsOfFinite
<1>2. IsWellFoundedOn(StrictSubsetOrdering(S), SUBSET S)
  BY <1>1, FS_StrictSubsetOrderingWellFounded
<1>3. \E T \in B : \A U \in B : <<U, T>> \notin StrictSubsetOrdering(S)
  BY <1>2, WFMin
<1>4. \A T, U \in B : U \subseteq T /\ U # T => <<U, T>> \in StrictSubsetOrdering(S)
  BY DEF StrictSubsetOrdering
<1> QED
  BY <1>3, <1>4

(* The element a fold takes first. *)
Pick(T) == CHOOSE x \in T : TRUE

(* g is the sum of f over each subset of S, as the fold computes it. *)
SumsOver(f, g, S) ==
    g = [T \in SUBSET S |-> IF T = {} THEN 0 ELSE f[Pick(T)] + g[T \ {Pick(T)}]]

(* The sum is the value of such a function, if there is one. *)
LEMMA SumUnfolds ==
    ASSUME NEW f, NEW S
    PROVE  SumFunctionOnSet(f, S) = (CHOOSE g : SumsOver(f, g, S))[S]
BY DEF SumFunctionOnSet, FoldFunctionOnSet, MapThenFoldSet, SumsOver, Pick

LEMMA PickIn == \A T : T # {} => Pick(T) \in T
BY DEF Pick

(* Two such functions agree wherever both are defined. *)
LEMMA SumsAgree ==
    ASSUME NEW f, NEW A, IsFiniteSet(A), NEW B, NEW g, NEW h,
           SumsOver(f, g, A), SumsOver(f, h, B)
    PROVE  \A T \in SUBSET (A \cap B) : g[T] = h[T]
<1> DEFINE Bad == {T \in SUBSET A : T \subseteq B /\ g[T] # h[T]}
<1> SUFFICES ASSUME Bad # {}
             PROVE  FALSE
  OBVIOUS
<1>1. PICK T \in Bad : \A U \in Bad : U \subseteq T => U = T
  <2> HIDE DEF Bad
  <2>1. Bad \in SUBSET SUBSET A
    BY DEF Bad
  <2> QED
    BY <2>1, MinimalSubset
<1>2. /\ g[T] = IF T = {} THEN 0 ELSE f[Pick(T)] + g[T \ {Pick(T)}]
      /\ h[T] = IF T = {} THEN 0 ELSE f[Pick(T)] + h[T \ {Pick(T)}]
  BY DEF SumsOver
<1>3. T # {}
  BY <1>2
<1>4. Pick(T) \in T
  BY <1>3, PickIn
<1>5. T \ {Pick(T)} \notin Bad
  BY <1>1, <1>4
<1>6. g[T \ {Pick(T)}] = h[T \ {Pick(T)}]
  BY <1>5
<1> QED
  BY <1>2, <1>6

(* There is one on every finite set. *)
SumOn(f, S) == CHOOSE g : SumsOver(f, g, S)

LEMMA SumsExist ==
    ASSUME NEW f, NEW S, IsFiniteSet(S)
    PROVE  \A T \in SUBSET S : SumsOver(f, SumOn(f, T), T)
<1> DEFINE Bad == {T \in SUBSET S : ~ \E g : SumsOver(f, g, T)}
<1> SUFFICES ASSUME Bad # {}
             PROVE  FALSE
  BY DEF SumOn
<1>1. PICK T \in Bad : \A U \in Bad : U \subseteq T => U = T
  <2> HIDE DEF Bad
  <2>1. Bad \in SUBSET SUBSET S
    BY DEF Bad
  <2> QED
    BY <2>1, MinimalSubset
<1> DEFINE Rest(U) == U \ {Pick(U)}
           g == [U \in SUBSET T |-> IF U = {} THEN 0
                                    ELSE f[Pick(U)] + SumOn(f, Rest(U))[Rest(U)]]
<1>2. \A U \in SUBSET T : U # T => SumsOver(f, SumOn(f, U), U)
  BY <1>1 DEF SumOn
<1>3. ASSUME NEW U \in SUBSET T, U # {}
      PROVE  /\ Rest(U) \in SUBSET T /\ Rest(U) # T
             /\ SumsOver(f, SumOn(f, Rest(U)), Rest(U))
             /\ IsFiniteSet(Rest(U))
  <2>1. Pick(U) \in U
    BY <1>3, PickIn
  <2>2. Rest(U) \in SUBSET T /\ Rest(U) # T
    BY <2>1
  <2>3. IsFiniteSet(Rest(U))
    BY <2>2, FS_Subset
  <2> QED
    BY <1>2, <2>2, <2>3
<1>4. ASSUME NEW U \in SUBSET T, U # {}
      PROVE  g[Rest(U)] = SumOn(f, Rest(U))[Rest(U)]
  <2> DEFINE V == Rest(U)
  <2>1. V \in SUBSET T /\ SumsOver(f, SumOn(f, V), V) /\ IsFiniteSet(V)
    BY <1>3, <1>4
  <2>2. CASE V = {}
    <3>1. SumOn(f, V)[V] = 0
      BY <2>1, <2>2 DEF SumsOver
    <3> QED
      BY <2>1, <2>2, <3>1
  <2>3. CASE V # {}
    <3>1. /\ Rest(V) \in SUBSET T
          /\ SumsOver(f, SumOn(f, Rest(V)), Rest(V))
      BY <1>3, <2>1, <2>3
    <3>2. \A X \in SUBSET (V \cap Rest(V)) : SumOn(f, V)[X] = SumOn(f, Rest(V))[X]
      <4> HIDE DEF V, Rest
      <4> QED
        BY <2>1, <3>1, SumsAgree
    <3>3. SumOn(f, V)[Rest(V)] = SumOn(f, Rest(V))[Rest(V)]
      BY <3>2
    <3>4. SumOn(f, V)[V] = f[Pick(V)] + SumOn(f, V)[Rest(V)]
      <4> DEFINE h == SumOn(f, V)
      <4>1. h = [X \in SUBSET V |-> IF X = {} THEN 0 ELSE f[Pick(X)] + h[X \ {Pick(X)}]]
        BY <2>1 DEF SumsOver
      <4> HIDE DEF h, V
      <4>2. h[V] = f[Pick(V)] + h[V \ {Pick(V)}]
        BY <2>3, <4>1
      <4> QED
        BY <4>2 DEF h
    <3>5. g[V] = f[Pick(V)] + SumOn(f, Rest(V))[Rest(V)]
      BY <2>1, <2>3
    <3> QED
      BY <3>3, <3>4, <3>5
  <2> QED
    BY <2>2, <2>3
<1>5. SumsOver(f, g, T)
  <2>1. \A U \in SUBSET T : g[U] = IF U = {} THEN 0 ELSE f[Pick(U)] + g[Rest(U)]
    BY <1>4
  <2>2. g = [U \in SUBSET T |-> IF U = {} THEN 0 ELSE f[Pick(U)] + g[Rest(U)]]
    <3>1. g = [U \in SUBSET T |-> g[U]]
      OBVIOUS
    <3> HIDE DEF g, Rest
    <3> QED
      BY <2>1, <3>1
  <2> QED
    BY <2>2 DEF SumsOver
<1> QED
  BY <1>1, <1>5

(* The sum over a set: nothing for the empty set, else that of any element    *)
(* and of the rest.                                                           *)
LEMMA SumOfRest ==
    ASSUME NEW f, NEW S, IsFiniteSet(S)
    PROVE  /\ S = {} => SumFunctionOnSet(f, S) = 0
           /\ S # {} => SumFunctionOnSet(f, S)
                            = f[Pick(S)] + SumFunctionOnSet(f, S \ {Pick(S)})
<1> DEFINE R == S \ {Pick(S)}
           g == SumOn(f, S)
           h == SumOn(f, R)
<1>1. SumsOver(f, g, S) /\ SumsOver(f, h, R)
  BY SumsExist
<1>2. SumFunctionOnSet(f, S) = g[S] /\ SumFunctionOnSet(f, R) = h[R]
  BY SumUnfolds DEF SumOn
<1>3. g[S] = IF S = {} THEN 0 ELSE f[Pick(S)] + g[R]
  <2> HIDE DEF g
  <2> QED
    BY <1>1 DEF SumsOver
<1>4. g[R] = h[R]
  <2> HIDE DEF g, h
  <2> QED
    BY <1>1, SumsAgree
<1> QED
  BY <1>2, <1>3, <1>4

LEMMA SumType ==
    ASSUME NEW D, IsFiniteSet(D), NEW f \in [D -> Int]
    PROVE  \A S \in SUBSET D : SumFunctionOnSet(f, S) \in Int
<1> DEFINE Bad == {S \in SUBSET D : SumFunctionOnSet(f, S) \notin Int}
<1> SUFFICES ASSUME Bad # {}
             PROVE  FALSE
  OBVIOUS
<1>1. PICK T \in Bad : \A U \in Bad : U \subseteq T => U = T
  <2> HIDE DEF Bad
  <2>1. Bad \in SUBSET SUBSET D
    BY DEF Bad
  <2> QED
    BY <2>1, MinimalSubset
<1>2. IsFiniteSet(T)
  BY FS_Subset
<1>3. T # {} /\ T \in SUBSET D /\ SumFunctionOnSet(f, T) \notin Int
  <2>1. SumFunctionOnSet(f, T) \notin Int
    BY <1>1
  <2>2. T = {} => SumFunctionOnSet(f, T) = 0
    BY <1>2, SumOfRest
  <2> QED
    BY <2>1, <2>2
<1>4. Pick(T) \in T
  BY <1>3, PickIn
<1>5. SumFunctionOnSet(f, T \ {Pick(T)}) \in Int
  BY <1>1, <1>4
<1> QED
  BY <1>2, <1>3, <1>4, <1>5, SumOfRest

(* The order in which the fold takes the elements does not matter. *)
LEMMA SumRemove ==
    ASSUME NEW D, IsFiniteSet(D), NEW f \in [D -> Int]
    PROVE  \A S \in SUBSET D : \A x \in S :
               SumFunctionOnSet(f, S) = f[x] + SumFunctionOnSet(f, S \ {x})
<1> DEFINE Sum(S) == SumFunctionOnSet(f, S)
           Bad == {S \in SUBSET D : \E x \in S : Sum(S) # f[x] + Sum(S \ {x})}
<1> SUFFICES ASSUME Bad # {}
             PROVE  FALSE
  OBVIOUS
<1>1. PICK T \in Bad : \A U \in Bad : U \subseteq T => U = T
  <2> HIDE DEF Bad
  <2>1. Bad \in SUBSET SUBSET D
    BY DEF Bad
  <2> QED
    BY <2>1, MinimalSubset
<1>2. PICK x \in T : Sum(T) # f[x] + Sum(T \ {x})
  BY <1>1
<1> DEFINE c == Pick(T)
<1>3. c \in T
  BY PickIn
<1>4. Sum(T) = f[c] + Sum(T \ {c})
  BY FS_Subset, SumOfRest
<1>5. c # x
  BY <1>2, <1>4
<1>6. Sum(T \ {c}) = f[x] + Sum((T \ {c}) \ {x})
  <2>1. T \ {c} \in SUBSET D /\ T \ {c} \notin Bad /\ x \in T \ {c}
    BY <1>1, <1>3, <1>5
  <2> QED
    BY <2>1
<1>7. Sum(T \ {x}) = f[c] + Sum((T \ {x}) \ {c})
  <2>1. T \ {x} \in SUBSET D /\ T \ {x} \notin Bad /\ c \in T \ {x}
    BY <1>1, <1>2, <1>3, <1>5
  <2> QED
    BY <2>1
<1>8. (T \ {c}) \ {x} = (T \ {x}) \ {c}
  OBVIOUS
<1>9. f[c] \in Int /\ f[x] \in Int /\ Sum((T \ {x}) \ {c}) \in Int
  BY <1>2, <1>3, SumType
<1>10. Sum((T \ {c}) \ {x}) = Sum((T \ {x}) \ {c})
  BY <1>8
<1> HIDE DEF Sum, c, Bad
<1> QED
  BY <1>2, <1>4, <1>6, <1>7, <1>9, <1>10

(* What one element more adds to a sum. *)
LEMMA SumAdd ==
    ASSUME NEW D, IsFiniteSet(D), NEW f \in [D -> Int], NEW S \in SUBSET D,
           NEW x \in D, x \notin S
    PROVE  SumFunctionOnSet(f, S \cup {x}) = SumFunctionOnSet(f, S) + f[x]
<1>1. S \cup {x} \in SUBSET D /\ (S \cup {x}) \ {x} = S
  OBVIOUS
<1>2. SumFunctionOnSet(f, S \cup {x}) = f[x] + SumFunctionOnSet(f, S)
  BY <1>1, SumRemove
<1>3. SumFunctionOnSet(f, S) \in Int
  BY SumType
<1> QED
  BY <1>2, <1>3

(* A sum of natural numbers is one. *)
LEMMA SumNat ==
    ASSUME NEW D, IsFiniteSet(D), NEW f \in [D -> Nat]
    PROVE  \A S \in SUBSET D : SumFunctionOnSet(f, S) \in Nat
<1> DEFINE Bad == {S \in SUBSET D : SumFunctionOnSet(f, S) \notin Nat}
<1> SUFFICES ASSUME Bad # {}
             PROVE  FALSE
  OBVIOUS
<1>1. PICK T \in Bad : \A U \in Bad : U \subseteq T => U = T
  <2> HIDE DEF Bad
  <2>1. Bad \in SUBSET SUBSET D
    BY DEF Bad
  <2> QED
    BY <2>1, MinimalSubset
<1>2. T \in SUBSET D /\ SumFunctionOnSet(f, T) \notin Nat /\ IsFiniteSet(T)
  BY <1>1, FS_Subset
<1>3. T # {}
  <2>1. T = {} => SumFunctionOnSet(f, T) = 0
    BY <1>2, SumOfRest
  <2> QED
    BY <1>2, <2>1
<1>4. Pick(T) \in T
  BY <1>3, PickIn
<1>5. SumFunctionOnSet(f, T \ {Pick(T)}) \in Nat
  BY <1>1, <1>4
<1>6. SumFunctionOnSet(f, T) = f[Pick(T)] + SumFunctionOnSet(f, T \ {Pick(T)})
  BY <1>2, <1>3, SumOfRest
<1>7. f[Pick(T)] \in Nat
  BY <1>2, <1>4
<1> QED
  BY <1>2, <1>5, <1>6, <1>7

(* Only the values on the set matter. *)
LEMMA SumSame ==
    ASSUME NEW D, IsFiniteSet(D), NEW f \in [D -> Int], NEW E, IsFiniteSet(E),
           NEW g \in [E -> Int]
    PROVE  \A S \in SUBSET (D \cap E) :
               (\A x \in S : f[x] = g[x]) => SumFunctionOnSet(f, S) = SumFunctionOnSet(g, S)
<1> DEFINE Bad == {S \in SUBSET (D \cap E) :
                       /\ \A x \in S : f[x] = g[x]
                       /\ SumFunctionOnSet(f, S) # SumFunctionOnSet(g, S)}
<1> SUFFICES ASSUME Bad # {}
             PROVE  FALSE
  OBVIOUS
<1>1. PICK T \in Bad : \A U \in Bad : U \subseteq T => U = T
  <2> HIDE DEF Bad
  <2>1. Bad \in SUBSET SUBSET D
    BY DEF Bad
  <2> QED
    BY <2>1, MinimalSubset
<1>2. /\ T \in SUBSET D /\ T \in SUBSET E /\ \A x \in T : f[x] = g[x]
      /\ SumFunctionOnSet(f, T) # SumFunctionOnSet(g, T)
  BY <1>1
<1>3. IsFiniteSet(T)
  BY <1>2, FS_Subset
<1>4. T # {}
  <2>1. T = {} => SumFunctionOnSet(f, T) = 0 /\ SumFunctionOnSet(g, T) = 0
    BY <1>3, SumOfRest
  <2> QED
    BY <1>2, <2>1
<1>5. PICK x \in T : TRUE
  BY <1>4
<1>6. /\ SumFunctionOnSet(f, T) = f[x] + SumFunctionOnSet(f, T \ {x})
      /\ SumFunctionOnSet(g, T) = g[x] + SumFunctionOnSet(g, T \ {x})
  BY <1>2, <1>5, SumRemove
<1>7. SumFunctionOnSet(f, T \ {x}) = SumFunctionOnSet(g, T \ {x})
  BY <1>1, <1>5
<1> QED
  BY <1>2, <1>5, <1>6, <1>7

LEMMA SumZero ==
    ASSUME NEW D, IsFiniteSet(D), NEW f \in [D -> Int], \A x \in D : f[x] = 0
    PROVE  SumFunctionOnSet(f, D) = 0
<1> DEFINE Bad == {S \in SUBSET D : SumFunctionOnSet(f, S) # 0}
<1> SUFFICES ASSUME Bad # {}
             PROVE  FALSE
  OBVIOUS
<1>1. PICK T \in Bad : \A U \in Bad : U \subseteq T => U = T
  <2> HIDE DEF Bad
  <2>1. Bad \in SUBSET SUBSET D
    BY DEF Bad
  <2> QED
    BY <2>1, MinimalSubset
<1>2. T \in SUBSET D /\ SumFunctionOnSet(f, T) # 0 /\ IsFiniteSet(T)
  BY <1>1, FS_Subset
<1>3. PICK x \in T : TRUE
  BY <1>2, SumOfRest
<1>4. SumFunctionOnSet(f, T) = f[x] + SumFunctionOnSet(f, T \ {x})
  BY <1>2, <1>3, SumRemove
<1>5. SumFunctionOnSet(f, T \ {x}) = 0
  BY <1>1, <1>3
<1> QED
  BY <1>2, <1>3, <1>4, <1>5

(* One term changes. *)
LEMMA SumExcept ==
    ASSUME NEW D, IsFiniteSet(D), NEW f \in [D -> Int], NEW g \in [D -> Int], NEW x \in D,
           \A y \in D \ {x} : g[y] = f[y]
    PROVE  SumFunctionOnSet(g, D) = SumFunctionOnSet(f, D) - f[x] + g[x]
<1> DEFINE R == D \ {x}
<1>1. R \in SUBSET D /\ R \in SUBSET (D \cap D) /\ \A y \in R : f[y] = g[y]
  OBVIOUS
<1> HIDE DEF R
<1>2. SumFunctionOnSet(f, R) = SumFunctionOnSet(g, R)
  BY <1>1, SumSame
<1>3. SumFunctionOnSet(f, D) = f[x] + SumFunctionOnSet(f, R)
  BY SumRemove DEF R
<1>4. SumFunctionOnSet(g, D) = g[x] + SumFunctionOnSet(g, R)
  BY SumRemove DEF R
<1>5. SumFunctionOnSet(f, R) \in Int /\ f[x] \in Int /\ g[x] \in Int
  BY <1>1, SumType
<1> QED
  BY <1>2, <1>3, <1>4, <1>5

(* The sum of a sum, and of a multiple.                                        *)
LEMMA SumPlus ==
    ASSUME NEW D, IsFiniteSet(D), NEW f \in [D -> Int], NEW g \in [D -> Int],
           NEW h \in [D -> Int], \A x \in D : h[x] = f[x] + g[x]
    PROVE  SumFunctionOnSet(h, D) = SumFunctionOnSet(f, D) + SumFunctionOnSet(g, D)
<1> DEFINE F(S) == SumFunctionOnSet(f, S)
           G(S) == SumFunctionOnSet(g, S)
           H(S) == SumFunctionOnSet(h, S)
           Bad == {S \in SUBSET D : H(S) # F(S) + G(S)}
<1> SUFFICES ASSUME Bad # {}
             PROVE  FALSE
  OBVIOUS
<1>1. PICK T \in Bad : \A U \in Bad : U \subseteq T => U = T
  <2> HIDE DEF Bad
  <2>1. Bad \in SUBSET SUBSET D
    BY DEF Bad
  <2> QED
    BY <2>1, MinimalSubset
<1>2. T \in SUBSET D /\ H(T) # F(T) + G(T) /\ IsFiniteSet(T)
  BY <1>1, FS_Subset
<1>3. PICK x \in T : TRUE
  <2>1. T = {} => F(T) = 0 /\ G(T) = 0 /\ H(T) = 0
    BY <1>2, SumOfRest
  <2> QED BY <1>2, <2>1
<1>4. /\ F(T) = f[x] + F(T \ {x}) /\ G(T) = g[x] + G(T \ {x}) /\ H(T) = h[x] + H(T \ {x})
      /\ F(T \ {x}) \in Int /\ G(T \ {x}) \in Int
  BY <1>2, <1>3, SumRemove, SumType
<1>5. H(T \ {x}) = F(T \ {x}) + G(T \ {x})
  BY <1>1, <1>3
<1>6. h[x] = f[x] + g[x] /\ f[x] \in Int /\ g[x] \in Int
  BY <1>2, <1>3
<1> HIDE DEF F, G, H
<1> QED
  BY <1>2, <1>4, <1>5, <1>6

LEMMA SumTimes ==
    ASSUME NEW D, IsFiniteSet(D), NEW f \in [D -> Int], NEW g \in [D -> Int], NEW c \in Int,
           \A x \in D : f[x] = g[x] * c
    PROVE  SumFunctionOnSet(f, D) = SumFunctionOnSet(g, D) * c
<1> DEFINE F(S) == SumFunctionOnSet(f, S)
           G(S) == SumFunctionOnSet(g, S)
           Bad == {S \in SUBSET D : F(S) # G(S) * c}
<1> SUFFICES ASSUME Bad # {}
             PROVE  FALSE
  OBVIOUS
<1>1. PICK T \in Bad : \A U \in Bad : U \subseteq T => U = T
  <2> HIDE DEF Bad
  <2>1. Bad \in SUBSET SUBSET D
    BY DEF Bad
  <2> QED
    BY <2>1, MinimalSubset
<1>2. T \in SUBSET D /\ F(T) # G(T) * c /\ IsFiniteSet(T)
  BY <1>1, FS_Subset
<1>3. PICK x \in T : TRUE
  <2>1. T = {} => F(T) = 0 /\ G(T) = 0
    BY <1>2, SumOfRest
  <2> QED BY <1>2, <2>1
<1>4. /\ F(T) = f[x] + F(T \ {x}) /\ G(T) = g[x] + G(T \ {x})
      /\ G(T \ {x}) \in Int
  BY <1>2, <1>3, SumRemove, SumType
<1>5. F(T \ {x}) = G(T \ {x}) * c
  BY <1>1, <1>3
<1>6. f[x] = g[x] * c /\ g[x] \in Int
  BY <1>2, <1>3
<1> HIDE DEF F, G
<1>7. (g[x] + G(T \ {x})) * c = g[x] * c + G(T \ {x}) * c
  BY <1>4, <1>6
<1> QED
  BY <1>2, <1>4, <1>5, <1>6, <1>7

(* A union has no more elements than its parts have together. *)
LEMMA CoverBound ==
    ASSUME NEW D, IsFiniteSet(D), NEW f \in [D -> Nat], NEW H,
           \A x \in D : IsFiniteSet(H[x]) /\ Cardinality(H[x]) <= f[x]
    PROVE  \A S \in SUBSET D :
               LET U == UNION {H[x] : x \in S}
               IN IsFiniteSet(U) /\ Cardinality(U) <= SumFunctionOnSet(f, S)
<1> DEFINE U(S) == UNION {H[x] : x \in S}
           Bounded(S) == IsFiniteSet(U(S)) /\ Cardinality(U(S)) <= SumFunctionOnSet(f, S)
           Bad == {S \in SUBSET D : ~Bounded(S)}
<1> SUFFICES ASSUME Bad # {}
             PROVE  FALSE
  OBVIOUS
<1>0. f \in [D -> Int]
  OBVIOUS
<1>1. PICK T \in Bad : \A V \in Bad : V \subseteq T => V = T
  <2> HIDE DEF Bad
  <2>1. Bad \in SUBSET SUBSET D
    BY DEF Bad
  <2> QED
    BY <2>1, MinimalSubset
<1>2. T # {}
  <2>1. ASSUME T = {} PROVE Bounded(T)
    <3>1. U(T) = {} /\ SumFunctionOnSet(f, T) = 0
      BY <2>1, FS_EmptySet, SumOfRest
    <3>2. IsFiniteSet(U(T)) /\ Cardinality(U(T)) = 0
      <4> HIDE DEF U
      <4> QED
        BY <3>1, FS_EmptySet
    <3> QED
      BY <3>1, <3>2
  <2> QED
    BY <2>1
<1>3. PICK x \in T : TRUE
  BY <1>2
<1> DEFINE R == T \ {x}
<1>4. IsFiniteSet(U(R)) /\ Cardinality(U(R)) <= SumFunctionOnSet(f, R)
  <2>1. R \in SUBSET D /\ R # T /\ R \subseteq T
    BY <1>3
  <2>2. Bounded(R)
    BY <1>1, <2>1
  <2> QED
    BY <2>2
<1>5. x \in D /\ f[x] \in Nat /\ IsFiniteSet(H[x]) /\ Cardinality(H[x]) <= f[x]
  BY <1>3
<1>6. U(T) = U(R) \cup H[x]
  BY <1>3
<1>7. SumFunctionOnSet(f, T) = f[x] + SumFunctionOnSet(f, R)
  BY <1>0, <1>3, SumRemove
<1>8. SumFunctionOnSet(f, R) \in Int
  BY <1>0, SumType
<1> HIDE DEF U, R
<1>9. /\ IsFiniteSet(U(R) \cup H[x])
      /\ Cardinality(U(R) \cup H[x]) =
             Cardinality(U(R)) + Cardinality(H[x]) - Cardinality(U(R) \cap H[x])
  BY <1>4, <1>5, FS_Union
<1>10. /\ Cardinality(U(R)) \in Nat /\ Cardinality(H[x]) \in Nat
       /\ Cardinality(U(R) \cap H[x]) \in Nat
  <2>1. IsFiniteSet(U(R) \cap H[x])
    BY <1>4, FS_Intersection
  <2> QED
    BY <1>4, <1>5, <2>1, FS_CardinalityType
<1>11. IsFiniteSet(U(T)) /\ Cardinality(U(T)) <= SumFunctionOnSet(f, T)
  <2>1. Cardinality(U(T)) = Cardinality(U(R)) + Cardinality(H[x]) - Cardinality(U(R) \cap H[x])
    BY <1>6, <1>9
  <2>2. IsFiniteSet(U(T))
    BY <1>6, <1>9
  <2> HIDE DEF Bad
  <2> QED
    BY <1>4, <1>5, <1>7, <1>8, <1>10, <2>1, <2>2
<1>12. ~Bounded(T)
  BY <1>1
<1> QED
  BY <1>11, <1>12
=============================================================================
