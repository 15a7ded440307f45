----------------------------- MODULE FiniteSums -----------------------------
(***************************************************************************)
(* Sums of a function over a finite set (SumFunctionOnSet of Functions),   *)
(* as the proofs about g_used_memory and about the reports of a job need   *)
(* them.  The recursion that defines them takes an arbitrary element at    *)
(* each turn; SumRemove says that any element may be taken.                *)
(*                                                                         *)
(* The induction principles are stated for sets, not for predicates: the   *)
(* set holds what satisfies the predicate.                                 *)
(***************************************************************************)
EXTENDS Integers, Functions, FiniteSetTheorems, WellFoundedInduction, TLAPS

-----------------------------------------------------------------------------
(* Induction.                                                              *)

LEMMA LeastNumber ==
    ASSUME NEW S \in SUBSET Nat, S # {}
    PROVE  \E m \in S : \A k \in S : m <= k
<1>1. PICK m \in S : \A k \in S : ~ (<<k, m>> \in OpToRel(<, Nat))
  BY NatLessThanWellFounded, WFMin
<1>2. \A k \in S : ~ (k < m)
  BY <1>1 DEF OpToRel
<1>3. \A k \in S : m <= k
  BY <1>2
<1> QED BY <1>3

LEMMA NatInductionSet ==
    ASSUME NEW G, 0 \in G, \A n \in Nat : n \in G => n + 1 \in G
    PROVE  \A n \in Nat : n \in G
<1> SUFFICES ASSUME NEW n \in Nat, n \notin G PROVE FALSE
  OBVIOUS
<1>1. Nat \ G \in SUBSET Nat /\ Nat \ G # {}
  OBVIOUS
<1>2. PICK m \in Nat \ G : \A k \in Nat \ G : m <= k
  BY <1>1, LeastNumber
<1>3. m # 0 /\ m - 1 \in Nat
  BY <1>2
<1>4. m - 1 \in G
  BY <1>2, <1>3
<1>5. (m - 1) + 1 \in G
  BY <1>3, <1>4
<1> QED BY <1>2, <1>5

\* A family of subsets that holds a set whenever it holds what is left
\* without any one of its elements holds all subsets.
LEMMA SubsetInduction ==
    ASSUME NEW S, IsFiniteSet(S), NEW G,
           \A T \in SUBSET S : (\A x \in T : T \ {x} \in G) => T \in G
    PROVE  \A T \in SUBSET S : T \in G
<1> DEFINE N == {n \in Nat : \A T \in SUBSET S : Cardinality(T) = n => T \in G}
<1>1. \A T \in SUBSET S : IsFiniteSet(T) /\ Cardinality(T) \in Nat
  BY FS_Subset, FS_CardinalityType
<1>2. 0 \in N
  <2>1. \A T \in SUBSET S : Cardinality(T) = 0 => T = {}
    BY <1>1, FS_EmptySet
  <2> QED BY <2>1
<1>3. ASSUME NEW n \in Nat, n \in N PROVE n + 1 \in N
  <2> SUFFICES ASSUME NEW T \in SUBSET S, Cardinality(T) = n + 1 PROVE T \in G
    OBVIOUS
  <2>1. ASSUME NEW x \in T PROVE T \ {x} \in G
    <3>1. Cardinality(T \ {x}) = n
      BY <1>1, FS_RemoveElement
    <3> QED BY <1>3, <3>1
  <2> QED BY <2>1
<1> HIDE DEF N
<1>4. \A n \in Nat : n \in N
  BY <1>2, <1>3, NatInductionSet
<1> QED BY <1>1, <1>4 DEF N

-----------------------------------------------------------------------------
(* The recursion.                                                          *)

Pick(T) == CHOOSE x \in T : TRUE
Step(f, g, T) == IF T = {} THEN 0 ELSE f[Pick(T)] + g[T \ {Pick(T)}]
Sums(f, g, S) == g = [T \in SUBSET S |-> Step(f, g, T)]

LEMMA SumsExist ==
    ASSUME NEW f, NEW S, IsFiniteSet(S)
    PROVE  \E g : Sums(f, g, S)
<1> DEFINE Upto(n) == {T \in SUBSET S : Cardinality(T) <= n}
           Has(n) == \E g : g = [T \in Upto(n) |-> Step(f, g, T)]
           N == {n \in Nat : Has(n)}
<1>1. \A T \in SUBSET S : IsFiniteSet(T) /\ Cardinality(T) \in Nat
  BY FS_Subset, FS_CardinalityType
<1>2. ASSUME NEW n \in Nat, NEW T \in Upto(n + 1), T # {}
      PROVE  T \ {Pick(T)} \in Upto(n)
  <2>1. Pick(T) \in T
    BY <1>2 DEF Pick
  <2>2. Cardinality(T \ {Pick(T)}) = Cardinality(T) - 1
    BY <1>1, <2>1, FS_RemoveElement
  <2>3. Cardinality(T) \in Nat /\ Cardinality(T) <= n + 1
    BY <1>1
  <2> QED BY <2>2, <2>3
<1>3. 0 \in N
  <2>1. \A T \in Upto(0) : T = {}
    BY <1>1, FS_EmptySet
  <2> DEFINE g == [T \in Upto(0) |-> 0]
  <2>2. g = [T \in Upto(0) |-> Step(f, g, T)]
    BY <2>1 DEF Step
  <2> QED BY <2>2
<1>4. ASSUME NEW n \in Nat, n \in N PROVE n + 1 \in N
  <2>1. PICK g : g = [T \in Upto(n) |-> Step(f, g, T)]
    BY <1>4
  <2> DEFINE h == [T \in Upto(n + 1) |-> Step(f, g, T)]
  <2>2. ASSUME NEW T \in Upto(n) PROVE T \in Upto(n + 1) /\ h[T] = g[T]
    BY <1>1, <2>1
  <2>3. ASSUME NEW T \in Upto(n + 1) PROVE Step(f, g, T) = Step(f, h, T)
    BY <1>2, <2>2 DEF Step
  <2>4. h = [T \in Upto(n + 1) |-> Step(f, h, T)]
    BY <2>3
  <2>5. Has(n + 1)
    <3> HIDE DEF h
    <3> QED BY <2>4
  <2> HIDE DEF Has
  <2> QED BY <2>5
<1> HIDE DEF N
<1>5. Cardinality(S) \in N
  BY <1>1, <1>3, <1>4, NatInductionSet
<1>6. Upto(Cardinality(S)) = SUBSET S
  <2>1. \A T \in SUBSET S : Cardinality(T) <= Cardinality(S)
    BY FS_Subset
  <2> QED BY <2>1
<1> QED BY <1>5, <1>6 DEF N, Sums

LEMMA SumsDefined ==
    ASSUME NEW f, NEW S, IsFiniteSet(S)
    PROVE  \E g : Sums(f, g, S) /\ SumFunctionOnSet(f, S) = g[S]
<1> DEFINE g == CHOOSE iter : iter = [T \in SUBSET S |-> Step(f, iter, T)]
<1>1. Sums(f, g, S)
  BY SumsExist DEF Sums
<1>2. SumFunctionOnSet(f, S) = g[S]
  BY DEF SumFunctionOnSet, FoldFunctionOnSet, MapThenFoldSet, Step, Pick
<1> QED BY <1>1, <1>2

\* Any element may be taken first.
LEMMA SumsRemove ==
    ASSUME NEW f, NEW g, NEW S, IsFiniteSet(S), Sums(f, g, S),
           \A x \in S : f[x] \in Nat
    PROVE  \A T \in SUBSET S :
               g[T] \in Nat /\ \A x \in T : g[T] = f[x] + g[T \ {x}]
<1> DEFINE Good(T) == /\ g[T] \in Nat
                      /\ \A x \in T : g[T \ {x}] \in Nat /\ g[T] = f[x] + g[T \ {x}]
           G == {T \in SUBSET S : Good(T)}
<1>1. ASSUME NEW T \in SUBSET S PROVE g[T] = Step(f, g, T)
  BY DEF Sums
<1>2. ASSUME NEW T \in SUBSET S, \A x \in T : T \ {x} \in G PROVE T \in G
  <2>1. CASE T = {}
    BY <1>1, <2>1 DEF Step
  <2>2. CASE T # {}
    <3>1. PICK p \in T : g[T] = f[p] + g[T \ {p}]
      BY <1>1, <2>2 DEF Step, Pick
    <3>2. g[T] \in Nat
      <4>1. g[T \ {p}] \in Nat /\ f[p] \in Nat
        BY <1>2
      <4> QED BY <3>1, <4>1
    <3>3. ASSUME NEW x \in T, x # p
          PROVE  g[T \ {x}] \in Nat /\ g[T] = f[x] + g[T \ {x}]
      <4>1. g[T \ {p}] = f[x] + g[(T \ {p}) \ {x}]
        BY <1>2, <3>3
      <4>2. g[T \ {x}] = f[p] + g[(T \ {x}) \ {p}]
        BY <1>2, <3>3
      <4>3. (T \ {p}) \ {x} = (T \ {x}) \ {p}
        OBVIOUS
      <4>4. g[(T \ {p}) \ {x}] \in Nat
        <5>1. T \ {p} \in G /\ x \in T \ {p}
          BY <1>2, <3>3
        <5> QED BY <5>1
      <4>5. f[x] \in Nat /\ f[p] \in Nat
        OBVIOUS
      <4> HIDE DEF G
      <4>6. g[T \ {x}] = f[p] + g[(T \ {p}) \ {x}]
        BY <4>2, <4>3
      <4> HIDE DEF G
      <4> QED BY <3>1, <4>1, <4>4, <4>5, <4>6
    <3>4. g[T \ {p}] \in Nat
      BY <1>2
    <3> QED BY <3>1, <3>2, <3>3, <3>4
  <2> QED BY <2>1, <2>2
<1> HIDE DEF G
<1>3. \A T \in SUBSET S : T \in G
  BY <1>2, SubsetInduction
<1> QED BY <1>3 DEF G

\* g gives the sum over each subset of S, whatever is taken first.
Totals(f, g, S) ==
    /\ g[{}] = 0
    /\ SumFunctionOnSet(f, S) = g[S]
    /\ \A T \in SUBSET S : g[T] \in Nat /\ \A x \in T : g[T] = f[x] + g[T \ {x}]

LEMMA SumSteps ==
    ASSUME NEW f, NEW S, IsFiniteSet(S), \A x \in S : f[x] \in Nat
    PROVE  \E g : Totals(f, g, S)
<1>1. PICK g : Sums(f, g, S) /\ SumFunctionOnSet(f, S) = g[S]
  BY SumsDefined
<1>2. g[{}] = 0
  BY <1>1 DEF Sums, Step
<1>3. Sums(f, g, S)
  BY <1>1
<1>4. \A T \in SUBSET S :
          g[T] \in Nat /\ \A x \in T : g[T] = f[x] + g[T \ {x}]
  BY <1>3, SumsRemove
<1> QED BY <1>1, <1>2, <1>4 DEF Totals

-----------------------------------------------------------------------------
(* What is used of sums.                                                   *)

LEMMA SumEmpty == ASSUME NEW f PROVE SumFunctionOnSet(f, {}) = 0
<1>1. PICK g : Sums(f, g, {}) /\ SumFunctionOnSet(f, {}) = g[{}]
  BY SumsDefined, FS_EmptySet
<1> QED BY <1>1 DEF Sums, Step

\* The sum over the image of a bijection.
LEMMA SumMoved ==
    ASSUME NEW S, NEW R, IsFiniteSet(S), NEW b \in Bijection(S, R),
           NEW f, NEW e, \A x \in S : f[x] \in Nat /\ e[b[x]] = f[x]
    PROVE  SumFunctionOnSet(e, R) = SumFunctionOnSet(f, S)
<1>1. b \in [S -> R] /\ (\A x, y \in S : b[x] = b[y] => x = y)
      /\ \A y \in R : \E x \in S : b[x] = y
  BY DEF Bijection, Injection, Surjection, IsInjective
<1>2. IsFiniteSet(R) /\ \A y \in R : e[y] \in Nat
  BY <1>1, FS_Bijection DEF ExistsBijection
<1>3. PICK g : Totals(f, g, S)
  BY SumSteps
<1>4. PICK h : Totals(e, h, R)
  BY <1>2, SumSteps
<1> DEFINE Image(T) == {b[x] : x \in T}
           G == {T \in SUBSET S : g[T] = h[Image(T)]}
<1>5. ASSUME NEW T \in SUBSET S, \A x \in T : T \ {x} \in G PROVE T \in G
  <2>1. CASE T = {}
    BY <1>3, <1>4, <2>1 DEF Totals
  <2>2. CASE T # {}
    <3>1. PICK x \in T : TRUE
      BY <2>2
    <3>2. g[T] = f[x] + g[T \ {x}]
      BY <1>3 DEF Totals
    <3>3. Image(T) \in SUBSET R /\ b[x] \in Image(T)
      BY <1>1
    <3>4. h[Image(T)] = e[b[x]] + h[Image(T) \ {b[x]}]
      <4> HIDE DEF Image
      <4> QED BY <1>4, <3>3 DEF Totals
    <3>5. Image(T) \ {b[x]} = Image(T \ {x})
      BY <1>1
    <3> QED BY <1>5, <3>2, <3>4, <3>5
  <2> QED BY <2>1, <2>2
<1> HIDE DEF G
<1>6. \A T \in SUBSET S : T \in G
  BY <1>5, SubsetInduction
<1>7. S \in G
  BY <1>6
<1>8. Image(S) = R
  BY <1>1
<1> QED BY <1>3, <1>4, <1>7, <1>8 DEF G, Totals

\* Only the values on the set matter.
LEMMA SumSame ==
    ASSUME NEW S, IsFiniteSet(S), NEW f, NEW e,
           \A x \in S : f[x] \in Nat /\ e[x] = f[x]
    PROVE  SumFunctionOnSet(e, S) = SumFunctionOnSet(f, S)
<1> DEFINE b == [x \in S |-> x]
<1>1. b \in Bijection(S, S) /\ \A x \in S : b[x] = x
  BY DEF Bijection, Injection, Surjection, IsInjective
<1> HIDE DEF b
<1> QED BY <1>1, SumMoved

LEMMA SumRemove ==
    ASSUME NEW S, IsFiniteSet(S), NEW f, \A x \in S : f[x] \in Nat, NEW x \in S
    PROVE  /\ SumFunctionOnSet(f, S) \in Nat
           /\ SumFunctionOnSet(f, S \ {x}) \in Nat
           /\ SumFunctionOnSet(f, S) = f[x] + SumFunctionOnSet(f, S \ {x})
<1> DEFINE T == S \ {x}
<1>1. T \in SUBSET S /\ IsFiniteSet(T)
  BY FS_Subset
<1>2. PICK g : Totals(f, g, S)
  BY SumSteps
<1>3. PICK h : Totals(f, h, T)
  BY <1>1, SumSteps
<1> DEFINE G == {U \in SUBSET T : h[U] = g[U]}
<1>4. ASSUME NEW U \in SUBSET T, \A y \in U : U \ {y} \in G PROVE U \in G
  <2>1. CASE U = {}
    BY <1>2, <1>3, <2>1 DEF Totals
  <2>2. CASE U # {}
    <3>1. PICK y \in U : TRUE
      BY <2>2
    <3>2. h[U] = f[y] + h[U \ {y}] /\ g[U] = f[y] + g[U \ {y}]
      BY <1>1, <1>2, <1>3 DEF Totals
    <3> QED BY <1>4, <3>2
  <2> QED BY <2>1, <2>2
<1> HIDE DEF G
<1>5. \A U \in SUBSET T : U \in G
  BY <1>1, <1>4, SubsetInduction
<1>6. T \in G
  BY <1>5
<1>7. g[S] \in Nat /\ g[S] = f[x] + g[T] /\ g[T] \in Nat
  BY <1>1, <1>2 DEF Totals
<1> QED BY <1>2, <1>3, <1>6, <1>7 DEF G, Totals

LEMMA SumType ==
    ASSUME NEW S, IsFiniteSet(S), NEW f, \A x \in S : f[x] \in Nat
    PROVE  SumFunctionOnSet(f, S) \in Nat
<1>1. CASE S = {}
  BY <1>1, SumEmpty
<1>2. CASE S # {}
  <2>1. PICK x \in S : TRUE
    BY <1>2
  <2> QED BY <2>1, SumRemove
<1> QED BY <1>1, <1>2

=============================================================================
