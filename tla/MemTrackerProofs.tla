-------------------------- MODULE MemTrackerProofs --------------------------
(***************************************************************************)
(* The list of ranges of a low-priority process, for any number of threads *)
(* and addresses, as long as no second init_list has dropped ranges:       *)
(* delete_mem always finds what it looks for, and with no call under way   *)
(* the list has one range for each live one, of its size unless a free of  *)
(* the address met an allocation of it.  And used memory is always the sum *)
(* of what the list and the dropped ranges hold.                           *)
(*                                                                         *)
(* None is inductive.  The list holds several ranges of one address while  *)
(* the driver's frees and allocations of it are ahead of the list's; the   *)
(* invariant counts who will claim them: the pointers the application      *)
(* holds, the threads about to hold one, and those about to delete one.    *)
(***************************************************************************)
EXTENDS MemTracker, FiniteSums, FunctionTheorems, FiniteSetTheorems,
        WellFoundedInduction, TLAPS

One(p) == IF p THEN 1 ELSE 0

\* t will hand out or delete a range of address a that is in the list.
Claims(t, a) ==
    /\ range[t].addr = a
    /\ \/ pc[t] \in {"advise", "delete"}
       \/ pc[t] = "create" /\ range[t].size = 0

\* t was given a by the driver and has not told the application.
Arrives(t, a) ==
    /\ range[t].addr = a
    /\ \/ pc[t] \in {"device", "insert", "advise"}
       \/ pc[t] = "create" /\ range[t].size > 0

Claimants(a) == {t \in Thread : Claims(t, a)}
Arriving(a) == {t \in Thread : Arrives(t, a)}

Types ==
    /\ ranges \in Seq(MemRange)
    /\ pc \in [Thread \cup Manager -> Steps]
    /\ range \in [Thread -> MemRange]
    /\ live \in [Addr -> 0 .. MaxSize] /\ owned \in [Addr -> Nat]
    /\ failures \in 0 .. MaxFailures /\ intact \in BOOLEAN /\ reused \subseteq Addr

\* Sizes tell allocations from frees, and only addresses are freed.
Shape == \A t \in Thread :
    /\ pc[t] = "device" => range[t].size > 0
    /\ pc[t] = "delete" => range[t].size = 0
    /\ pc[t] = "delete" \/ (pc[t] = "create" /\ range[t].size = 0)
            => range[t].addr \in Addr

Covered(a) == Cardinality(Found(a)) >= owned[a] + Cardinality(Claimants(a))

Exact(a) ==
    /\ Cardinality(Found(a)) = owned[a] + Cardinality(Claimants(a))
    /\ owned[a] + Cardinality(Arriving(a)) = One(live[a] > 0)

\* What a step of t leaves as it is, t's own claim apart.
Gap(t, a) == Cardinality(Found(a)) - owned[a] - One(Claims(t, a))
Net(t, a) == owned[a] + One(Arrives(t, a)) - One(live[a] > 0)

Counted == intact => \A a \in Addr : Covered(a) /\ (failures = 0 => Exact(a))

IInv == Types /\ Shape /\ Counted

-----------------------------------------------------------------------------
(* Occurrences of an address in a list.                                    *)

Occurs(s, a) == {i \in DOMAIN s : s[i].addr = a}

LEMMA OccursFinite ==
    ASSUME NEW s \in Seq(MemRange), NEW a
    PROVE  IsFiniteSet(Occurs(s, a)) /\ Cardinality(Occurs(s, a)) \in Nat
<1>1. IsFiniteSet(1 .. Len(s))
  BY FS_Interval
<1>2. Occurs(s, a) \in SUBSET (1 .. Len(s))
  BY DEF Occurs
<1>3. IsFiniteSet(Occurs(s, a))
  BY <1>1, <1>2, FS_Subset
<1> QED BY <1>3, FS_CardinalityType

\* A range put in front.
LEMMA OccursPrepend ==
    ASSUME NEW s \in Seq(MemRange), NEW r \in MemRange, NEW a
    PROVE  LET n == <<r>> \o s IN
           /\ n \in Seq(MemRange)
           /\ Cardinality(Occurs(n, a)) = Cardinality(Occurs(s, a)) + One(r.addr = a)
<1> DEFINE n == <<r>> \o s
           O == Occurs(s, a)
           Moved == Occurs(n, a) \ {1}
           up == [i \in O |-> i + 1]
<1>1. n \in Seq(MemRange) /\ Len(n) = Len(s) + 1 /\ n[1] = r
  OBVIOUS
<1>2. \A i \in 1 .. Len(s) : n[i + 1] = s[i]
  OBVIOUS
<1>3. \A i \in 2 .. Len(n) : i - 1 \in 1 .. Len(s) /\ n[i] = s[i - 1]
  OBVIOUS
<1> HIDE DEF n
<1>4. ASSUME NEW i \in O PROVE i + 1 \in Moved /\ i \in Nat
  <2>1. i \in 1 .. Len(s) /\ s[i].addr = a
    BY DEF Occurs
  <2>2. i + 1 \in 1 .. Len(n) /\ n[i + 1].addr = a /\ i + 1 # 1
    BY <1>1, <1>2, <2>1
  <2> QED BY <1>1, <2>1, <2>2 DEF Occurs
<1>5. ASSUME NEW i \in Moved PROVE i - 1 \in O /\ i \in Nat
  <2>1. i \in 1 .. Len(n) /\ n[i].addr = a /\ i # 1
    BY <1>1 DEF Occurs
  <2>2. i \in 2 .. Len(n)
    BY <1>1, <2>1
  <2> QED BY <1>3, <2>1, <2>2 DEF Occurs
<1>6. up \in Bijection(O, Moved)
  <2>1. up \in [O -> Moved] /\ \A i, j \in O : up[i] = up[j] => i = j
    BY <1>4
  <2>2. ASSUME NEW j \in Moved PROVE \E i \in O : up[i] = j
    <3>1. j - 1 \in O /\ j \in Nat
      BY <1>5
    <3>2. up[j - 1] = j
      BY <3>1
    <3> QED BY <3>1, <3>2
  <2>3. up \in Surjection(O, Moved)
    BY <2>1, <2>2 DEF Surjection
  <2>4. up \in Injection(O, Moved)
    BY <2>1, Fun_IsInj
  <2> QED BY <2>3, <2>4 DEF Bijection
<1>7. Cardinality(Moved) = Cardinality(O) /\ IsFiniteSet(Moved)
  <2>1. ExistsBijection(O, Moved)
    BY <1>6 DEF ExistsBijection
  <2>2. IsFiniteSet(O)
    BY OccursFinite
  <2> QED BY <2>1, <2>2, FS_Bijection
<1>8. CASE r.addr = a
  <2>1. Occurs(n, a) = Moved \cup {1}
    BY <1>1, <1>8 DEF Occurs
  <2>2. Cardinality(Moved \cup {1}) = Cardinality(Moved) + 1
    BY <1>7, FS_AddElement
  <2> QED BY <1>1, <1>7, <1>8, <2>1, <2>2 DEF n, One
<1>9. CASE r.addr # a
  <2>1. Occurs(n, a) = Moved
    BY <1>1, <1>9 DEF Occurs
  <2>2. Cardinality(O) \in Nat
    BY OccursFinite
  <2>3. One(r.addr = a) = 0
    BY <1>9 DEF One
  <2>4. Cardinality(O) + One(r.addr = a) = Cardinality(O)
    BY <2>2, <2>3
  <2> QED BY <1>1, <1>7, <2>1, <2>4 DEF n
<1> QED BY <1>8, <1>9

\* n is s without its k-th range.
Without(n, s, k) ==
    /\ n \in Seq(MemRange) /\ Len(n) = Len(s) - 1
    /\ \A i \in 1 .. Len(s) :
           /\ i < k => i \in 1 .. Len(n) /\ n[i] = s[i]
           /\ i > k => i - 1 \in 1 .. Len(n) /\ n[i - 1] = s[i]
    /\ \A i \in 1 .. Len(n) :
           /\ i < k => i \in 1 .. Len(s) /\ n[i] = s[i]
           /\ i >= k => i + 1 \in 1 .. Len(s) /\ n[i] = s[i + 1]

LEMMA RemoveAtParts ==
    ASSUME NEW s \in Seq(MemRange), NEW k \in 1 .. Len(s)
    PROVE  Without(RemoveAt(s, k), s, k)
<1> DEFINE n == RemoveAt(s, k)
<1> DEFINE p == SubSeq(s, 1, k - 1)
           q == SubSeq(s, k + 1, Len(s))
<1>a. p \in Seq(MemRange) /\ Len(p) = k - 1 /\ \A i \in 1 .. k - 1 : p[i] = s[i]
  OBVIOUS
<1>b. /\ q \in Seq(MemRange) /\ Len(q) = Len(s) - k
      /\ \A i \in 1 .. Len(s) - k : q[i] = s[i + k]
  OBVIOUS
<1>c. n = p \o q
  BY DEF RemoveAt
<1> HIDE DEF n, p, q
<1>1. n \in Seq(MemRange) /\ Len(n) = Len(s) - 1
  BY <1>a, <1>b, <1>c
<1>d. \A i \in 1 .. Len(s) - 1 : n[i] = IF i < k THEN p[i] ELSE q[i - (k - 1)]
  BY <1>a, <1>b, <1>c
<1>e. \A i \in 1 .. Len(s) - 1 : n[i] = IF i < k THEN s[i] ELSE s[i + 1]
  <2> TAKE i \in 1 .. Len(s) - 1
  <2>1. CASE i < k
    BY <1>a, <1>d, <2>1
  <2>2. CASE i >= k
    <3>1. i - (k - 1) \in 1 .. Len(s) - k /\ (i - (k - 1)) + k = i + 1
      BY <2>2
    <3>2. q[i - (k - 1)] = s[(i - (k - 1)) + k]
      BY <1>b, <3>1
    <3> QED BY <1>d, <2>2, <3>1, <3>2
  <2> QED BY <2>1, <2>2
<1>2. \A i \in 1 .. Len(s) : /\ i < k => i \in 1 .. Len(n) /\ n[i] = s[i]
                             /\ i > k => i - 1 \in 1 .. Len(n) /\ n[i - 1] = s[i]
  <2> TAKE i \in 1 .. Len(s)
  <2>1. ASSUME i < k PROVE i \in 1 .. Len(n) /\ n[i] = s[i]
    BY <1>1, <1>e, <2>1
  <2>2. ASSUME i > k PROVE i - 1 \in 1 .. Len(n) /\ n[i - 1] = s[i]
    <3>1. i - 1 \in 1 .. Len(s) - 1 /\ ~ i - 1 < k /\ (i - 1) + 1 = i
      BY <2>2
    <3> QED BY <1>1, <1>e, <3>1
  <2> QED BY <2>1, <2>2
<1>3. \A i \in 1 .. Len(n) : /\ i < k => i \in 1 .. Len(s) /\ n[i] = s[i]
                             /\ i >= k => i + 1 \in 1 .. Len(s) /\ n[i] = s[i + 1]
  BY <1>1, <1>e
<1> QED BY <1>1, <1>2, <1>3 DEF n, Without

\* A range taken out.
LEMMA OccursRemove ==
    ASSUME NEW s \in Seq(MemRange), NEW k \in 1 .. Len(s), NEW a
    PROVE  LET n == RemoveAt(s, k) IN
           /\ n \in Seq(MemRange)
           /\ Cardinality(Occurs(n, a)) = Cardinality(Occurs(s, a)) - One(s[k].addr = a)
<1> DEFINE n == RemoveAt(s, k)
           O == Occurs(s, a)
           Kept == O \ {k}
           down == [i \in Kept |-> IF i < k THEN i ELSE i - 1]
<1>0. Without(n, s, k)
  BY RemoveAtParts
<1> HIDE DEF n
<1>1. n \in Seq(MemRange) /\ Len(n) = Len(s) - 1
  BY <1>0 DEF Without
<1>2. \A i \in 1 .. Len(s) : /\ i < k => i \in 1 .. Len(n) /\ n[i] = s[i]
                             /\ i > k => i - 1 \in 1 .. Len(n) /\ n[i - 1] = s[i]
  BY <1>0 DEF Without
<1>3. \A i \in 1 .. Len(n) : /\ i < k => i \in 1 .. Len(s) /\ n[i] = s[i]
                             /\ i >= k => i + 1 \in 1 .. Len(s) /\ n[i] = s[i + 1]
  BY <1>0 DEF Without
<1>4. ASSUME NEW i \in Kept
      PROVE  i \in Nat /\ i # k /\ (IF i < k THEN i ELSE i - 1) \in Occurs(n, a)
  <2>1. i \in 1 .. Len(s) /\ s[i].addr = a /\ i # k
    BY DEF Occurs
  <2>2. CASE i < k
    BY <1>1, <1>2, <2>1, <2>2 DEF Occurs
  <2>3. CASE i > k
    <3>1. i - 1 \in DOMAIN n /\ n[i - 1].addr = a /\ ~ i < k
      BY <1>1, <1>2, <2>1, <2>3
    <3> QED BY <2>1, <3>1 DEF Occurs
  <2> QED BY <2>1, <2>2, <2>3
<1>5. ASSUME NEW i \in Occurs(n, a)
      PROVE  i \in Nat /\ (IF i < k THEN i ELSE i + 1) \in Kept
  <2>1. i \in 1 .. Len(n) /\ n[i].addr = a
    BY <1>1 DEF Occurs
  <2> QED BY <1>1, <1>3, <2>1 DEF Occurs
<1>6. down \in Bijection(Kept, Occurs(n, a))
  <2>1. down \in [Kept -> Occurs(n, a)]
    BY <1>4
  <2>2. ASSUME NEW i \in Kept, NEW j \in Kept, down[i] = down[j] PROVE i = j
    BY <1>4, <2>2
  <2>3. ASSUME NEW j \in Occurs(n, a) PROVE \E i \in Kept : down[i] = j
    <3> DEFINE i == IF j < k THEN j ELSE j + 1
    <3>1. i \in Kept /\ j \in Nat
      BY <1>5
    <3>2. down[i] = j
      BY <3>1
    <3> QED BY <3>1, <3>2
  <2>4. down \in Surjection(Kept, Occurs(n, a))
    BY <2>1, <2>3 DEF Surjection
  <2>5. down \in Injection(Kept, Occurs(n, a))
    BY <2>1, <2>2, Fun_IsInj
  <2> QED BY <2>4, <2>5 DEF Bijection
<1>7. IsFiniteSet(O) /\ Cardinality(O) \in Nat
  BY OccursFinite
<1>8. /\ IsFiniteSet(Kept)
      /\ Cardinality(Kept) = IF k \in O THEN Cardinality(O) - 1 ELSE Cardinality(O)
  BY <1>7, FS_RemoveElement
<1>9. Cardinality(Occurs(n, a)) = Cardinality(Kept)
  <2>1. ExistsBijection(Kept, Occurs(n, a))
    BY <1>6 DEF ExistsBijection
  <2> QED BY <1>8, <2>1, FS_Bijection
<1>10. k \in O <=> s[k].addr = a
  BY DEF Occurs
<1>11. Cardinality(Kept) = Cardinality(O) - One(s[k].addr = a)
  BY <1>7, <1>8, <1>10 DEF One
<1> QED BY <1>1, <1>9, <1>11 DEF n

-----------------------------------------------------------------------------
(* The sum of the sizes in a list.                                         *)

Sizes(s) == [i \in DOMAIN s |-> s[i].size]

LEMMA SizesType ==
    ASSUME NEW s \in Seq(MemRange)
    PROVE  /\ SumOf(s) = SumFunctionOnSet(Sizes(s), 1 .. Len(s))
           /\ IsFiniteSet(1 .. Len(s))
           /\ \A i \in 1 .. Len(s) : Sizes(s)[i] = s[i].size /\ s[i].size \in Nat
           /\ SumOf(s) \in Nat
<1>1. DOMAIN s = 1 .. Len(s) /\ DOMAIN Sizes(s) = DOMAIN s
  BY DEF Sizes
<1>2. SumOf(s) = SumFunctionOnSet(Sizes(s), 1 .. Len(s))
  BY <1>1 DEF SumOf, SumFunction, Sizes
<1>3. \A i \in 1 .. Len(s) : Sizes(s)[i] = s[i].size /\ s[i].size \in Nat
  <2>1. \A i \in 1 .. Len(s) : s[i] \in MemRange
    OBVIOUS
  <2>2. \A r \in MemRange : r.size \in Nat
    BY MemAssumption DEF MemRange
  <2> QED BY <1>1, <2>1, <2>2 DEF Sizes
<1>4. IsFiniteSet(1 .. Len(s))
  BY FS_Interval
<1> QED BY <1>2, <1>3, <1>4, SumType

LEMMA SumOfEmpty == SumOf(<<>>) = 0
<1>1. <<>> \in Seq(MemRange) /\ 1 .. Len(<<>>) = {}
  OBVIOUS
<1> QED BY <1>1, SizesType, SumEmpty

\* A range put in front adds its size.
LEMMA SumOfPrepend ==
    ASSUME NEW s \in Seq(MemRange), NEW r \in MemRange
    PROVE  SumOf(<<r>> \o s) = r.size + SumOf(s)
<1> DEFINE n == <<r>> \o s
           up == [i \in 1 .. Len(s) |-> i + 1]
<1>1. n \in Seq(MemRange) /\ Len(n) = Len(s) + 1 /\ n[1] = r
  OBVIOUS
<1>2. \A i \in 1 .. Len(s) : n[i + 1] = s[i]
  OBVIOUS
<1> HIDE DEF n
<1>3. up \in Bijection(1 .. Len(s), 2 .. Len(n))
  <2>1. up \in [1 .. Len(s) -> 2 .. Len(n)]
    BY <1>1
  <2>2. \A i, j \in 1 .. Len(s) : up[i] = up[j] => i = j
    OBVIOUS
  <2>3. ASSUME NEW j \in 2 .. Len(n) PROVE \E i \in 1 .. Len(s) : up[i] = j
    <3>1. j - 1 \in 1 .. Len(s) /\ up[j - 1] = j
      BY <1>1
    <3> QED BY <3>1
  <2> QED BY <2>1, <2>2, <2>3, Fun_IsInj DEF Bijection, Surjection
<1>4. \A i \in 1 .. Len(s) :
          Sizes(s)[i] \in Nat /\ Sizes(n)[up[i]] = Sizes(s)[i]
  <2> TAKE i \in 1 .. Len(s)
  <2>1. up[i] = i + 1 /\ i + 1 \in 1 .. Len(n)
    BY <1>1
  <2>2. Sizes(n)[i + 1] = n[i + 1].size
    BY <1>1, <2>1, SizesType
  <2>3. Sizes(s)[i] = s[i].size /\ s[i].size \in Nat
    BY SizesType
  <2> QED BY <1>2, <2>1, <2>2, <2>3
<1> HIDE DEF up
<1>5. SumFunctionOnSet(Sizes(n), 2 .. Len(n)) = SumOf(s)
  <2>1. ASSUME NEW S, S = 1 .. Len(s), NEW R, R = 2 .. Len(n)
        PROVE  SumFunctionOnSet(Sizes(n), R) = SumFunctionOnSet(Sizes(s), S)
    <3>1. \A i \in S : Sizes(s)[i] \in Nat /\ Sizes(n)[up[i]] = Sizes(s)[i]
      BY <1>4, <2>1
    <3>2. up \in Bijection(S, R) /\ IsFiniteSet(S)
      BY <1>3, <2>1, SizesType
    <3> QED BY <3>1, <3>2, SumMoved
  <2> QED BY <2>1, SizesType
<1>6. SumOf(n) = Sizes(n)[1] + SumFunctionOnSet(Sizes(n), (1 .. Len(n)) \ {1})
  <2>1. /\ IsFiniteSet(1 .. Len(n)) /\ 1 \in 1 .. Len(n)
        /\ SumOf(n) = SumFunctionOnSet(Sizes(n), 1 .. Len(n))
        /\ \A i \in 1 .. Len(n) : Sizes(n)[i] \in Nat
    BY <1>1, SizesType
  <2> QED BY <2>1, SumRemove
<1>7. (1 .. Len(n)) \ {1} = 2 .. Len(n) /\ Sizes(n)[1] = r.size
  BY <1>1, SizesType
<1> QED BY <1>5, <1>6, <1>7 DEF n

\* A range taken out takes off its size.
LEMMA SumOfRemove ==
    ASSUME NEW s \in Seq(MemRange), NEW k \in 1 .. Len(s)
    PROVE  SumOf(s) = s[k].size + SumOf(RemoveAt(s, k))
<1> DEFINE n == RemoveAt(s, k)
           Kept == (1 .. Len(s)) \ {k}
           down == [i \in Kept |-> IF i < k THEN i ELSE i - 1]
<1>0. Without(n, s, k)
  BY RemoveAtParts
<1> HIDE DEF n
<1>1. n \in Seq(MemRange) /\ Len(n) = Len(s) - 1
  BY <1>0 DEF Without
<1>2. \A i \in Kept : down[i] \in 1 .. Len(n) /\ n[down[i]] = s[i]
  BY <1>0 DEF Without
<1>3. down \in Bijection(Kept, 1 .. Len(n))
  <2>1. down \in [Kept -> 1 .. Len(n)]
    BY <1>2
  <2>2. \A i, j \in Kept : down[i] = down[j] => i = j
    OBVIOUS
  <2>3. ASSUME NEW j \in 1 .. Len(n) PROVE \E i \in Kept : down[i] = j
    <3> DEFINE i == IF j < k THEN j ELSE j + 1
    <3>1. i \in Kept /\ down[i] = j
      BY <1>1
    <3> QED BY <3>1
  <2> QED BY <2>1, <2>2, <2>3, Fun_IsInj DEF Bijection, Surjection
<1>4. \A i \in Kept : Sizes(s)[i] \in Nat /\ Sizes(n)[down[i]] = Sizes(s)[i]
  <2> TAKE i \in Kept
  <2>1. Sizes(n)[down[i]] = n[down[i]].size
    BY <1>1, <1>2, SizesType
  <2>2. Sizes(s)[i] = s[i].size /\ s[i].size \in Nat
    BY SizesType
  <2> QED BY <1>2, <2>1, <2>2
<1>5. /\ IsFiniteSet(1 .. Len(s)) /\ Sizes(s)[k] = s[k].size
      /\ SumOf(s) = SumFunctionOnSet(Sizes(s), 1 .. Len(s))
      /\ \A i \in 1 .. Len(s) : Sizes(s)[i] \in Nat
  BY SizesType
<1>6. IsFiniteSet(Kept)
  BY <1>5, FS_RemoveElement
<1> HIDE DEF down
<1>7. SumFunctionOnSet(Sizes(n), 1 .. Len(n)) = SumFunctionOnSet(Sizes(s), Kept)
  BY <1>3, <1>4, <1>6, SumMoved
<1>8. SumFunctionOnSet(Sizes(n), 1 .. Len(n)) = SumOf(n)
  BY <1>1, SizesType
<1>9. SumFunctionOnSet(Sizes(s), 1 .. Len(s))
        = Sizes(s)[k] + SumFunctionOnSet(Sizes(s), Kept)
  BY <1>5, SumRemove
<1> QED BY <1>5, <1>7, <1>8, <1>9 DEF n

-----------------------------------------------------------------------------
(* Who claims an address, when one thread moves.                           *)

LEMMA CountOne ==
    ASSUME NEW S, IsFiniteSet(S), NEW T, NEW t, T \ {t} = S \ {t}
    PROVE  /\ Cardinality(S) \in Nat
           /\ IsFiniteSet(T) /\ Cardinality(T) \in Nat
           /\ Cardinality(T) = Cardinality(S) - One(t \in S) + One(t \in T)
<1> DEFINE Rest == S \ {t}
<1>1. Cardinality(S) \in Nat
  BY FS_CardinalityType
<1>2. /\ IsFiniteSet(Rest)
      /\ Cardinality(Rest) = IF t \in S THEN Cardinality(S) - 1 ELSE Cardinality(S)
  BY FS_RemoveElement
<1>3. /\ IsFiniteSet(Rest \cup {t})
      /\ Cardinality(Rest \cup {t}) = Cardinality(Rest) + 1
  BY <1>2, FS_AddElement
<1>4. T = IF t \in T THEN Rest \cup {t} ELSE Rest
  OBVIOUS
<1>5. IsFiniteSet(T)
  BY <1>2, <1>3, <1>4
<1>6. Cardinality(T) = Cardinality(Rest) + One(t \in T)
  <2>1. Cardinality(Rest) \in Nat
    BY <1>2, FS_CardinalityType
  <2>2. CASE t \in T
    BY <1>3, <1>4, <2>2 DEF One
  <2>3. CASE t \notin T
    <3>1. T = Rest /\ One(t \in T) = 0
      BY <2>3 DEF One
    <3> QED BY <2>1, <3>1
  <2> QED BY <2>2, <2>3
<1>7. Cardinality(Rest) = Cardinality(S) - One(t \in S)
  BY <1>1, <1>2 DEF One
<1> QED BY <1>1, <1>5, <1>6, <1>7, FS_CardinalityType

LEMMA Moved ==
    ASSUME NEW t \in Thread, NEW a,
           \A u \in Thread \ {t} : pc'[u] = pc[u] /\ range'[u] = range[u]
    PROVE  /\ Cardinality(Claimants(a)) \in Nat /\ Cardinality(Claimants(a))' \in Nat
           /\ Cardinality(Arriving(a)) \in Nat /\ Cardinality(Arriving(a))' \in Nat
           /\ Cardinality(Claimants(a))' =
                  Cardinality(Claimants(a)) - One(Claims(t, a)) + One(Claims(t, a)')
           /\ Cardinality(Arriving(a))' =
                  Cardinality(Arriving(a)) - One(Arrives(t, a)) + One(Arrives(t, a)')
<1>1. Claimants(a) \in SUBSET Thread /\ Arriving(a) \in SUBSET Thread
  BY DEF Claimants, Arriving
<1>2. IsFiniteSet(Claimants(a)) /\ IsFiniteSet(Arriving(a))
  BY <1>1, MemAssumption, FS_Subset
<1>3. Claimants(a)' \ {t} = Claimants(a) \ {t}
  BY DEF Claimants, Claims
<1>4. Arriving(a)' \ {t} = Arriving(a) \ {t}
  BY DEF Arriving, Arrives
<1>5. /\ t \in Claimants(a) <=> Claims(t, a)
      /\ t \in Claimants(a)' <=> Claims(t, a)'
      /\ t \in Arriving(a) <=> Arrives(t, a)
      /\ t \in Arriving(a)' <=> Arrives(t, a)'
  BY DEF Claimants, Arriving
<1>6. /\ Cardinality(Claimants(a)) \in Nat /\ Cardinality(Claimants(a)') \in Nat
      /\ Cardinality(Claimants(a)') =
            Cardinality(Claimants(a)) - One(t \in Claimants(a)) + One(t \in Claimants(a)')
  BY <1>2, <1>3, CountOne
<1>7. /\ Cardinality(Arriving(a)) \in Nat /\ Cardinality(Arriving(a)') \in Nat
      /\ Cardinality(Arriving(a)') =
            Cardinality(Arriving(a)) - One(t \in Arriving(a)) + One(t \in Arriving(a)')
  BY <1>2, <1>4, CountOne
<1> QED BY <1>5, <1>6, <1>7 DEF One

-----------------------------------------------------------------------------
(* The invariant.                                                          *)

LEMMA InitInv == Init => IInv
<1> SUFFICES ASSUME Init PROVE IInv
  OBVIOUS
<1>1. Types
  BY MemAssumption DEF Init, Types, NoRange, MemRange, Steps
<1>2. Shape
  BY DEF Init, Shape
<1>3. ASSUME NEW a \in Addr PROVE Covered(a) /\ Exact(a)
  <2>1. Found(a) = {} /\ Claimants(a) = {} /\ Arriving(a) = {}
    BY DEF Init, Found, Claimants, Arriving, Claims, Arrives
  <2>2. owned[a] = 0 /\ One(live[a] > 0) = 0
    BY <1>1 DEF Init, One
  <2> QED BY <2>1, <2>2, FS_EmptySet DEF Covered, Exact
<1> QED BY <1>1, <1>2, <1>3 DEF IInv, Counted

\* A thread's step, address by address.
LEMMA Balance ==
    ASSUME IInv, NEW t \in Thread, Types', Shape',
           intact' => intact, failures' = 0 => failures = 0,
           \A u \in Thread \ {t} : pc'[u] = pc[u] /\ range'[u] = range[u],
           \A a \in Addr : intact' =>
             /\ Gap(t, a)' = Gap(t, a) \/ Gap(t, a)' > Gap(t, a)
             /\ failures' = 0 /\ Exact(a) =>
                    Gap(t, a)' = Gap(t, a) /\ Net(t, a)' = Net(t, a)
    PROVE  IInv'
<1> SUFFICES ASSUME intact', NEW a \in Addr
             PROVE  Covered(a)' /\ (failures' = 0 => Exact(a)')
  BY DEF IInv, Counted
<1>1. Cardinality(Found(a)) \in Nat /\ Cardinality(Found(a))' \in Nat
  <2>1. ranges \in Seq(MemRange) /\ ranges' \in Seq(MemRange)
    BY DEF IInv, Types
  <2>2. Found(a) = Occurs(ranges, a) /\ Found(a)' = Occurs(ranges', a)
    BY DEF Found, Occurs
  <2> QED BY <2>1, <2>2, OccursFinite
<1>2. owned[a] \in Nat /\ owned'[a] \in Nat
  BY DEF IInv, Types
<1>3. Covered(a) /\ (failures' = 0 => Exact(a))
  BY DEF IInv, Counted
<1>4. /\ One(Claims(t, a)) \in Nat /\ One(Claims(t, a)') \in Nat
      /\ One(Arrives(t, a)) \in Nat /\ One(Arrives(t, a)') \in Nat
      /\ One(live[a] > 0) \in Nat /\ One(live'[a] > 0) \in Nat
  BY DEF One
<1>5. /\ Cardinality(Claimants(a)) \in Nat /\ Cardinality(Claimants(a))' \in Nat
      /\ Cardinality(Arriving(a)) \in Nat /\ Cardinality(Arriving(a))' \in Nat
      /\ Cardinality(Claimants(a))' =
             Cardinality(Claimants(a)) - One(Claims(t, a)) + One(Claims(t, a)')
      /\ Cardinality(Arriving(a))' =
             Cardinality(Arriving(a)) - One(Arrives(t, a)) + One(Arrives(t, a)')
  BY Moved
<1> DEFINE F == Cardinality(Found(a))  C == Cardinality(Claimants(a))
           A == Cardinality(Arriving(a))
           c == One(Claims(t, a))  d == One(Claims(t, a)')
           g == One(Arrives(t, a))  h == One(Arrives(t, a)')
           l == One(live[a] > 0)  m == One(live'[a] > 0)
<1>6. Covered(a)'
  <2>1. F >= owned[a] + C
    BY <1>3 DEF Covered
  <2>2. F' - owned'[a] - d >= F - owned[a] - c
    BY <1>1, <1>2, <1>4 DEF Gap
  <2>3. F' >= owned'[a] + C'
    <3> HIDE DEF F, C, c, d
    <3>1. C' = C - c + d /\ F \in Nat /\ F' \in Nat /\ C \in Nat /\ c \in Nat /\ d \in Nat
      BY <1>1, <1>4, <1>5 DEF F, C, c, d
    <3> QED BY <1>2, <2>1, <2>2, <3>1
  <2> QED BY <2>3 DEF Covered
<1>7. ASSUME failures' = 0 PROVE Exact(a)'
  <2>1. F = owned[a] + C /\ owned[a] + A = l
    BY <1>3, <1>7 DEF Exact
  <2>2. /\ F' - owned'[a] - d = F - owned[a] - c
        /\ owned'[a] + h - m = owned[a] + g - l
    BY <1>3, <1>7 DEF Gap, Net
  <2>3. F' = owned'[a] + C' /\ owned'[a] + A' = m
    <3> HIDE DEF F, C, A, c, d, g, h, l, m
    <3>1. /\ C' = C - c + d /\ A' = A - g + h
          /\ F \in Nat /\ F' \in Nat /\ C \in Nat /\ A \in Nat
          /\ c \in Nat /\ d \in Nat /\ g \in Nat /\ h \in Nat /\ l \in Nat /\ m \in Nat
      BY <1>1, <1>4, <1>5 DEF F, C, A, c, d, g, h, l, m
    <3>a. C = F - owned[a]
      BY <1>2, <2>1, <3>1
    <3>b. F' = (F - owned[a]) - c + d + owned'[a]
      BY <1>2, <2>2, <3>1
    <3>2. F' = owned'[a] + C'
      BY <1>2, <3>1, <3>a, <3>b
    <3>3. A = l - owned[a] /\ owned'[a] + h - m = owned[a] + g - l
      BY <1>2, <2>1, <2>2, <3>1
    <3>4. owned'[a] + A' = m
      BY <1>2, <3>1, <3>3
    <3> QED BY <3>2, <3>4
  <2> QED BY <2>3 DEF Exact
<1> QED BY <1>6, <1>7

\* A step that leaves threads, list and driver as they are.
LEMMA StillInv ==
    ASSUME IInv, Types',
           \A u \in Thread : pc'[u] = pc[u] /\ range'[u] = range[u],
           intact' => intact /\ ranges' = ranges,
           UNCHANGED driver
    PROVE  IInv'
<1>1. Shape'
  BY DEF IInv, Shape
<1>2. ASSUME intact', NEW a \in Addr
      PROVE  Covered(a)' /\ (failures' = 0 => Exact(a)')
  <2>1. Covered(a) /\ (failures = 0 => Exact(a))
    BY <1>2 DEF IInv, Counted
  <2>2. Claimants(a)' = Claimants(a) /\ Arriving(a)' = Arriving(a)
    BY DEF Claimants, Arriving, Claims, Arrives
  <2>3. Found(a)' = Found(a)
    BY <1>2 DEF Found
  <2> QED BY <2>1, <2>2, <2>3 DEF Covered, Exact, driver
<1> QED BY <1>1, <1>2 DEF IInv, Counted

\* A thread about to delete has a range in the list.
LEMMA ClaimFound ==
    ASSUME Types, NEW t \in Thread, pc[t] = "delete", range[t].addr \in Addr,
           Covered(range[t].addr)
    PROVE  Found(range[t].addr) # {}
<1> DEFINE a == range[t].addr
<1>1. Claimants(a) \in SUBSET Thread /\ t \in Claimants(a)
  BY DEF Claimants, Claims
<1>2. IsFiniteSet(Claimants(a)) /\ Cardinality(Claimants(a)) \in Nat
  BY <1>1, MemAssumption, FS_Subset, FS_CardinalityType
<1>3. Cardinality(Claimants(a)) # 0
  BY <1>1, <1>2, FS_EmptySet
<1>4. owned[a] \in Nat /\ Cardinality(Found(a)) >= owned[a] + Cardinality(Claimants(a))
  BY DEF Types, Covered
<1>5. Cardinality(Found(a)) # 0
  <2> HIDE DEF a
  <2> QED BY <1>2, <1>3, <1>4
<1> QED BY <1>5, FS_EmptySet

\* The smallest of some positions.
LEMMA SmallestExists ==
    ASSUME NEW n \in Nat, NEW S \in SUBSET (1 .. n), S # {}
    PROVE  \E k \in S : \A j \in S : k <= j
<1>1. S \in SUBSET Nat
  OBVIOUS
<1> QED BY <1>1, LeastNumber

LEMMA AllocateInv == ASSUME IInv, NEW t \in Thread, Allocate(t) PROVE IInv'
<1>1. Types /\ Shape /\ pc[t] = "idle"
  BY DEF IInv, Allocate
<1>2. PICK s \in 1 .. MaxSize, b \in Addr \cup {None} :
         /\ range' = [range EXCEPT ![t] = [addr |-> b, size |-> s]]
         /\ \/ /\ b \in Addr /\ live[b] = 0 /\ live' = [live EXCEPT ![b] = s]
               /\ failures' = failures /\ reused' \in {reused, reused \cup {b}}
            \/ Fail /\ live' = live /\ reused' = reused
  BY DEF Allocate
<1>3. /\ pc' = [pc EXCEPT ![t] = "device"]
      /\ UNCHANGED <<list, mutex, at, owned, intact, dropped>>
  BY DEF Allocate, Goto
<1>4. Types'
  <2>1. range' \in [Thread -> MemRange]
    BY <1>1, <1>2 DEF Types, MemRange
  <2>2. live' \in [Addr -> 0 .. MaxSize]
    <3>1. live \in [Addr -> 0 .. MaxSize] /\ s \in 0 .. MaxSize
      BY <1>1 DEF Types
    <3>2. live' = [live EXCEPT ![b] = s] \/ live' = live
      BY <1>2
    <3> QED BY <3>1, <3>2
  <2>3. failures' \in 0 .. MaxFailures
    BY <1>1, <1>2, MemAssumption DEF Types, Fail
  <2>4. pc' \in [Thread \cup Manager -> Steps]
    BY <1>1, <1>3 DEF Types, Steps
  <2>5. reused' \subseteq Addr
    BY <1>1, <1>2 DEF Types
  <2> QED BY <1>1, <1>3, <2>1, <2>2, <2>3, <2>4, <2>5 DEF Types, list
<1>5. \A u \in Thread \ {t} : pc'[u] = pc[u] /\ range'[u] = range[u]
  BY <1>1, <1>2, <1>3 DEF Types
<1>6. pc'[t] = "device" /\ range'[t] = [addr |-> b, size |-> s] /\ s > 0
  BY <1>1, <1>2, <1>3 DEF Types
<1>7. Shape'
  BY <1>1, <1>5, <1>6 DEF Shape
<1>8. ASSUME NEW a \in Addr
      PROVE  /\ ~ Claims(t, a) /\ ~ Claims(t, a)' /\ ~ Arrives(t, a)
             /\ Arrives(t, a)' <=> a = b
             /\ Cardinality(Found(a))' = Cardinality(Found(a)) /\ owned'[a] = owned[a]
  BY <1>1, <1>3, <1>6 DEF Claims, Arrives, Found, list
<1>9. failures \in Nat /\ failures' \in Nat
  BY <1>1, <1>4, MemAssumption DEF Types
<1>10. ASSUME NEW a \in Addr, failures' = 0 PROVE Net(t, a)' = Net(t, a)
  <2>1. b \in Addr /\ live[b] = 0 /\ live' = [live EXCEPT ![b] = s]
    BY <1>2, <1>9, <1>10 DEF Fail
  <2>2. CASE a = b
    <3>1. One(live'[a] > 0) = 1 /\ One(live[a] > 0) = 0
      BY <1>1, <1>6, <2>1, <2>2 DEF One, Types
    <3>2. One(Arrives(t, a)') = 1 /\ One(Arrives(t, a)) = 0
      BY <1>8, <2>2 DEF One
    <3> QED BY <1>1, <1>8, <3>1, <3>2 DEF Net, Types
  <2>3. CASE a # b
    <3>1. live'[a] = live[a]
      BY <1>1, <2>1, <2>3 DEF Types
    <3>2. One(Arrives(t, a)') = One(Arrives(t, a))
      BY <1>8, <2>3 DEF One
    <3> QED BY <1>8, <3>1, <3>2 DEF Net
  <2> QED BY <2>2, <2>3
<1>11. intact' = intact /\ (failures' = 0 => failures = 0)
  BY <1>2, <1>3, <1>9 DEF Fail
<1>12. ASSUME NEW a \in Addr PROVE Gap(t, a)' = Gap(t, a)
  BY <1>8 DEF Gap, One
<1> QED BY <1>4, <1>5, <1>7, <1>10, <1>11, <1>12, Balance

LEMMA GetDeviceInv == ASSUME IInv, NEW t \in Thread, GetDevice(t) PROVE IInv'
<1>1. Types /\ Shape /\ pc[t] = "device" /\ range[t].size > 0
  BY DEF IInv, GetDevice, Shape
<1>2. PICK here \in {"insert", "create", "idle"} :
         /\ pc' = [pc EXCEPT ![t] = here]
         /\ here = "idle" => Fail
         /\ here # "idle" => failures' = failures
  BY <1>1, MemAssumption DEF GetDevice, Enter, Goto, Purpose
<1>3. UNCHANGED <<list, mutex, range, at, live, owned, history>>
  BY DEF GetDevice
<1>4. failures \in Nat /\ failures' \in 0 .. MaxFailures
  BY <1>1, <1>2, MemAssumption DEF Types, Fail
<1>5. Types'
  BY <1>1, <1>2, <1>3, <1>4 DEF Types, Steps, list, history
<1>6. (\A u \in Thread \ {t} : pc'[u] = pc[u] /\ range'[u] = range[u]) /\ pc'[t] = here
  BY <1>1, <1>2, <1>3 DEF Types
<1>7. Shape'
  BY <1>1, <1>3, <1>6 DEF Shape
<1>8. intact' = intact /\ (failures' = 0 => failures = 0 /\ here # "idle")
  BY <1>2, <1>3, <1>4 DEF Fail, history
<1>9. ASSUME NEW a \in Addr
      PROVE  /\ ~ Claims(t, a) /\ ~ Claims(t, a)'
             /\ here # "idle" => (Arrives(t, a)' <=> Arrives(t, a))
  <2>1. range[t].size # 0
    BY <1>1 DEF Types, MemRange
  <2> QED BY <1>1, <1>3, <1>6, <2>1 DEF Claims, Arrives
<1>10. ASSUME NEW a \in Addr
       PROVE  Gap(t, a)' = Gap(t, a) /\ (failures' = 0 => Net(t, a)' = Net(t, a))
  BY <1>3, <1>8, <1>9 DEF Gap, Net, One, Found, list
<1> QED BY <1>5, <1>6, <1>7, <1>8, <1>10, Balance

LEMMA CreateInv ==
    ASSUME IInv, NEW t \in Thread \cup Manager, Create(t)
    PROVE  IInv'
<1>1. Types /\ Shape /\ pc[t] = "create"
  BY DEF IInv, Create
<1>2. /\ pc' = [pc EXCEPT ![t] = Purpose(t)] /\ ranges' = <<>>
      /\ intact' = (intact /\ ranges = <<>>)
      /\ UNCHANGED <<used, mutex, range, at, driver, reused>>
  BY DEF Create, Goto
<1>3. Types'
  <2>1. Purpose(t) \in Steps
    BY DEF Purpose, Steps
  <2>2. <<>> \in Seq(MemRange)
    OBVIOUS
  <2> QED BY <1>1, <1>2, <2>1, <2>2 DEF Types, driver
<1>4. CASE t \in Manager
  <2>1. t \notin Thread
    BY <1>4, MemAssumption
  <2>2. \A u \in Thread : pc'[u] = pc[u] /\ range'[u] = range[u]
    BY <1>1, <1>2, <2>1 DEF Types
  <2> QED BY <1>2, <1>3, <2>2, StillInv
<1>5. CASE t \in Thread
  <2>1. t \notin Manager
    BY <1>5, MemAssumption
  <2>2. pc'[t] = IF range[t].size = 0 THEN "delete" ELSE "insert"
    BY <1>1, <1>2, <1>5, <2>1 DEF Types, Purpose
  <2>3. \A u \in Thread \ {t} : pc'[u] = pc[u] /\ range'[u] = range[u]
    BY <1>1, <1>2 DEF Types, driver
  <2>4. range'[t] = range[t] /\ (range[t].size = 0 \/ range[t].size > 0)
    BY <1>1, <1>2, <1>5 DEF Types, MemRange
  <2>5. Shape'
    BY <1>1, <1>5, <2>2, <2>3, <2>4 DEF Shape
  <2>6. ASSUME NEW a \in Addr
        PROVE  (Claims(t, a)' <=> Claims(t, a)) /\ (Arrives(t, a)' <=> Arrives(t, a))
    BY <1>1, <2>2, <2>4 DEF Claims, Arrives, Types, MemRange
  <2>7. ASSUME NEW a \in Addr, intact'
        PROVE  Gap(t, a)' = Gap(t, a) /\ Net(t, a)' = Net(t, a)
    BY <1>2, <2>6, <2>7 DEF Gap, Net, One, Found, driver
  <2>8. (intact' => intact) /\ failures' = failures
    BY <1>2 DEF driver
  <2> QED BY <1>3, <1>5, <2>3, <2>5, <2>7, <2>8, Balance
<1> QED BY <1>4, <1>5

LEMMA InsertInv == ASSUME IInv, NEW t \in Thread, Insert(t) PROVE IInv'
<1>1. Types /\ Shape /\ pc[t] = "insert"
  BY DEF IInv, Insert
<1>2. /\ pc' = [pc EXCEPT ![t] = "advise"] /\ ranges' = <<range[t]>> \o ranges
      /\ UNCHANGED <<exists, mutex, range, at, driver, history>>
  BY DEF Insert, Goto
<1>3. range[t] \in MemRange /\ ranges \in Seq(MemRange)
  BY <1>1 DEF Types
<1>4. Types'
  <2>1. ranges' \in Seq(MemRange)
    BY <1>2, <1>3
  <2> QED BY <1>1, <1>2, <2>1 DEF Types, Steps, driver, history
<1>5. (\A u \in Thread \ {t} : pc'[u] = pc[u] /\ range'[u] = range[u])
      /\ pc'[t] = "advise" /\ range'[t] = range[t]
  BY <1>1, <1>2 DEF Types
<1>6. Shape'
  BY <1>1, <1>5 DEF Shape
<1>7. ASSUME NEW a \in Addr PROVE Gap(t, a)' = Gap(t, a) /\ Net(t, a)' = Net(t, a)
  <2>1. /\ ~ Claims(t, a) /\ (Claims(t, a)' <=> range[t].addr = a)
        /\ (Arrives(t, a)' <=> Arrives(t, a))
    BY <1>1, <1>5 DEF Claims, Arrives
  <2>2. Cardinality(Found(a))' = Cardinality(Found(a)) + One(range[t].addr = a)
    <3>1. Found(a) = Occurs(ranges, a) /\ Found(a)' = Occurs(<<range[t]>> \o ranges, a)
      BY <1>2 DEF Found, Occurs
    <3> QED BY <1>3, <3>1, OccursPrepend
  <2>3. Cardinality(Found(a)) \in Nat
    BY <1>3, OccursFinite DEF Found, Occurs
  <2>4. owned[a] \in Nat /\ owned' = owned /\ live' = live
    BY <1>1, <1>2 DEF Types, driver
  <2>5. One(Claims(t, a)) = 0 /\ One(Claims(t, a)') = One(range[t].addr = a)
        /\ One(range[t].addr = a) \in Nat
    BY <2>1 DEF One
  <2>6. Gap(t, a)' = Gap(t, a)
    BY <2>2, <2>3, <2>4, <2>5 DEF Gap
  <2>7. Net(t, a)' = Net(t, a)
    BY <2>1, <2>4 DEF Net, One
  <2> QED BY <2>6, <2>7
<1>8. intact' = intact /\ failures' = failures
  BY <1>2 DEF driver, history
<1> QED BY <1>4, <1>5, <1>6, <1>7, <1>8, Balance

LEMMA AdviseInv == ASSUME IInv, NEW t \in Thread, Advise(t) PROVE IInv'
<1>0. PICK b \in Addr \cup {None} : b = range[t].addr
  BY DEF IInv, Types, MemRange
<1>1. Types /\ Shape /\ Counted /\ pc[t] = "advise"
  BY DEF IInv, Advise
<1>2. /\ pc' = [pc EXCEPT ![t] = "idle"] /\ range' = [range EXCEPT ![t] = NoRange]
      /\ UNCHANGED <<list, mutex, at, live, history>>
  BY DEF Advise, Goto
<1>3. \/ /\ b \in Addr /\ owned' = [owned EXCEPT ![b] = @ + 1]
         /\ failures' = failures
      \/ owned' = owned /\ Fail
      \/ (b \in Addr => live[b] = 0) /\ owned' = owned /\ failures' = failures
  BY <1>0 DEF Advise
<1>4. failures \in Nat /\ failures' \in 0 .. MaxFailures
  BY <1>1, <1>3, MemAssumption DEF Types, Fail
<1>5. Types'
  <2>1. owned' \in [Addr -> Nat]
    BY <1>1, <1>3 DEF Types
  <2>2. NoRange \in MemRange
    BY MemAssumption DEF NoRange, MemRange
  <2> QED BY <1>1, <1>2, <1>4, <2>1, <2>2 DEF Types, Steps, list, history
<1>6. (\A u \in Thread \ {t} : pc'[u] = pc[u] /\ range'[u] = range[u]) /\ pc'[t] = "idle"
  BY <1>1, <1>2 DEF Types
<1>7. Shape'
  BY <1>1, <1>6 DEF Shape
<1>8. intact' = intact /\ (failures' = 0 => failures = 0 /\ failures' = failures)
  BY <1>2, <1>3, <1>4 DEF Fail, history
<1>9. ASSUME NEW a \in Addr
      PROVE  /\ ~ Claims(t, a)' /\ ~ Arrives(t, a)'
             /\ (Claims(t, a) <=> a = b) /\ (Arrives(t, a) <=> a = b)
  BY <1>0, <1>1, <1>6 DEF Claims, Arrives
<1>10. ASSUME NEW a \in Addr
       PROVE  /\ Cardinality(Found(a)) \in Nat /\ Found(a)' = Found(a)
              /\ owned[a] \in Nat /\ live'[a] = live[a]
  <2>1. ranges \in Seq(MemRange)
    BY <1>1 DEF Types
  <2> QED BY <1>1, <1>2, <2>1, OccursFinite DEF Types, Found, Occurs, list
<1>11. ASSUME NEW a \in Addr, a # b
       PROVE  Gap(t, a)' = Gap(t, a) /\ Net(t, a)' = Net(t, a)
  <2>1. owned'[a] = owned[a]
    BY <1>1, <1>3, <1>11 DEF Types
  <2> QED BY <1>9, <1>10, <1>11, <2>1 DEF Gap, Net, One
<1>12. ASSUME b \in Addr, intact'
       PROVE  /\ Gap(t, b)' = Gap(t, b) \/ Gap(t, b)' > Gap(t, b)
              /\ failures' = 0 /\ Exact(b) =>
                     Gap(t, b)' = Gap(t, b) /\ Net(t, b)' = Net(t, b)
  <2>1. /\ One(Claims(t, b)) = 1 /\ One(Claims(t, b)') = 0
        /\ One(Arrives(t, b)) = 1 /\ One(Arrives(t, b)') = 0
    BY <1>9, <1>12 DEF One
  <2>2. Cardinality(Found(b))' = Cardinality(Found(b)) /\ Cardinality(Found(b)) \in Nat
        /\ owned[b] \in Nat /\ live'[b] = live[b] /\ One(live[b] > 0) \in Nat
    BY <1>10, <1>12 DEF One
  <2>3. CASE owned' = [owned EXCEPT ![b] = @ + 1]
    <3>1. owned'[b] = owned[b] + 1
      BY <1>1, <1>12, <2>3 DEF Types
    <3>2. Gap(t, b)' = Gap(t, b)
      BY <2>1, <2>2, <3>1 DEF Gap
    <3>3. Net(t, b)' = Net(t, b)
      BY <2>1, <2>2, <3>1 DEF Net
    <3> QED BY <3>2, <3>3
  <2>4. CASE owned' = owned
    <3>1. Gap(t, b)' > Gap(t, b)
      BY <2>1, <2>2, <2>4 DEF Gap
    <3>2. ASSUME failures' = 0, Exact(b) PROVE owned' # owned
      <4>1. t \in Arriving(b)
        BY <1>9, <1>12 DEF Arriving
      <4>2. Arriving(b) \in SUBSET Thread
        BY DEF Arriving
      <4>3. IsFiniteSet(Arriving(b)) /\ Cardinality(Arriving(b)) \in Nat
        BY <4>2, MemAssumption, FS_Subset, FS_CardinalityType
      <4>4. Cardinality(Arriving(b)) # 0
        BY <4>1, <4>3, FS_EmptySet
      <4>5. One(live[b] > 0) = owned[b] + Cardinality(Arriving(b))
        BY <3>2 DEF Exact
      <4>6. live[b] # 0
        <5>1. One(live[b] > 0) # 0
          BY <2>2, <4>3, <4>4, <4>5
        <5> QED BY <5>1 DEF One
      <4>7. ~ Fail
        BY <1>4, <3>2 DEF Fail
      <4> QED BY <1>1, <1>3, <1>12, <2>2, <4>6, <4>7 DEF Types
    <3> QED BY <2>4, <3>1, <3>2
  <2> QED BY <1>3, <2>3, <2>4
<1>13. \A a \in Addr : intact' =>
          /\ Gap(t, a)' = Gap(t, a) \/ Gap(t, a)' > Gap(t, a)
          /\ failures' = 0 /\ Exact(a) =>
                 Gap(t, a)' = Gap(t, a) /\ Net(t, a)' = Net(t, a)
  BY <1>11, <1>12
<1> QED BY <1>5, <1>6, <1>7, <1>8, <1>13, Balance

LEMMA FreeInv == ASSUME IInv, NEW t \in Thread, Free(t) PROVE IInv'
<1>1. Types /\ Shape /\ Counted /\ pc[t] = "idle"
  BY DEF IInv, Free
<1>2. PICK b \in Addr :
         /\ owned[b] > 0 /\ owned' = [owned EXCEPT ![b] = @ - 1]
         /\ IF live[b] > 0
            THEN /\ live' = [live EXCEPT ![b] = 0]
                 /\ range' = [range EXCEPT ![t] = [addr |-> b, size |-> 0]]
                 /\ Goto(t, IF exists THEN "delete" ELSE "create")
            ELSE UNCHANGED <<live, range, pc>>
  BY DEF Free
<1>3. UNCHANGED <<list, mutex, at, failures, history>>
  BY DEF Free
<1>4. owned'[b] = owned[b] - 1 /\ owned' \in [Addr -> Nat]
      /\ owned[b] \in Nat /\ \A a \in Addr : a # b => owned'[a] = owned[a]
  BY <1>1, <1>2 DEF Types
<1>5. intact' = intact /\ failures' = failures
  BY <1>3 DEF history
<1>6. ASSUME NEW a \in Addr
      PROVE  /\ Cardinality(Found(a)) \in Nat /\ Found(a)' = Found(a)
             /\ ~ Claims(t, a) /\ ~ Arrives(t, a)
             /\ owned[a] \in Nat /\ One(live[a] > 0) \in Nat
  <2>1. ranges \in Seq(MemRange)
    BY <1>1 DEF Types
  <2>2. ~ Claims(t, a) /\ ~ Arrives(t, a)
    BY <1>1 DEF Claims, Arrives
  <2> QED BY <1>1, <1>3, <2>1, <2>2, OccursFinite DEF Types, Found, Occurs, list, One
<1>7. CASE live[b] > 0
  <2>1. PICK here \in {"delete", "create"} :
           /\ pc' = [pc EXCEPT ![t] = here]
           /\ range' = [range EXCEPT ![t] = [addr |-> b, size |-> 0]]
           /\ live' = [live EXCEPT ![b] = 0]
    BY <1>2, <1>7 DEF Goto
  <2>2. Types'
    <3>1. range' \in [Thread -> MemRange]
      BY <1>1, <2>1, MemAssumption DEF Types, MemRange
    <3>2. live' \in [Addr -> 0 .. MaxSize]
      BY <1>1, <2>1, MemAssumption DEF Types
    <3>3. pc' \in [Thread \cup Manager -> Steps]
      BY <1>1, <2>1 DEF Types, Steps
    <3> QED BY <1>1, <1>3, <1>4, <3>1, <3>2, <3>3 DEF Types, list, history
  <2>3. /\ \A u \in Thread \ {t} : pc'[u] = pc[u] /\ range'[u] = range[u]
        /\ pc'[t] = here /\ range'[t].addr = b /\ range'[t].size = 0
    BY <1>1, <2>1 DEF Types
  <2>4. Shape'
    BY <1>1, <2>3 DEF Shape
  <2>5. ASSUME NEW a \in Addr
        PROVE  Gap(t, a)' = Gap(t, a) /\ Net(t, a)' = Net(t, a)
    <3>1. (Claims(t, a)' <=> a = b) /\ ~ Arrives(t, a)'
      BY <2>3 DEF Claims, Arrives
    <3>2. CASE a = b
      <4>1. /\ One(Claims(t, a)) = 0 /\ One(Claims(t, a)') = 1
            /\ One(Arrives(t, a)) = 0 /\ One(Arrives(t, a)') = 0
        BY <1>6, <3>1, <3>2 DEF One
      <4>2. One(live[a] > 0) = 1 /\ One(live'[a] > 0) = 0
        BY <1>1, <1>7, <2>1, <3>2 DEF Types, One
      <4>3. Gap(t, a)' = Gap(t, a)
        BY <1>4, <1>6, <3>2, <4>1 DEF Gap
      <4>4. Net(t, a)' = Net(t, a)
        BY <1>4, <3>2, <4>1, <4>2 DEF Net
      <4> QED BY <4>3, <4>4
    <3>3. CASE a # b
      <4>1. live'[a] = live[a] /\ owned'[a] = owned[a]
        BY <1>1, <1>4, <2>1, <3>3 DEF Types
      <4> QED BY <1>6, <3>1, <3>3, <4>1 DEF Gap, Net, One
    <3> QED BY <3>2, <3>3
  <2> QED BY <1>5, <2>2, <2>3, <2>4, <2>5, Balance
<1>8. CASE ~ live[b] > 0
  <2>1. UNCHANGED <<live, range, pc>>
    BY <1>2, <1>8
  <2>2. Types'
    BY <1>1, <1>3, <1>4, <2>1 DEF Types, list, history
  <2>3. Shape' /\ \A u \in Thread \ {t} : pc'[u] = pc[u] /\ range'[u] = range[u]
    BY <1>1, <2>1 DEF Shape
  <2>4. ASSUME NEW a \in Addr
        PROVE  /\ Gap(t, a)' = Gap(t, a) \/ Gap(t, a)' > Gap(t, a)
               /\ Exact(a) => Gap(t, a)' = Gap(t, a) /\ Net(t, a)' = Net(t, a)
    <3>1. /\ Claims(t, a)' <=> Claims(t, a)
          /\ Arrives(t, a)' <=> Arrives(t, a)
      BY <2>1 DEF Claims, Arrives
    <3>2. One(Claims(t, a)) = 0 /\ One(Claims(t, a)') = 0
      BY <1>6, <3>1 DEF One
    <3>3. CASE a # b
      <4>1. owned'[a] = owned[a] /\ live'[a] = live[a]
        BY <1>4, <2>1, <3>3
      <4>2. One(Arrives(t, a)') = One(Arrives(t, a))
        BY <3>1 DEF One
      <4>3. Gap(t, a)' = Gap(t, a)
        BY <1>6, <3>2, <4>1 DEF Gap
      <4>4. Net(t, a)' = Net(t, a)
        BY <4>1, <4>2 DEF Net
      <4> QED BY <4>3, <4>4
    <3>4. CASE a = b
      <4>1. Gap(t, a)' > Gap(t, a)
        BY <1>4, <1>6, <3>2, <3>4 DEF Gap
      <4>2. ~ Exact(a)
        <5>1. One(live[a] > 0) = 0
          BY <1>8, <3>4 DEF One
        <5>2. Arriving(a) \in SUBSET Thread
          BY DEF Arriving
        <5>3. Cardinality(Arriving(a)) \in Nat
          BY <5>2, MemAssumption, FS_Subset, FS_CardinalityType
        <5>4. owned[a] + Cardinality(Arriving(a)) # 0
          BY <1>2, <1>4, <3>4, <5>3
        <5> QED BY <5>1, <5>4 DEF Exact
      <4> QED BY <4>1, <4>2
    <3> QED BY <3>3, <3>4
  <2> QED BY <1>5, <2>2, <2>3, <2>4, Balance
<1> QED BY <1>7, <1>8
LEMMA DeleteInv == ASSUME IInv, NEW t \in Thread, Delete(t) PROVE IInv'
<1>1. Types /\ Shape /\ Counted /\ pc[t] = "delete" /\ range[t].addr \in Addr
  BY DEF IInv, Delete, Shape
<1>2. PICK b \in Addr : b = range[t].addr
  BY <1>1
<1>3. /\ pc' = [pc EXCEPT ![t] = "idle"] /\ range' = [range EXCEPT ![t] = NoRange]
      /\ UNCHANGED <<exists, mutex, at, driver, history>>
  BY DEF Delete, Goto
<1>4. \/ Found(b) = {} /\ ranges' = ranges
      \/ Found(b) # {} /\ ranges' = RemoveAt(ranges, First(Found(b)))
  BY <1>2 DEF Delete
<1>5. ranges \in Seq(MemRange)
  BY <1>1 DEF Types
<1>6. ASSUME Found(b) # {}
      PROVE  First(Found(b)) \in 1 .. Len(ranges) /\ ranges[First(Found(b))].addr = b
  <2>1. Found(b) \in SUBSET Nat /\ Found(b) \in SUBSET (1 .. Len(ranges))
    BY <1>5 DEF Found
  <2>a. Len(ranges) \in Nat
    BY <1>5
  <2>b. ASSUME NEW S, S = Found(b) PROVE \E k \in S : \A j \in S : k <= j
    BY <1>6, <2>1, <2>a, <2>b, SmallestExists
  <2>2. PICK k \in Found(b) : \A j \in Found(b) : k <= j
    BY <2>b
  <2>3. First(Found(b)) \in Found(b)
    BY <2>2 DEF First
  <2> QED BY <2>1, <2>3 DEF Found
<1>7. Types'
  <2>1. ranges' \in Seq(MemRange)
    BY <1>4, <1>5, <1>6, OccursRemove
  <2>2. NoRange \in MemRange
    BY MemAssumption DEF NoRange, MemRange
  <2> QED BY <1>1, <1>3, <2>1, <2>2 DEF Types, Steps, driver, history
<1>8. (\A u \in Thread \ {t} : pc'[u] = pc[u] /\ range'[u] = range[u]) /\ pc'[t] = "idle"
  BY <1>1, <1>3 DEF Types
<1>9. Shape'
  BY <1>1, <1>8 DEF Shape
<1>10. intact' = intact /\ failures' = failures /\ owned' = owned /\ live' = live
  BY <1>3 DEF driver, history
<1>11. ASSUME NEW a \in Addr
       PROVE  /\ ~ Claims(t, a)' /\ ~ Arrives(t, a)' /\ ~ Arrives(t, a)
              /\ (Claims(t, a) <=> b = a)
  BY <1>1, <1>2, <1>8 DEF Claims, Arrives
<1>12. ASSUME intact PROVE Found(b) # {}
  BY <1>1, <1>2, <1>12, ClaimFound DEF Counted
<1>13. ASSUME NEW a \in Addr, intact
       PROVE  Gap(t, a)' = Gap(t, a) /\ Net(t, a)' = Net(t, a)
  <2>1. Cardinality(Found(a))' = Cardinality(Found(a)) - One(b = a)
    <3>1. ranges' = RemoveAt(ranges, First(Found(b)))
      BY <1>4, <1>12, <1>13
    <3>2. First(Found(b)) \in 1 .. Len(ranges) /\ ranges[First(Found(b))].addr = b
      BY <1>6, <1>12, <1>13
    <3>3. Found(a) = Occurs(ranges, a)
          /\ Found(a)' = Occurs(RemoveAt(ranges, First(Found(b))), a)
      BY <3>1 DEF Found, Occurs
    <3> QED BY <1>5, <3>2, <3>3, OccursRemove
  <2>2. Cardinality(Found(a)) \in Nat /\ owned[a] \in Nat
    BY <1>1, <1>5, OccursFinite DEF Found, Occurs, Types
  <2>3. /\ One(Claims(t, a)) = One(b = a) /\ One(Claims(t, a)') = 0
        /\ One(Arrives(t, a)') = One(Arrives(t, a)) /\ One(b = a) \in Nat
    BY <1>11 DEF One
  <2>4. Gap(t, a)' = Gap(t, a)
    BY <1>10, <2>1, <2>2, <2>3 DEF Gap
  <2>5. Net(t, a)' = Net(t, a)
    BY <1>10, <2>3 DEF Net
  <2> QED BY <2>4, <2>5
<1> QED BY <1>7, <1>8, <1>9, <1>10, <1>13, Balance

\* A connection ends, and memory_transfer_routine runs: only managers move.
LEMMA ManagerInv ==
    ASSUME IInv, NEW m \in Manager, Disconnect(m) \/ Lock(m) \/ Prefetch(m) \/ Unlock(m)
    PROVE  IInv'
<1>1. Types /\ m \notin Thread
  BY MemAssumption DEF IInv
<1>2. ranges' = ranges /\ UNCHANGED <<range, driver, history>>
  BY DEF Disconnect, Lock, Prefetch, Unlock, list
<1>3. pc' = pc \/ \E here \in Steps : pc' = [pc EXCEPT ![m] = here]
  BY DEF Disconnect, Lock, Prefetch, Unlock, Enter, Purpose, Goto, Steps
<1>4. Types'
  <2>1. pc' \in [Thread \cup Manager -> Steps]
    BY <1>1, <1>3 DEF Types
  <2> QED BY <1>1, <1>2, <2>1 DEF Types, driver, history
<1>5. \A u \in Thread : pc'[u] = pc[u] /\ range'[u] = range[u]
  BY <1>1, <1>2, <1>3 DEF Types
<1> QED BY <1>2, <1>4, <1>5, StillInv DEF history

LEMMA NextInv == IInv /\ [Next]_vars => IInv'
<1> SUFFICES ASSUME IInv, [Next]_vars PROVE IInv'
  OBVIOUS
<1>1. CASE \E t \in Thread : Allocate(t) \/ Free(t)
  BY <1>1, AllocateInv, FreeInv
<1>2. CASE \E m \in Manager : Disconnect(m)
  BY <1>2, ManagerInv
<1>3. CASE \E t \in Thread \cup Manager : Resume(t)
  <2>1. PICK t \in Thread \cup Manager : Resume(t)
    BY <1>3
  <2>2. CASE t \in Thread /\ (GetDevice(t) \/ Insert(t) \/ Advise(t) \/ Delete(t))
    BY <2>2, GetDeviceInv, InsertInv, AdviseInv, DeleteInv
  <2>3. CASE t \in Manager /\ (Lock(t) \/ Prefetch(t) \/ Unlock(t))
    BY <2>3, ManagerInv
  <2>4. CASE Create(t)
    BY <2>1, <2>4, CreateInv
  <2> QED BY <2>1, <2>2, <2>3, <2>4 DEF Resume
<1>4. CASE UNCHANGED vars
  <2>1. UNCHANGED <<ranges, pc, range, driver, intact, reused>>
    BY <1>4 DEF vars, list, history
  <2>2. Types'
    BY <2>1 DEF IInv, Types, driver
  <2> QED BY <2>1, <2>2, StillInv
<1> QED BY <1>1, <1>2, <1>3, <1>4 DEF Next

LEMMA Invariance == Spec => []IInv
<1> QED BY InitInv, NextInv, PTL DEF Spec

-----------------------------------------------------------------------------
(* The sizes in the list, while nothing failed and nothing was dropped.    *)

\* The first of some positions in a list is one of them.
LEMMA FirstIn ==
    ASSUME NEW s \in Seq(MemRange), NEW S \in SUBSET (1 .. Len(s)), S # {}
    PROVE  First(S) \in S
<1>1. Len(s) \in Nat
  OBVIOUS
<1>2. PICK k \in S : \A j \in S : k <= j
  BY <1>1, SmallestExists
<1> QED BY <1>2 DEF First

\* Nobody leaves a live address that was never handed out too early; its
\* range and those about to be inserted have the size the driver gave.
Sound(a) ==
    /\ \A t \in Thread : Arrives(t, a) => range[t].size = live[a]
    /\ live[a] > 0 =>
          /\ \A i \in Found(a) : ranges[i].size = live[a]
          /\ \A t \in Thread : ~ Leaving(t, a)

Sized == intact /\ failures = 0 => \A a \in Addr \ reused : Sound(a)

\* An address that is not live is in the list only for those who leave it,
\* and a pointer to it is held only when nobody is about to hand one out.
LEMMA Vacant ==
    ASSUME IInv, intact, failures = 0, NEW a \in Addr
    PROVE  /\ live[a] = 0 \/ owned[a] > 0 => \A t \in Thread : ~ Arrives(t, a)
           /\ live[a] = 0 /\ (\A t \in Thread : ~ Leaving(t, a)) => Found(a) = {}
<1>1. /\ Cardinality(Found(a)) = owned[a] + Cardinality(Claimants(a))
      /\ owned[a] + Cardinality(Arriving(a)) = One(live[a] > 0)
  BY DEF IInv, Counted, Exact
<1>2. /\ owned[a] \in Nat /\ live[a] \in Nat /\ ranges \in Seq(MemRange)
      /\ range \in [Thread -> MemRange]
  BY MemAssumption DEF IInv, Types
<1>3. IsFiniteSet(Claimants(a)) /\ IsFiniteSet(Arriving(a)) /\ IsFiniteSet(Found(a))
  <2>1. Claimants(a) \in SUBSET Thread /\ Arriving(a) \in SUBSET Thread
    BY DEF Claimants, Arriving
  <2>2. IsFiniteSet(Occurs(ranges, a)) /\ Found(a) = Occurs(ranges, a)
    BY <1>2, OccursFinite DEF Found, Occurs
  <2> QED BY <2>1, <2>2, MemAssumption, FS_Subset
<1>4. Cardinality(Arriving(a)) \in Nat /\ (Cardinality(Arriving(a)) = 0 <=> Arriving(a) = {})
  BY <1>3, FS_CardinalityType, FS_EmptySet
<1>5. ASSUME live[a] = 0 \/ owned[a] > 0 PROVE Arriving(a) = {}
  BY <1>1, <1>2, <1>4, <1>5 DEF One
<1>6. ASSUME live[a] = 0, \A t \in Thread : ~ Leaving(t, a) PROVE Found(a) = {}
  <2>1. ASSUME NEW t \in Thread, Claims(t, a) PROVE FALSE
    <3>1. ~ Arrives(t, a)
      BY <1>5, <1>6 DEF Arriving
    <3>2. range[t].size = 0 /\ range[t].addr = a /\ pc[t] \in {"create", "delete"}
      BY <2>1, <3>1 DEF Claims, Arrives, IInv, Shape
    <3>3. range[t] = [addr |-> a, size |-> 0]
      BY <1>2, <3>2 DEF MemRange
    <3> QED BY <1>6, <3>2, <3>3 DEF Leaving
  <2>2. Claimants(a) = {}
    BY <2>1 DEF Claimants
  <2>3. Cardinality(Claimants(a)) = 0
    BY <2>2, FS_EmptySet
  <2>4. owned[a] = 0
    BY <1>1, <1>2, <1>4, <1>6 DEF One
  <2>5. Cardinality(Found(a)) = 0
    BY <1>1, <2>3, <2>4
  <2> QED BY <1>3, <2>5, FS_EmptySet
<1> QED BY <1>5, <1>6 DEF Arriving

LEMMA SizedInit == Init => Sized
<1> SUFFICES ASSUME Init, NEW a \in Addr PROVE Sound(a)
  BY DEF Sized
<1> QED BY DEF Init, Sound, Arrives

\* The step of one thread, for an address whose ranges it does not disturb.
LEMMA SoundKept ==
    ASSUME NEW t \in Thread, NEW a \in Addr, Sound(a), live'[a] = live[a],
           \A u \in Thread \ {t} : pc'[u] = pc[u] /\ range'[u] = range[u],
           Arrives(t, a)' => range'[t].size = live[a],
           live[a] > 0 => ~ Leaving(t, a)',
           live[a] > 0 => \A i \in Found(a)' : ranges'[i].size = live[a]
    PROVE  Sound(a)'
<1>1. ASSUME NEW u \in Thread, Arrives(u, a)' PROVE range'[u].size = live'[a]
  BY <1>1 DEF Sound, Arrives
<1>2. ASSUME live'[a] > 0, NEW u \in Thread PROVE ~ Leaving(u, a)'
  BY <1>2 DEF Sound, Leaving
<1> QED BY <1>1, <1>2 DEF Sound

LEMMA AllocateSized ==
    ASSUME IInv, Sized, NEW t \in Thread, Allocate(t), NEW a \in Addr \ reused',
           intact', failures' = 0
    PROVE  Sound(a)'
<1>1. Types /\ pc[t] = "idle"
  BY DEF IInv, Allocate
<1>2. failures \in Nat
  BY <1>1, MemAssumption DEF Types
<1>3. PICK s \in 1 .. MaxSize, b \in Addr :
         /\ live[b] = 0 /\ live' = [live EXCEPT ![b] = s]
         /\ range' = [range EXCEPT ![t] = [addr |-> b, size |-> s]]
         /\ reused' = IF \E u \in Thread : Leaving(u, b) THEN reused \cup {b} ELSE reused
         /\ failures' = failures
  BY <1>2 DEF Allocate, Fail
<1>4. pc' = [pc EXCEPT ![t] = "device"] /\ ranges' = ranges /\ intact' = intact
  BY DEF Allocate, Goto, list
<1>5. /\ \A u \in Thread \ {t} : pc'[u] = pc[u] /\ range'[u] = range[u]
      /\ pc'[t] = "device" /\ range'[t] = [addr |-> b, size |-> s] /\ s > 0
  BY <1>1, <1>3, <1>4 DEF Types
<1>6. a \notin reused /\ Sound(a)
  BY <1>3, <1>4 DEF Sized
<1>7. CASE a = b
  <2>1. \A u \in Thread : ~ Leaving(u, a)
    BY <1>3, <1>7
  <2>2. Found(a) = {} /\ \A u \in Thread : ~ Arrives(u, a)
    BY <1>3, <1>4, <1>7, <2>1, Vacant
  <2>3. Found(a)' = {}
    BY <1>4, <2>2 DEF Found
  <2>4. live'[a] = s
    BY <1>1, <1>3, <1>7 DEF Types
  <2>5. ASSUME NEW u \in Thread, Arrives(u, a)' PROVE range'[u].size = live'[a]
    BY <1>5, <2>2, <2>4, <2>5 DEF Arrives
  <2>6. ASSUME NEW u \in Thread PROVE ~ Leaving(u, a)'
    BY <1>5, <2>1 DEF Leaving
  <2> QED BY <2>3, <2>5, <2>6 DEF Sound
<1>8. CASE a # b
  <2>1. live'[a] = live[a]
    BY <1>1, <1>3, <1>8 DEF Types
  <2>2. ~ Arrives(t, a)' /\ ~ Leaving(t, a)'
    BY <1>5, <1>8 DEF Arrives, Leaving
  <2>3. live[a] > 0 => \A i \in Found(a)' : ranges'[i].size = live[a]
    BY <1>4, <1>6 DEF Sound, Found
  <2> QED BY <1>5, <1>6, <2>1, <2>2, <2>3, SoundKept
<1> QED BY <1>7, <1>8

LEMMA FreeSized ==
    ASSUME IInv, Sized, NEW t \in Thread, Free(t), NEW a \in Addr \ reused',
           intact', failures' = 0
    PROVE  Sound(a)'
<1>1. Types /\ pc[t] = "idle"
  BY DEF IInv, Free
<1>2. PICK b \in Addr :
         /\ owned[b] > 0
         /\ IF live[b] > 0
            THEN /\ live' = [live EXCEPT ![b] = 0]
                 /\ range' = [range EXCEPT ![t] = [addr |-> b, size |-> 0]]
                 /\ Goto(t, IF exists THEN "delete" ELSE "create")
            ELSE UNCHANGED <<live, range, pc>>
  BY DEF Free
<1>3. ranges' = ranges /\ UNCHANGED <<failures, intact, reused>>
  BY DEF Free, list, history
<1>4. a \notin reused /\ intact /\ failures = 0 /\ Sound(a)
  BY <1>3 DEF Sized
<1>5. Found(a)' = Found(a)
  BY <1>3 DEF Found
<1>6. CASE live[b] > 0
  <2>1. PICK here \in {"delete", "create"} : pc' = [pc EXCEPT ![t] = here]
    BY <1>2, <1>6 DEF Goto
  <2>2. /\ \A u \in Thread \ {t} : pc'[u] = pc[u] /\ range'[u] = range[u]
        /\ pc'[t] = here /\ range'[t] = [addr |-> b, size |-> 0]
    BY <1>1, <1>2, <1>6, <2>1 DEF Types
  <2>3. ~ Arrives(t, a)'
    BY <2>2 DEF Arrives
  <2>4. CASE a = b
    <3>1. live'[a] = 0
      BY <1>1, <1>2, <1>6, <2>4 DEF Types
    <3>2. \A u \in Thread : ~ Arrives(u, a)
      BY <1>2, <1>4, <2>4, Vacant
    <3>3. \A u \in Thread : ~ Arrives(u, a)'
      BY <2>2, <2>3, <3>2 DEF Arrives
    <3> QED BY <3>1, <3>3 DEF Sound
  <2>5. CASE a # b
    <3>1. live'[a] = live[a]
      BY <1>1, <1>2, <1>6, <2>5 DEF Types
    <3>2. ~ Leaving(t, a)'
      BY <2>2, <2>5 DEF Leaving
    <3>3. live[a] > 0 => \A i \in Found(a)' : ranges'[i].size = live[a]
      BY <1>3, <1>4, <1>5 DEF Sound
    <3> QED BY <1>4, <2>2, <2>3, <3>1, <3>2, <3>3, SoundKept
  <2> QED BY <2>4, <2>5
<1>7. CASE ~ live[b] > 0
  BY <1>2, <1>3, <1>4, <1>5, <1>7 DEF Sound, Arrives, Leaving
<1> QED BY <1>6, <1>7

\* The steps between, which the driver has no part in.
LEMMA StepSized ==
    ASSUME IInv, Sized, NEW t \in Thread,
           GetDevice(t) \/ Insert(t) \/ Advise(t) \/ Delete(t),
           NEW a \in Addr \ reused', intact', failures' = 0
    PROVE  Sound(a)'
<1>1. Types /\ Shape
  BY DEF IInv
<1>2. live' = live /\ intact' = intact /\ reused' = reused
  BY DEF GetDevice, Insert, Advise, Delete, history, driver
<1>3. failures = 0
  <2>1. failures \in Nat
    BY <1>1, MemAssumption DEF Types
  <2> QED BY <2>1 DEF GetDevice, Insert, Advise, Delete, Fail, driver
<1>4. Sound(a)
  BY <1>2, <1>3 DEF Sized
<1>5. /\ ranges \in Seq(MemRange) /\ range[t] \in MemRange
      /\ range \in [Thread -> MemRange] /\ pc \in [Thread \cup Manager -> Steps]
  BY <1>1 DEF Types
<1>6. CASE GetDevice(t)
  <2>1. PICK here \in {"insert", "create", "idle"} : pc' = [pc EXCEPT ![t] = here]
    BY <1>1, <1>6, MemAssumption DEF GetDevice, Enter, Goto, Purpose, Shape
  <2>2. pc[t] = "device" /\ ranges' = ranges /\ range' = range /\ range[t].size > 0
    BY <1>1, <1>6 DEF GetDevice, list, Shape
  <2>3. (\A u \in Thread \ {t} : pc'[u] = pc[u] /\ range'[u] = range[u]) /\ pc'[t] = here
    BY <1>5, <2>1, <2>2
  <2>4. Arrives(t, a)' => Arrives(t, a)
    BY <2>2, <2>3 DEF Arrives
  <2>5. ~ Leaving(t, a)'
    BY <2>2, <2>3 DEF Leaving
  <2>6. live[a] > 0 => \A i \in Found(a)' : ranges'[i].size = live[a]
    BY <1>4, <2>2 DEF Sound, Found
  <2>7. Arrives(t, a)' => range'[t].size = live[a]
    BY <1>4, <2>2, <2>4 DEF Sound
  <2> QED BY <1>2, <1>4, <2>3, <2>5, <2>6, <2>7, SoundKept
<1>7. CASE Insert(t)
  <2>1. /\ pc[t] = "insert" /\ pc' = [pc EXCEPT ![t] = "advise"]
        /\ ranges' = <<range[t]>> \o ranges /\ range' = range
    BY <1>7 DEF Insert, Goto
  <2>2. (\A u \in Thread \ {t} : pc'[u] = pc[u] /\ range'[u] = range[u])
        /\ pc'[t] = "advise"
    BY <1>5, <2>1
  <2>3. (Arrives(t, a)' <=> range[t].addr = a) /\ ~ Leaving(t, a)'
        /\ (Arrives(t, a) <=> range[t].addr = a)
    BY <2>1, <2>2 DEF Arrives, Leaving
  <2>4. range[t].addr = a => range[t].size = live[a]
    BY <1>4, <2>3 DEF Sound
  <2>5. ASSUME live[a] > 0, NEW i \in Found(a)' PROVE ranges'[i].size = live[a]
    <3>1. /\ Len(ranges') = Len(ranges) + 1 /\ ranges'[1] = range[t]
          /\ \A k \in 2 .. Len(ranges') : k - 1 \in 1 .. Len(ranges) /\ ranges'[k] = ranges[k - 1]
          /\ DOMAIN ranges' = 1 .. Len(ranges') /\ DOMAIN ranges = 1 .. Len(ranges)
          /\ Len(ranges) \in Nat
      BY <1>5, <2>1
    <3>2. i \in 1 .. Len(ranges') /\ ranges'[i].addr = a
      BY <2>5, <3>1 DEF Found
    <3>3. CASE i = 1
      BY <2>4, <3>1, <3>2, <3>3
    <3>4. CASE i # 1
      <4>1. i \in 2 .. Len(ranges')
        BY <3>1, <3>2, <3>4
      <4>2. i - 1 \in Found(a) /\ ranges'[i] = ranges[i - 1]
        BY <3>1, <3>2, <4>1 DEF Found
      <4> QED BY <1>4, <2>5, <4>2 DEF Sound
    <3> QED BY <3>3, <3>4
  <2>6. Arrives(t, a)' => range'[t].size = live[a]
    BY <2>1, <2>3, <2>4
  <2> QED BY <1>2, <1>4, <2>2, <2>3, <2>5, <2>6, SoundKept
<1>8. CASE Advise(t) \/ Delete(t)
  <2>1. pc' = [pc EXCEPT ![t] = "idle"] /\ range' = [range EXCEPT ![t] = NoRange]
    BY <1>8 DEF Advise, Delete, Goto
  <2>2. (\A u \in Thread \ {t} : pc'[u] = pc[u] /\ range'[u] = range[u]) /\ pc'[t] = "idle"
    BY <1>5, <2>1
  <2>3. ~ Arrives(t, a)' /\ ~ Leaving(t, a)'
    BY <2>2 DEF Arrives, Leaving
  <2>4. ASSUME NEW i \in Found(a)' PROVE \E k \in Found(a) : ranges'[i] = ranges[k]
    <3>1. CASE ranges' = ranges
      BY <2>4, <3>1 DEF Found
    <3>2. CASE ranges' # ranges
      <4>1. PICK S : S = Found(range[t].addr) /\ S # {} /\ ranges' = RemoveAt(ranges, First(S))
        BY <1>8, <3>2 DEF Advise, Delete, list
      <4>2. S \in SUBSET (1 .. Len(ranges))
        BY <1>5, <4>1 DEF Found
      <4>3. PICK k \in 1 .. Len(ranges) : k = First(S)
        BY <1>5, <4>1, <4>2, FirstIn
      <4>4. Without(ranges', ranges, k)
        BY <1>5, <4>1, <4>3, RemoveAtParts
      <4>5. i \in 1 .. Len(ranges') /\ ranges'[i].addr = a
        BY <2>4, <4>4 DEF Found, Without
      <4>6. PICK h \in 1 .. Len(ranges) : ranges'[i] = ranges[h]
        <5>1. CASE i < k
          <6>1. i \in 1 .. Len(ranges) /\ ranges'[i] = ranges[i]
            BY <4>3, <4>4, <4>5, <5>1, <1>5 DEF Without
          <6> QED BY <6>1
        <5>2. CASE ~ (i < k)
          <6>1. i + 1 \in 1 .. Len(ranges) /\ ranges'[i] = ranges[i + 1]
            BY <4>3, <4>4, <4>5, <5>2, <1>5 DEF Without
          <6> QED BY <6>1
        <5> QED BY <5>1, <5>2
      <4>7. h \in Found(a)
        BY <1>5, <4>5, <4>6 DEF Found
      <4> QED BY <4>6, <4>7
    <3> QED BY <3>1, <3>2
  <2>5. live[a] > 0 => \A i \in Found(a)' : ranges'[i].size = live[a]
    BY <1>4, <2>4 DEF Sound
  <2> QED BY <1>2, <1>4, <2>2, <2>3, <2>5, SoundKept
<1> QED BY <1>6, <1>7, <1>8

\* Only an empty list is replaced as long as nothing was dropped.
LEMMA CreateSized ==
    ASSUME IInv, Sized, NEW t \in Thread \cup Manager, Create(t),
           NEW a \in Addr \ reused', intact', failures' = 0
    PROVE  Sound(a)'
<1>1. Types /\ pc[t] = "create"
  BY DEF IInv, Create
<1>2. /\ pc' = [pc EXCEPT ![t] = Purpose(t)] /\ ranges = <<>> /\ ranges' = <<>>
      /\ intact /\ failures = 0 /\ UNCHANGED <<range, live, reused>>
  BY DEF Create, Goto, driver
<1>3. Sound(a)
  BY <1>2 DEF Sized
<1>4. Found(a)' = {}
  BY <1>2 DEF Found
<1>5. range \in [Thread -> MemRange] /\ pc \in [Thread \cup Manager -> Steps]
  BY <1>1 DEF Types
<1>6. ASSUME NEW u \in Thread
      PROVE  (Arrives(u, a)' => Arrives(u, a)) /\ (Leaving(u, a)' => Leaving(u, a))
  <2>1. CASE u = t
    <3>1. u \notin Manager
      BY MemAssumption
    <3>2. pc'[u] = IF range[u].size = 0 THEN "delete" ELSE "insert"
      BY <1>2, <1>5, <2>1, <3>1 DEF Purpose
    <3>3. range[u].size \in Nat
      BY <1>5, MemAssumption DEF MemRange
    <3> QED BY <1>1, <1>2, <2>1, <3>2, <3>3 DEF Arrives, Leaving
  <2>2. CASE u # t
    BY <1>2, <1>5, <2>2 DEF Arrives, Leaving
  <2> QED BY <2>1, <2>2
<1> QED BY <1>2, <1>3, <1>4, <1>6 DEF Sound

LEMMA SizedNext == IInv /\ Sized /\ [Next]_vars => Sized'
<1> SUFFICES ASSUME IInv, Sized, [Next]_vars, intact', failures' = 0,
                    NEW a \in Addr \ reused'
             PROVE  Sound(a)'
  BY DEF Sized
<1>1. ASSUME NEW t \in Thread, Allocate(t) \/ Free(t) PROVE Sound(a)'
  BY <1>1, AllocateSized, FreeSized
<1>2. ASSUME NEW t \in Thread, GetDevice(t) \/ Insert(t) \/ Advise(t) \/ Delete(t)
      PROVE  Sound(a)'
  BY <1>2, StepSized
<1>3. ASSUME NEW t \in Thread \cup Manager, Create(t) PROVE Sound(a)'
  BY <1>3, CreateSized
<1>4. ASSUME NEW m \in Manager, Disconnect(m) \/ Lock(m) \/ Prefetch(m) \/ Unlock(m)
      PROVE  Sound(a)'
  <2>1. /\ UNCHANGED <<ranges, range, live, intact, failures, reused>>
        /\ pc' = pc \/ \E here \in Steps : pc' = [pc EXCEPT ![m] = here]
    BY <1>4 DEF Disconnect, Lock, Prefetch, Unlock, list, driver, history, Enter,
                Goto, Purpose, Steps
  <2>2. \A u \in Thread : pc'[u] = pc[u]
    BY <2>1, MemAssumption DEF IInv, Types
  <2>3. Sound(a)
    BY <2>1 DEF Sized
  <2> QED BY <2>1, <2>2, <2>3 DEF Sound, Arrives, Leaving, Found
<1>5. CASE UNCHANGED vars
  <2>1. UNCHANGED <<ranges, range, live, intact, failures, reused, pc>>
    BY <1>5 DEF vars, list, driver, history
  <2>2. Sound(a)
    BY <2>1 DEF Sized
  <2> QED BY <2>1, <2>2 DEF Sound, Arrives, Leaving, Found
<1> QED BY <1>1, <1>2, <1>3, <1>4, <1>5 DEF Next, Resume

-----------------------------------------------------------------------------
(* The sum of the list, and who walks it.                                  *)

\* A manager in its walk holds the mutex and is within the list.
Walking ==
    \A m \in Manager : pc[m] = "prefetch" => mutex = m /\ at[m] <= Len(ranges)

Account ==
    /\ exists \in BOOLEAN /\ mutex \in Manager \cup {None}
    /\ at \in [Manager -> Nat] /\ dropped \in Nat
    /\ UsedIsSum /\ Walking

LEMMA AccountInit == Init => Account
<1> SUFFICES ASSUME Init PROVE Account
  OBVIOUS
<1>1. UsedIsSum
  BY SumOfEmpty DEF Init, UsedIsSum
<1>2. \A m \in Manager : pc[m] # "prefetch"
  BY DEF Init
<1> QED BY <1>1, <1>2 DEF Init, Account, Walking

\* A step under the mutex, or one that leaves the list alone.
LEMMA ThreadAccount ==
    ASSUME IInv, Account, UsedIsSum', UNCHANGED <<mutex, at>>,
           exists' \in BOOLEAN, dropped' \in Nat,
           NEW t \in Thread \cup Manager, NEW here \in Steps \ {"prefetch"},
           pc' = pc \/ pc' = [pc EXCEPT ![t] = here],
           mutex = None \/ ranges' = ranges
    PROVE  Account'
<1>1. pc \in [Thread \cup Manager -> Steps] /\ None \notin Manager
  BY MemAssumption DEF IInv, Types
<1>2. \A m \in Manager : pc'[m] = "prefetch" => pc[m] = "prefetch"
  BY <1>1
<1>3. Walking'
  BY <1>1, <1>2 DEF Account, Walking
<1> QED BY <1>3 DEF Account

LEMMA CreateAccount ==
    ASSUME IInv, Account, NEW t \in Thread \cup Manager, Create(t)
    PROVE  Account'
<1>1. /\ exists' = TRUE /\ ranges' = <<>> /\ dropped' = dropped + SumOf(ranges)
      /\ used' = used /\ mutex = None /\ UNCHANGED <<mutex, at>>
      /\ pc' = [pc EXCEPT ![t] = Purpose(t)]
  BY DEF Create, Goto
<1>2. ranges \in Seq(MemRange) /\ SumOf(ranges) \in Nat /\ dropped \in Nat
  BY SizesType DEF IInv, Types, Account
<1>3. UsedIsSum'
  <2>1. SumOf(ranges') = 0
    BY <1>1, SumOfEmpty
  <2>2. used = SumOf(ranges) + dropped
    BY DEF Account, UsedIsSum
  <2>3. used' = SumOf(ranges') + dropped'
    BY <1>1, <1>2, <2>1, <2>2
  <2> QED BY <2>3 DEF UsedIsSum
<1>4. Purpose(t) \in Steps \ {"prefetch"}
  BY DEF Purpose, Steps
<1>5. dropped' \in Nat /\ exists' \in BOOLEAN
  BY <1>1, <1>2
<1> QED BY <1>1, <1>3, <1>4, <1>5, ThreadAccount

LEMMA InsertAccount == ASSUME IInv, Account, NEW t \in Thread, Insert(t) PROVE Account'
<1>1. /\ used' = used + range[t].size /\ ranges' = <<range[t]>> \o ranges
      /\ mutex = None /\ UNCHANGED <<exists, mutex, at, dropped>>
      /\ pc' = [pc EXCEPT ![t] = "advise"]
  BY DEF Insert, Goto, history
<1>2. range[t] \in MemRange /\ ranges \in Seq(MemRange)
  BY DEF IInv, Types
<1>3. range[t].size \in Nat /\ SumOf(ranges) \in Nat /\ dropped \in Nat
  <2>1. range[t].size \in Nat
    BY <1>2, MemAssumption DEF MemRange
  <2> QED BY <1>2, <2>1, SizesType DEF Account
<1>4. UsedIsSum'
  <2>1. SumOf(ranges') = range[t].size + SumOf(ranges)
    BY <1>1, <1>2, SumOfPrepend
  <2>2. used = SumOf(ranges) + dropped
    BY DEF Account, UsedIsSum
  <2>3. used' = SumOf(ranges') + dropped'
    BY <1>1, <1>3, <2>1, <2>2
  <2> QED BY <2>3 DEF UsedIsSum
<1>5. "advise" \in Steps \ {"prefetch"}
  BY DEF Steps
<1>6. exists' \in BOOLEAN /\ dropped' \in Nat
  BY <1>1 DEF Account
<1> QED BY <1>1, <1>4, <1>5, <1>6, ThreadAccount

LEMMA DeleteAccount == ASSUME IInv, Account, NEW t \in Thread, Delete(t) PROVE Account'
<1>1. /\ mutex = None /\ UNCHANGED <<exists, mutex, at, dropped>>
      /\ pc' = [pc EXCEPT ![t] = "idle"]
  BY DEF Delete, Goto, history
<1>2. PICK S : S = Found(range[t].addr)
  OBVIOUS
<1>3. \/ S = {} /\ ranges' = ranges /\ used' = used
      \/ /\ S # {} /\ ranges' = RemoveAt(ranges, First(S))
         /\ used' = used - ranges[First(S)].size
  BY <1>2 DEF Delete
<1>4. ranges \in Seq(MemRange) /\ S \in SUBSET (1 .. Len(ranges))
  BY <1>2 DEF IInv, Types, Found
<1>5. dropped \in Nat /\ used = SumOf(ranges) + dropped
  BY DEF Account, UsedIsSum
<1>6. UsedIsSum'
  <2>1. CASE S = {}
    BY <1>1, <1>3, <1>5, <2>1 DEF UsedIsSum, SumOf
  <2>2. CASE S # {}
    <3>1. PICK k \in 1 .. Len(ranges) : k = First(S)
      BY <1>4, <2>2, FirstIn
    <3>2. SumOf(ranges) = ranges[k].size + SumOf(RemoveAt(ranges, k))
      BY <1>4, SumOfRemove
    <3>3. SumOf(RemoveAt(ranges, k)) \in Nat /\ ranges[k].size \in Nat
      <4>1. RemoveAt(ranges, k) \in Seq(MemRange)
        BY <1>4, RemoveAtParts DEF Without
      <4> QED BY <1>4, <4>1, SizesType
    <3>4. ranges' = RemoveAt(ranges, k) /\ used' = used - ranges[k].size
      BY <1>3, <2>2, <3>1
    <3>5. SumOf(ranges') = SumOf(RemoveAt(ranges, k))
      BY <3>4
    <3>6. used' = SumOf(ranges') + dropped'
      BY <1>1, <1>5, <3>2, <3>3, <3>4, <3>5
    <3> QED BY <3>6 DEF UsedIsSum
  <2> QED BY <2>1, <2>2
<1>7. "idle" \in Steps \ {"prefetch"}
  BY DEF Steps
<1>8. exists' \in BOOLEAN /\ dropped' \in Nat
  BY <1>1 DEF Account
<1> QED BY <1>1, <1>6, <1>7, <1>8, ThreadAccount

\* Steps that touch neither list nor sum.
LEMMA AsideAccount ==
    ASSUME IInv, Account, NEW t \in Thread,
           Allocate(t) \/ GetDevice(t) \/ Advise(t) \/ Free(t)
    PROVE  Account'
<1>1. UNCHANGED <<exists, ranges, used, mutex, at, dropped>>
  BY DEF Allocate, GetDevice, Advise, Free, list, history
<1>2. \E here \in Steps \ {"prefetch"} : pc' = pc \/ pc' = [pc EXCEPT ![t] = here]
  BY DEF Allocate, GetDevice, Advise, Free, Enter, Purpose, Goto, Steps
<1>3. UsedIsSum'
  BY <1>1 DEF Account, UsedIsSum, SumOf
<1>4. exists' \in BOOLEAN /\ dropped' \in Nat
  BY <1>1 DEF Account
<1> QED BY <1>1, <1>2, <1>3, <1>4, ThreadAccount

LEMMA ManagerAccount ==
    ASSUME IInv, Account, NEW m \in Manager,
           Disconnect(m) \/ Lock(m) \/ Prefetch(m) \/ Unlock(m)
    PROVE  Account'
<1>1. UNCHANGED <<exists, ranges, used, dropped>>
  BY DEF Disconnect, Lock, Prefetch, Unlock, list, history
<1>2. UsedIsSum'
  BY <1>1 DEF Account, UsedIsSum, SumOf
<1>3. /\ pc \in [Thread \cup Manager -> Steps] /\ None \notin Manager
      /\ at \in [Manager -> Nat] /\ mutex \in Manager \cup {None}
      /\ ranges \in Seq(MemRange) /\ Walking
  BY MemAssumption DEF IInv, Types, Account
<1>4. CASE Disconnect(m)
  <2>1. UNCHANGED <<mutex, at>>
        /\ \E here \in Steps \ {"prefetch"} : pc' = [pc EXCEPT ![m] = here]
    BY <1>4 DEF Disconnect, Enter, Purpose, Goto, Steps
  <2>2. exists' \in BOOLEAN /\ dropped' \in Nat
    BY <1>1 DEF Account
  <2> QED BY <1>1, <1>2, <2>1, <2>2, ThreadAccount
<1>5. CASE Lock(m)
  <2>1. /\ mutex = None /\ mutex' = m /\ at' = [at EXCEPT ![m] = 0]
        /\ pc' = [pc EXCEPT ![m] = "prefetch"]
    BY <1>5 DEF Lock, Goto
  <2>2. Walking'
    BY <1>1, <1>3, <2>1 DEF Walking
  <2> QED BY <1>1, <1>2, <1>3, <2>1, <2>2 DEF Account
<1>6. CASE Prefetch(m)
  <2>1. /\ pc[m] = "prefetch" /\ at[m] < Len(ranges) /\ at' = [at EXCEPT ![m] = @ + 1]
        /\ UNCHANGED <<mutex, pc>>
    BY <1>6 DEF Prefetch
  <2>2. Walking'
    BY <1>1, <1>3, <2>1 DEF Walking
  <2> QED BY <1>1, <1>2, <1>3, <2>1, <2>2 DEF Account
<1>7. CASE Unlock(m)
  <2>1. /\ pc[m] = "prefetch" /\ mutex' = None /\ pc' = [pc EXCEPT ![m] = "idle"]
        /\ at' = at
    BY <1>7 DEF Unlock, Goto
  <2>2. Walking'
    BY <1>1, <1>3, <2>1 DEF Walking
  <2> QED BY <1>1, <1>2, <1>3, <2>1, <2>2 DEF Account
<1> QED BY <1>4, <1>5, <1>6, <1>7

LEMMA AccountNext == IInv /\ Account /\ [Next]_vars => Account'
<1> SUFFICES ASSUME IInv, Account, [Next]_vars PROVE Account'
  OBVIOUS
<1>1. CASE \E t \in Thread : Allocate(t) \/ Free(t)
  BY <1>1, AsideAccount
<1>2. CASE \E m \in Manager : Disconnect(m)
  BY <1>2, ManagerAccount
<1>3. CASE \E t \in Thread \cup Manager : Resume(t)
  <2>1. PICK t \in Thread \cup Manager : Resume(t)
    BY <1>3
  <2>2. CASE t \in Thread /\ (GetDevice(t) \/ Insert(t) \/ Advise(t) \/ Delete(t))
    BY <2>2, AsideAccount, InsertAccount, DeleteAccount
  <2>3. CASE t \in Manager /\ (Lock(t) \/ Prefetch(t) \/ Unlock(t))
    BY <2>3, ManagerAccount
  <2>4. CASE Create(t)
    BY <2>1, <2>4, CreateAccount
  <2> QED BY <2>1, <2>2, <2>3, <2>4 DEF Resume
<1>4. CASE UNCHANGED vars
  BY <1>4 DEF Account, UsedIsSum, SumOf, Walking, vars, list, history
<1> QED BY <1>1, <1>2, <1>3, <1>4 DEF Next

LEMMA Accounted == Spec => []Account
<1> QED BY AccountInit, AccountNext, Invariance, PTL DEF Spec

-----------------------------------------------------------------------------
(* The theorems.                                                           *)

\* Every variable of the model keeps its type: in particular the address and
\* size a call is about are ones the driver could have given.
THEOREM TypeCorrect == Spec => []TypeOK
<1>1. IInv /\ Account => TypeOK
  <2> SUFFICES ASSUME IInv, Account PROVE TypeOK
    OBVIOUS
  <2>1. used \in Nat
    BY SizesType DEF IInv, Types, Account, UsedIsSum
  <2> QED BY <2>1 DEF IInv, Types, Account, TypeOK
<1> QED BY <1>1, Invariance, Accounted, PTL

\* g_used_memory is the sum of the sizes in the list, and of those that a
\* second init_list dropped, whatever threads, frees and refusals came
\* between: delete_mem takes off what some insertion added.
THEOREM UsedAddsUp == Spec => []UsedIsSum
<1>1. Account => UsedIsSum
  BY DEF Account
<1> QED BY <1>1, Accounted, PTL

\* delete_mem always finds a range of the address the application freed,
\* however many calls on it are under way and whatever the driver refused,
\* unless a second init_list dropped ranges.
THEOREM FreesFind == Spec => []FreeFindsRange
<1>1. IInv => FreeFindsRange
  <2> SUFFICES ASSUME IInv, NEW t \in Thread, pc[t] = "delete", intact
               PROVE  Found(range[t].addr) # {}
    BY DEF FreeFindsRange
  <2> QED BY ClaimFound DEF IInv, Shape, Counted
<1> QED BY <1>1, Invariance, PTL

\* With no call under way, none failed and no range dropped, the list has one
\* range for each live one and no other; and the sizes are the driver's too,
\* except at an address that was handed out while a free of it was under way.
THEOREM ListIsDriver == Spec => []ListMatches
<1>1. IInv /\ Sized => ListMatches
  <2> SUFFICES ASSUME IInv, Sized, Settled, NEW a \in Addr
               PROVE  /\ Cardinality(Found(a)) = IF live[a] > 0 THEN 1 ELSE 0
                      /\ a \notin reused => \A i \in Found(a) : ranges[i].size = live[a]
    BY DEF ListMatches
  <2>1. Claimants(a) = {} /\ Arriving(a) = {} /\ \A t \in Thread : ~ Leaving(t, a)
    BY DEF Claimants, Arriving, Claims, Arrives, Leaving, Settled
  <2>2. Exact(a) /\ owned[a] \in Nat /\ live[a] \in Nat
    BY MemAssumption DEF IInv, Counted, Types, Settled
  <2>3. Cardinality(Claimants(a)) = 0 /\ Cardinality(Arriving(a)) = 0
    BY <2>1, FS_EmptySet
  <2>4. Cardinality(Found(a)) = IF live[a] > 0 THEN 1 ELSE 0
    BY <2>2, <2>3 DEF Exact, One
  <2>5. ASSUME a \notin reused, NEW i \in Found(a) PROVE ranges[i].size = live[a]
    <3>1. live[a] # 0
      BY <2>1, <2>5, Vacant DEF Settled
    <3> QED BY <2>2, <2>5, <3>1 DEF Sized, Sound, Settled
  <2> QED BY <2>4, <2>5
<1>2. Spec => []Sized
  BY SizedInit, SizedNext, Invariance, PTL DEF Spec
<1> QED BY <1>1, <1>2, Invariance, PTL

LEMMA WalkKeeps ==
    ASSUME IInv, Account, [Next]_vars, NEW m \in Manager, pc[m] = "prefetch"
    PROVE  ranges' = ranges
<1>1. mutex # None
  BY MemAssumption DEF Account, Walking
<1>2. ASSUME NEW t \in Thread \cup Manager, Resume(t) PROVE ranges' = ranges
  BY <1>1, <1>2 DEF Resume, Create, GetDevice, Insert, Advise, Delete, Lock,
                    Prefetch, Unlock, list
<1>3. ASSUME NEW t \in Thread, Allocate(t) \/ Free(t) PROVE ranges' = ranges
  BY <1>3 DEF Allocate, Free, list
<1>4. ASSUME NEW n \in Manager, Disconnect(n) PROVE ranges' = ranges
  BY <1>4 DEF Disconnect, list
<1>5. CASE UNCHANGED vars
  BY <1>5 DEF vars, list
<1> QED BY <1>2, <1>3, <1>4, <1>5 DEF Next

\* While memory_transfer_routine walks the list, no thread inserts into it,
\* deletes from it or replaces it: each range is prefetched once.
THEOREM WalkIsUndisturbed == Spec => WalkUndisturbed
<1>1. IInv /\ Account /\ [Next]_vars
        => [\A m \in Manager : pc[m] = "prefetch" => ranges' = ranges]_vars
  BY WalkKeeps
<1> QED BY <1>1, Invariance, Accounted, PTL DEF Spec, WalkUndisturbed

\* No lock is left behind: a thread that holds the mutex is in its walk.
Holding == mutex # None => pc[mutex] = "prefetch"

LEMMA HoldingNext == IInv /\ Account /\ Holding /\ [Next]_vars => Holding'
<1> SUFFICES ASSUME IInv, Account, Holding, [Next]_vars, mutex' # None
             PROVE  pc'[mutex'] = "prefetch"
  BY DEF Holding
<1>1. /\ pc \in [Thread \cup Manager -> Steps] /\ mutex \in Manager \cup {None}
      /\ None \notin Manager /\ Thread \cap Manager = {}
  BY MemAssumption DEF IInv, Types, Account
<1>2. CASE UNCHANGED <<mutex, pc>>
  BY <1>2 DEF Holding
<1>3. ASSUME NEW t \in Thread, Allocate(t) \/ Free(t) \/ GetDevice(t) \/ Advise(t)
      PROVE  pc'[mutex'] = "prefetch"
  <2>1. pc[t] # "prefetch" /\ mutex' = mutex
    BY <1>3 DEF Allocate, Free, GetDevice, Advise, list
  <2>2. \A m \in Manager : pc'[m] = pc[m]
    BY <1>1, <1>3 DEF Allocate, Free, GetDevice, Advise, Enter, Goto
  <2> QED BY <1>1, <2>1, <2>2 DEF Holding
<1>4. ASSUME NEW m \in Manager, Disconnect(m) \/ Lock(m) \/ Prefetch(m) \/ Unlock(m)
      PROVE  pc'[mutex'] = "prefetch"
  <2>1. CASE Disconnect(m)
    BY <1>1, <2>1 DEF Disconnect, Enter, Goto, Holding
  <2>2. CASE Lock(m) \/ Prefetch(m) \/ Unlock(m)
    BY <1>1, <2>2 DEF Lock, Prefetch, Unlock, Goto, Holding
  <2> QED BY <1>4, <2>1, <2>2
<1>5. ASSUME NEW t \in Thread \cup Manager, Create(t) PROVE FALSE
  BY <1>5 DEF Create
<1>6. ASSUME NEW t \in Thread, Insert(t) \/ Delete(t) PROVE FALSE
  BY <1>6 DEF Insert, Delete
<1> QED BY <1>2, <1>3, <1>4, <1>5, <1>6 DEF Next, Resume, vars

\* Nobody who waits for g_map_mutex waits for a thread that waits: its holder
\* walks a list that stays as it is, and only a walk at its end gives it back.
THEOREM MutexIsFreed == Spec => WalkEnds
<1>1. Spec => []Holding
  <2>1. Init => Holding
    BY DEF Init, Holding
  <2> QED BY <2>1, HoldingNext, Invariance, Accounted, PTL DEF Spec
<1>2. ASSUME IInv, Account, Holding, [Next]_vars, NEW m \in Manager, mutex = m
      PROVE  /\ pc[m] = "prefetch" /\ WalkLeft(m) >= 0
             /\ \/ /\ mutex' = m /\ WalkLeft(m)' <= WalkLeft(m)
                   /\ at' # at => WalkLeft(m)' < WalkLeft(m)
                \/ mutex' = None /\ WalkLeft(m) = 0
  <2>1. /\ None \notin Manager /\ pc[m] = "prefetch" /\ at \in [Manager -> Nat]
        /\ ranges \in Seq(MemRange) /\ at[m] <= Len(ranges)
    BY <1>2, MemAssumption DEF IInv, Types, Account, Holding, Walking
  <2>2. ranges' = ranges /\ Len(ranges) \in Nat /\ at[m] \in Nat
    BY <1>2, <2>1, WalkKeeps
  <2>3. WalkLeft(m) >= 0
    BY <2>1, <2>2 DEF WalkLeft
  <2>4. CASE UNCHANGED <<mutex, at>>
    BY <1>2, <2>1, <2>2, <2>3, <2>4 DEF WalkLeft
  <2>5. CASE Prefetch(m)
    <3>1. mutex' = m /\ at'[m] = at[m] + 1
      BY <1>2, <2>1, <2>5 DEF Prefetch
    <3> QED BY <2>1, <2>2, <2>3, <3>1 DEF WalkLeft
  <2>6. CASE Unlock(m)
    BY <2>1, <2>2, <2>6 DEF Unlock, WalkLeft
  <2>7. ASSUME NEW n \in Manager, Prefetch(n) \/ Unlock(n) PROVE n = m
    BY <1>2, <2>7 DEF Prefetch, Unlock, Account, Walking
  <2>8. UNCHANGED <<mutex, at>> \/ Prefetch(m) \/ Unlock(m)
    <3>1. ASSUME NEW t \in Thread \cup Manager, Resume(t)
          PROVE  UNCHANGED <<mutex, at>> \/ Prefetch(m) \/ Unlock(m)
      BY <1>2, <2>1, <2>7, <3>1 DEF Resume, Create, GetDevice, Insert, Advise,
                                   Delete, Lock, list
    <3>2. ASSUME NEW t \in Thread, Allocate(t) \/ Free(t)
          PROVE  UNCHANGED <<mutex, at>>
      BY <3>2 DEF Allocate, Free
    <3>3. ASSUME NEW n \in Manager, Disconnect(n) PROVE UNCHANGED <<mutex, at>>
      BY <3>3 DEF Disconnect
    <3>4. CASE UNCHANGED vars
      BY <3>4 DEF vars
    <3> QED BY <1>2, <3>1, <3>2, <3>3, <3>4 DEF Next
  <2> QED BY <2>1, <2>3, <2>4, <2>5, <2>6, <2>8
<1>3. IInv /\ Account /\ Holding /\ [Next]_vars
        => [\A m \in Manager : mutex = m =>
              /\ pc[m] = "prefetch" /\ WalkLeft(m) >= 0
              /\ \/ /\ mutex' = m /\ WalkLeft(m)' <= WalkLeft(m)
                    /\ at' # at => WalkLeft(m)' < WalkLeft(m)
                 \/ mutex' = None /\ WalkLeft(m) = 0]_vars
  BY <1>2
<1> QED BY <1>1, <1>3, Invariance, Accounted, PTL DEF Spec, WalkEnds
=============================================================================
