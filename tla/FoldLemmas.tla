----------------------------- MODULE FoldLemmas -----------------------------
(***************************************************************************)
(* Induction without operator parameters, and that recursive functions     *)
(* are what they are defined to be: what the proofs about folds of a       *)
(* sequence rest on.  A property of numbers is the set of those that have  *)
(* it, a step of a recursion is a function.                                *)
(***************************************************************************)
EXTENDS Integers, SequenceTheorems, FiniteSetTheorems, FiniteSetsExt, TLAPS

LEMMA LeastNumber ==
  ASSUME NEW T \in SUBSET Nat, T # {}
  PROVE  \E n \in T : \A m \in T : n <= m
<1> DEFINE R == OpToRel(<, Nat)
<1>1. IsWellFoundedOn(R, Nat)
  BY NatLessThanWellFounded
<1>2. \A n, m \in Nat : n < m => <<n, m>> \in R
  BY DEF OpToRel
<1> HIDE DEF R
<1>3. PICK n \in T : \A m \in T : ~ (<<m, n>> \in R)
  BY <1>1, WFMin, Zenon
<1>4. ASSUME NEW m \in T PROVE n <= m
  <2>1. n \in Nat /\ m \in Nat
    OBVIOUS
  <2>2. m < n => <<m, n>> \in R
    BY <1>2, <2>1
  <2> QED BY <1>3, <2>1, <2>2
<1> QED BY <1>4

(* Induction up to a bound. *)
LEMMA UpTo ==
  ASSUME NEW n \in Nat, NEW T, 0 \in T,
         \A i \in 1..n : i - 1 \in T => i \in T
  PROVE  \A i \in 0..n : i \in T
<1> DEFINE others == {i \in 0..n : i \notin T}
<1> SUFFICES ASSUME others # {} PROVE FALSE
  OBVIOUS
<1>1. others \in SUBSET Nat
  OBVIOUS
<1>2. PICK i \in others : \A j \in others : i <= j
  BY <1>1, LeastNumber
<1>3. i \in 1..n /\ i - 1 \in 0..n
  OBVIOUS
<1>4. i - 1 \notin others
  BY <1>2, <1>3
<1> QED BY <1>3, <1>4

-----------------------------------------------------------------------------
(* A function that is defined on the numbers up to n by recursion.         *)

Recursive(g, n, base, step) ==
  /\ g[0] = base
  /\ \A i \in 1..n : g[i] = step[i][g[i - 1]]

LEMMA RecursionOnNumbers ==
  ASSUME NEW n \in Nat, NEW V, NEW base \in V, NEW step \in [1..n -> [V -> V]]
  PROVE  \E g \in [0..n -> V] : Recursive(g, n, base, step)
<1> DEFINE T == {k \in 0..n : \E g \in [0..k -> V] : Recursive(g, k, base, step)}
<1>1. 0 \in T
  <2> DEFINE g == [i \in 0..0 |-> base]
  <2>1. g \in [0..0 -> V] /\ g[0] = base /\ 1..0 = {}
    OBVIOUS
  <2> HIDE DEF g
  <2>2. Recursive(g, 0, base, step)
    BY <2>1 DEF Recursive
  <2> QED BY <2>1, <2>2
<1>2. ASSUME NEW k \in 1..n, k - 1 \in T
      PROVE  k \in T
  <2>1. PICK g \in [0..(k - 1) -> V] : Recursive(g, k - 1, base, step)
    BY <1>2
  <2> DEFINE h == [i \in 0..k |-> IF i = k THEN step[k][g[k - 1]] ELSE g[i]]
  <2>2. step[k][g[k - 1]] \in V
    <3>1. g[k - 1] \in V
      OBVIOUS
    <3> QED BY <3>1
  <2>3. h \in [0..k -> V]
    BY <2>2
  <2>4. h[0] = base
    BY <2>1 DEF Recursive
  <2>5. ASSUME NEW i \in 1..k
        PROVE  h[i] = step[i][h[i - 1]]
    <3>1. CASE i = k
      BY <3>1
    <3>2. CASE i # k
      <4>1. i \in 1..(k - 1) /\ h[i] = g[i] /\ h[i - 1] = g[i - 1]
        BY <3>2
      <4> QED BY <2>1, <4>1 DEF Recursive
    <3> QED BY <3>1, <3>2
  <2>6. Recursive(h, k, base, step)
    <3> HIDE DEF h
    <3> QED BY <2>4, <2>5 DEF Recursive
  <2> HIDE DEF h
  <2> QED BY <2>3, <2>6
<1> HIDE DEF T
<1>3. \A i \in 1..n : i - 1 \in T => i \in T
  BY <1>2
<1>4. \A i \in 0..n : i \in T
  BY <1>1, <1>3, UpTo
<1>5. n \in T
  BY <1>4
<1> QED BY <1>5 DEF T

-----------------------------------------------------------------------------
(* A nonempty set of numbers up to n has a greatest.                       *)
IsGreatest(x, s) == x \in s /\ \A y \in s : x >= y

LEMMA Greatest ==
  ASSUME NEW n \in Nat, NEW s \in SUBSET (1..n), s # {}
  PROVE  \E x \in s : IsGreatest(x, s)
<1> DEFINE T == {n - y : y \in s}
<1>1. T \in SUBSET Nat
  <2>1. ASSUME NEW y \in s PROVE n - y \in Nat
    <3>1. y \in 1..n
      OBVIOUS
    <3> QED BY <3>1
  <2> QED BY <2>1
<1>2. T # {}
  OBVIOUS
<1>3. PICK m \in T : \A k \in T : m <= k
  BY <1>1, <1>2, LeastNumber
<1>4. PICK x \in s : m = n - x
  OBVIOUS
<1>5. ASSUME NEW y \in s PROVE x >= y
  <2>1. n - x <= n - y
    BY <1>3, <1>4
  <2> QED BY <2>1
<1> QED BY <1>5 DEF IsGreatest

(* A function that is defined on the sets of numbers up to n by recursion, *)
(* taking the greatest number first.                                       *)

Folding(f, n, base, step) ==
  /\ f[{}] = base
  /\ \A s \in SUBSET (1..n) : \A x \in s :
       IsGreatest(x, s) => f[s] = step[x][f[s \ {x}]]

LEMMA RecursionOnSets ==
  ASSUME NEW n \in Nat, NEW V, NEW base \in V, NEW step \in [1..n -> [V -> V]]
  PROVE  \E f \in [SUBSET (1..n) -> V] : Folding(f, n, base, step)
<1> DEFINE T == {k \in 0..n : \E f \in [SUBSET (1..k) -> V] :
                                Folding(f, k, base, step)}
<1>1. 0 \in T
  <2> DEFINE only == [s \in SUBSET (1..0) |-> base]
  <2>1. only \in [SUBSET (1..0) -> V] /\ only[{}] = base /\ 1..0 = {}
    OBVIOUS
  <2> HIDE DEF only
  <2>2. Folding(only, 0, base, step)
    BY <2>1 DEF Folding
  <2>3. \E f \in [SUBSET (1..0) -> V] : Folding(f, 0, base, step)
    BY <2>1, <2>2, Zenon
  <2>4. 0 \in 0..n
    OBVIOUS
  <2> QED BY <2>3, <2>4, Zenon
<1>2. ASSUME NEW k \in 1..n, k - 1 \in T
      PROVE  k \in T
  <2> DEFINE below == 1..(k - 1)
  <2>1. PICK f \in [SUBSET below -> V] : Folding(f, k - 1, base, step)
    BY <1>2
  <2> DEFINE h == [s \in SUBSET (1..k) |->
                     IF k \in s THEN step[k][f[s \ {k}]] ELSE f[s]]
  <2>2. ASSUME NEW s \in SUBSET (1..k)
        PROVE  s \ {k} \in SUBSET below
    <3>1. ASSUME NEW y \in s, y # k PROVE y \in below
      BY <3>1
    <3> QED BY <3>1
  <2>3. ASSUME NEW s \in SUBSET (1..k), k \notin s
        PROVE  s \in SUBSET below
    BY <2>2, <2>3
  <2>4. h \in [SUBSET (1..k) -> V]
    <3>1. ASSUME NEW s \in SUBSET (1..k)
          PROVE  h[s] \in V
      <4>1. CASE k \in s
        <5>1. f[s \ {k}] \in V
          BY <2>2
        <5> QED BY <4>1, <5>1
      <4>2. CASE k \notin s
        BY <2>3, <4>2
      <4> QED BY <4>1, <4>2
    <3> QED BY <3>1
  <2>5. h[{}] = base
    BY <2>1 DEF Folding
  <2>6. ASSUME NEW s \in SUBSET (1..k), NEW x \in s, IsGreatest(x, s)
        PROVE  h[s] = step[x][h[s \ {x}]]
    <3>1. CASE k \in s
      <4>1. x = k
        BY <2>6, <3>1 DEF IsGreatest
      <4>2. s \ {k} \in SUBSET (1..k) /\ k \notin s \ {k}
        OBVIOUS
      <4>3. h[s \ {k}] = f[s \ {k}]
        BY <4>2
      <4> QED BY <3>1, <4>1, <4>3
    <3>2. CASE k \notin s
      <4>1. s \in SUBSET below
        BY <2>3, <3>2
      <4>2. f[s] = step[x][f[s \ {x}]]
        BY <2>1, <2>6, <4>1 DEF Folding
      <4>3. s \ {x} \in SUBSET (1..k) /\ k \notin s \ {x}
        BY <3>2
      <4>4. h[s] = f[s] /\ h[s \ {x}] = f[s \ {x}]
        BY <3>2, <4>3
      <4> QED BY <4>2, <4>4
    <3> QED BY <3>1, <3>2
  <2> HIDE DEF h
  <2>7. Folding(h, k, base, step)
    BY <2>5, <2>6 DEF Folding
  <2> QED BY <2>4, <2>7
<1> HIDE DEF T
<1>3. \A i \in 1..n : i - 1 \in T => i \in T
  BY <1>2
<1>4. \A i \in 0..n : i \in T
  BY <1>1, <1>3, UpTo
<1>5. n \in T
  BY <1>4
<1> QED BY <1>5 DEF T
-----------------------------------------------------------------------------
(* The beginning of a sequence. *)
LEMMA Beginning ==
  ASSUME NEW S, NEW s \in Seq(S), NEW k \in 0..Len(s)
  PROVE  /\ SubSeq(s, 1, k) \in Seq(S)
         /\ Len(SubSeq(s, 1, k)) = k
         /\ DOMAIN SubSeq(s, 1, k) = 1..k
         /\ \A i \in 1..k : SubSeq(s, 1, k)[i] = s[i]
<1>1. Len(s) \in Nat
  BY LenProperties
<1>2. 1 \in 1..(Len(s) + 1) /\ k \in (1 - 1)..Len(s)
  BY <1>1
<1>3. SubSeq(s, 1, k) \in Seq(S)
  BY <1>2, SubSeqProperties
<1>4. Len(SubSeq(s, 1, k)) = k
  <2>1. CASE k = 0
    BY <1>1, <1>2, <2>1, SubSeqProperties
  <2>2. CASE k # 0
    <3>1. Len(SubSeq(s, 1, k)) = k - 1 + 1
      BY <1>1, <1>2, <2>2, SubSeqProperties
    <3> QED BY <3>1
  <2> QED BY <2>1, <2>2
<1>5. \A i \in 1..k : SubSeq(s, 1, k)[i] = s[i]
  <2>1. \A i \in 1..(k - 1 + 1) : SubSeq(s, 1, k)[i] = s[1 + i - 1]
    BY <1>2, SubSeqProperties
  <2> QED BY <2>1
<1> QED BY <1>3, <1>4, <1>5, LenProperties
(* The first element of a sequence that is not empty. *)
LEMMA FirstElement ==
  ASSUME NEW S, NEW s \in Seq(S), s # <<>>
  PROVE  1 \in DOMAIN s /\ s[1] \in S
<1>1. Len(s) \in Nat \ {0} /\ DOMAIN s = 1..Len(s)
  BY EmptySeq, LenProperties
<1>2. 1 \in 1..Len(s)
  BY <1>1
<1> QED BY <1>1, <1>2, ElementOfSeq

LEMMA FunctionIsSeq ==
  ASSUME NEW S, NEW n \in Nat, NEW f \in [1..n -> S]
  PROVE  f \in Seq(S)
OBVIOUS

LEMMA OneMore ==
  ASSUME NEW n \in Nat, NEW i \in 1..n
  PROVE  1..i = 1..(i - 1) \cup {i}
<1>1. ASSUME NEW j
      PROVE  j \in 1..i <=> j \in 1..(i - 1) \cup {i}
  OBVIOUS
<1> QED BY <1>1

-----------------------------------------------------------------------------
(* In a finite set that is in a strict order each item has a rank of its   *)
(* own, the number of those below it, and no rank is left out.             *)
StrictOrder(S, below) ==
  /\ IsFiniteSet(S) /\ below \in [S -> SUBSET S]
  /\ \A x \in S : x \notin below[x]
  /\ \A x \in S : \A y \in below[x] : below[y] \subseteq below[x]
  /\ \A x, y \in S : x # y => x \in below[y] \/ y \in below[x]

LEMMA Ranks ==
  ASSUME NEW S, IsFiniteSet(S), NEW below \in [S -> SUBSET S],
         \A x \in S : x \notin below[x],
         \A x \in S : \A y \in below[x] : below[y] \subseteq below[x],
         \A x, y \in S : x # y => x \in below[y] \/ y \in below[x]
  PROVE  /\ \A x \in S : Cardinality(below[x]) \in 0..(Cardinality(S) - 1)
         /\ \A x, y \in S : y \in below[x] => Cardinality(below[y]) < Cardinality(below[x])
         /\ \A x, y \in S : Cardinality(below[x]) = Cardinality(below[y]) => x = y
         /\ \A k \in 0..(Cardinality(S) - 1) : \E x \in S : Cardinality(below[x]) = k
<1> DEFINE n == Cardinality(S)
           ranks == 0..(n - 1)
<1>1. n \in Nat
  BY FS_CardinalityType
<1>2. ASSUME NEW x \in S PROVE IsFiniteSet(below[x]) /\ Cardinality(below[x]) \in Nat
  <2>1. IsFiniteSet(below[x])
    BY FS_Subset
  <2>2. QED
    BY <2>1, FS_CardinalityType
<1>3. ASSUME NEW x \in S PROVE Cardinality(below[x]) < n
  <2>1. Cardinality(below[x]) <= n /\ (n = Cardinality(below[x]) => S = below[x])
    BY FS_Subset
  <2>2. S # below[x]
    OBVIOUS
  <2>3. QED
    BY <1>1, <1>2, <2>1, <2>2
<1>4. ASSUME NEW x \in S, NEW y \in below[x]
      PROVE  Cardinality(below[y]) < Cardinality(below[x])
  <2>1. y \in S /\ below[y] \in SUBSET below[x] /\ below[y] # below[x]
    OBVIOUS
  <2>2. /\ Cardinality(below[y]) <= Cardinality(below[x])
        /\ Cardinality(below[x]) = Cardinality(below[y]) => below[x] = below[y]
    BY <1>2, <2>1, FS_Subset
  <2>3. QED
    BY <1>2, <2>1, <2>2
<1>5. ASSUME NEW x \in S, NEW y \in S, Cardinality(below[x]) = Cardinality(below[y])
      PROVE  x = y
  BY <1>2, <1>4, <1>5
<1> DEFINE rank == [x \in S |-> Cardinality(below[x])]
<1>6. rank \in [S -> ranks]
  BY <1>1, <1>2, <1>3
<1>7. rank \in Injection(S, ranks)
  BY <1>5, <1>6 DEF Injection, IsInjective
<1>8. IsFiniteSet(ranks) /\ Cardinality(ranks) = n
  BY <1>1, FS_Interval
<1> HIDE DEF n, ranks, rank
<1>9. rank \in Surjection(S, ranks)
  BY <1>7, <1>8, FS_Injection DEF n
<1>10. ASSUME NEW k \in ranks PROVE \E x \in S : rank[x] = k
  BY <1>9 DEF Surjection
<1>11. QED
  BY <1>4, <1>5, <1>6, <1>10 DEF n, ranks, rank

(* The sequence of the items by rank has all of them, in order. *)
InOrder(order, S, below) ==
  /\ \A k \in 1..Cardinality(S) : order[k] \in S
  /\ \A x \in S : \E k \in 1..Cardinality(S) : order[k] = x
  /\ \A j, k \in 1..Cardinality(S) : j < k => order[j] \in below[order[k]]

LEMMA ByRank ==
  ASSUME NEW S, NEW below, StrictOrder(S, below), NEW order,
         order = [k \in 1..Cardinality(S) |->
                    CHOOSE x \in S : Cardinality(below[x]) = k - 1]
  PROVE  InOrder(order, S, below)
<1> DEFINE n == Cardinality(S)
<1>1. n \in Nat
  BY FS_CardinalityType DEF StrictOrder
<1>2. /\ \A x \in S : Cardinality(below[x]) \in 0..(n - 1)
      /\ \A x, y \in S : y \in below[x] => Cardinality(below[y]) < Cardinality(below[x])
      /\ \A x, y \in S : Cardinality(below[x]) = Cardinality(below[y]) => x = y
      /\ \A k \in 0..(n - 1) : \E x \in S : Cardinality(below[x]) = k
  BY Ranks DEF StrictOrder
<1>3. ASSUME NEW k \in 1..n
      PROVE  order[k] \in S /\ Cardinality(below[order[k]]) = k - 1
  <2>1. \E x \in S : Cardinality(below[x]) = k - 1
    <3>1. k - 1 \in 0..(n - 1)
      BY <1>1
    <3> HIDE DEF n
    <3>2. QED
      BY ONLY <1>2, <3>1, ZenonT(40)
  <2>2. order[k] = CHOOSE x \in S : Cardinality(below[x]) = k - 1
    OBVIOUS
  <2>3. QED
    BY <2>1, <2>2
<1> HIDE DEF n
<1>4. ASSUME NEW x \in S PROVE \E k \in 1..n : order[k] = x
  <2> DEFINE k == Cardinality(below[x]) + 1
  <2>1. k \in 1..n /\ k - 1 = Cardinality(below[x])
    BY <1>1, <1>2
  <2> HIDE DEF k
  <2>2. QED
    BY <1>2, <1>3, <2>1
<1>5. ASSUME NEW j \in 1..n, NEW k \in 1..n, j < k
      PROVE  order[j] \in below[order[k]]
  <2>1. order[j] \in S /\ order[k] \in S
        /\ Cardinality(below[order[j]]) = j - 1 /\ Cardinality(below[order[k]]) = k - 1
    BY <1>3
  <2>2. order[j] # order[k]
    BY <1>1, <1>5, <2>1
  <2>3. ~(order[k] \in below[order[j]])
    BY <1>1, <1>2, <1>5, <2>1
  <2>4. QED
    BY <2>1, <2>2, <2>3 DEF StrictOrder
<1>6. QED
  BY <1>3, <1>4, <1>5 DEF n, InOrder

-----------------------------------------------------------------------------
(* A fold of a sequence takes the last of its numbers first.               *)
LEMMA MaxIsGreatest ==
  ASSUME NEW n \in Nat, NEW s \in SUBSET (1..n), s # {}
  PROVE  IsGreatest(Max(s), s)
<1>1. PICK x \in s : IsGreatest(x, s)
  BY Greatest
<1> QED BY <1>1 DEF IsGreatest, Max

LEMMA LastOfAll ==
  ASSUME NEW i \in Nat, i > 0
  PROVE  Max(1..i) = i /\ (1..i) \ {i} = 1..(i - 1)
<1>1. 1..i \in SUBSET (1..i) /\ i \in 1..i
  OBVIOUS
<1>2. IsGreatest(Max(1..i), 1..i)
  BY <1>1, MaxIsGreatest
<1>3. \A x \in 1..i : x >= i => x = i
  OBVIOUS
<1>4. Max(1..i) = i
  BY <1>1, <1>2, <1>3 DEF IsGreatest
<1> QED BY <1>4

IsFolded(f, n, V, base, step) ==
  /\ f[{}] = base
  /\ \A s \in SUBSET (1..n) : s # {} =>
       /\ Max(s) \in 1..n /\ f[s \ {Max(s)}] \in V
       /\ f[s] = step[Max(s)][f[s \ {Max(s)}]]

LEMMA FoldExists ==
  ASSUME NEW n \in Nat, NEW V, NEW base \in V, NEW step \in [1..n -> [V -> V]]
  PROVE  \E f \in [SUBSET (1..n) -> V] : IsFolded(f, n, V, base, step)
<1>1. PICK f \in [SUBSET (1..n) -> V] : Folding(f, n, base, step)
  BY RecursionOnSets
<1>2. ASSUME NEW s \in SUBSET (1..n), s # {}
      PROVE  /\ Max(s) \in 1..n /\ f[s \ {Max(s)}] \in V
             /\ f[s] = step[Max(s)][f[s \ {Max(s)}]]
  <2>1. IsGreatest(Max(s), s) /\ Max(s) \in s
    BY <1>2, MaxIsGreatest DEF IsGreatest
  <2> QED BY <1>1, <2>1 DEF Folding
<1>3. IsFolded(f, n, V, base, step)
  BY <1>1, <1>2 DEF Folding, IsFolded
<1> QED BY <1>3

LEMMA InitialSegments ==
  ASSUME NEW n \in Nat
  PROVE  /\ 1..0 = {}
         /\ \A i \in 1..n : /\ 1..i \in SUBSET (1..n) /\ 1..i # {}
                            /\ Max(1..i) = i /\ (1..i) \ {i} = 1..(i - 1)
<1>1. ASSUME NEW i \in 1..n
      PROVE  /\ 1..i \in SUBSET (1..n) /\ 1..i # {}
             /\ Max(1..i) = i /\ (1..i) \ {i} = 1..(i - 1)
  <2>1. i \in 1..i /\ i \in Nat /\ i > 0
    OBVIOUS
  <2>2. \A j \in 1..i : j \in 1..n
    OBVIOUS
  <2> QED BY <2>1, <2>2, LastOfAll
<1> QED BY <1>1

=============================================================================
