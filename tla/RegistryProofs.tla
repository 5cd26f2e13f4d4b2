---------------------------- MODULE RegistryProofs ----------------------------
(***************************************************************************)
(* The registry keeps its books: for any zones, priorities and contents,   *)
(* any order of loads, deferred links, flushes, lookups, unloads and       *)
(* errors, and pools of any size.  Every entry is in one place, copies are *)
(* counted, chains go down, the best zone serves each name, what was found *)
(* stays where it is, its holders hear of new data, no data is of a zone   *)
(* that is gone, and unloading everything leaves nothing.                  *)
(***************************************************************************)
EXTENDS AssetRegistry, FiniteSetTheorems, SequenceTheorems, WellFoundedInduction, TLAPS

-----------------------------------------------------------------------------
(* Folds *)

\* A set of numbers has a least one.
LEMMA LeastOf ==
    ASSUME NEW T \in SUBSET Nat, T # {}
    PROVE  \E m \in T : \A k \in T : m <= k
<1> DEFINE R == OpToRel(<, Nat)
<1>1. IsWellFoundedOn(R, Nat)
  BY NatLessThanWellFounded
<1>2. \A x, y \in Nat : x < y => <<x, y>> \in R
  BY DEF OpToRel
<1> HIDE DEF R
<1>3. PICK m \in T : \A k \in T : ~(<<k, m>> \in R)
  BY <1>1, WFMin
<1>4. ASSUME NEW k \in T PROVE m <= k
  <2>1. m \in Nat /\ k \in Nat /\ ~(k < m)
    BY <1>2, <1>3
  <2> QED
    BY <2>1
<1> QED
  BY <1>4

\* A function on the sets of numbers up to n that is computed by taking one number
\* after the other out of its argument.
Iterates(F, n, a, step, q, pick) ==
    F = [s \in SUBSET (1..n) |->
            IF s = {} THEN a ELSE step[<<F[s \ {pick[s]}], q[pick[s]]>>]]

\* pick names a member of every such set but the empty one.
Picks(pick, n) == \A s \in SUBSET (1..n) : s # {} => pick[s] \in s

\* There is one, whatever the step, and whichever number is taken.
LEMMA FoldExists ==
    ASSUME NEW A, NEW B, NEW step \in [A \X B -> A], NEW a \in A, NEW n \in Nat,
           NEW q \in [1..n -> B], NEW pick, Picks(pick, n)
    PROVE  \E F \in [SUBSET (1..n) -> A] : Iterates(F, n, a, step, q, pick)
<1> DEFINE Small(k) == {s \in SUBSET (1..n) : Cardinality(s) <= k}
           Value(F, s) == IF s = {} THEN a ELSE step[<<F[s \ {pick[s]}], q[pick[s]]>>]
           Has(k) == \E F \in [Small(k) -> A] : \A s \in Small(k) : F[s] = Value(F, s)
           Bad == {k \in Nat : ~Has(k)}
<1>0. IsFiniteSet(1..n) /\ Cardinality(1..n) <= n
  <2>1. IsFiniteSet(1..n) /\ Cardinality(1..n) = IF 1 > n THEN 0 ELSE n - 1 + 1
    BY FS_Interval
  <2> QED
    BY <2>1
<1>1. ASSUME NEW s \in SUBSET (1..n)
      PROVE  /\ IsFiniteSet(s) /\ Cardinality(s) \in Nat /\ Cardinality(s) <= n
             /\ s # {} => /\ s \ {pick[s]} \in SUBSET (1..n) /\ q[pick[s]] \in B
                          /\ Cardinality(s \ {pick[s]}) = Cardinality(s) - 1
             /\ Cardinality(s) <= 0 => s = {}
  <2>1. IsFiniteSet(s) /\ Cardinality(s) <= n
    <3>1. IsFiniteSet(s) /\ Cardinality(s) <= Cardinality(1..n)
      BY <1>0, FS_Subset
    <3>2. Cardinality(s) \in Nat /\ Cardinality(1..n) \in Nat
      BY <1>0, <3>1, FS_CardinalityType
    <3> QED
      BY <1>0, <3>1, <3>2
  <2>2. Cardinality(s) \in Nat
    BY <2>1, FS_CardinalityType
  <2>3. Cardinality(s) = 0 <=> s = {}
    BY <2>1, FS_EmptySet
  <2>4. ASSUME s # {}
        PROVE  /\ s \ {pick[s]} \in SUBSET (1..n) /\ q[pick[s]] \in B
               /\ Cardinality(s \ {pick[s]}) = Cardinality(s) - 1
    <3>1. pick[s] \in s
      BY <2>4 DEF Picks
    <3>2. Cardinality(s \ {pick[s]}) = Cardinality(s) - 1
      BY <2>1, <3>1, FS_RemoveElement
    <3> QED
      BY <3>1, <3>2
  <2> QED
    BY <2>1, <2>2, <2>3, <2>4
<1>2. Has(0)
  <2> DEFINE F == [s \in Small(0) |-> a]
  <2>1. F \in [Small(0) -> A]
    OBVIOUS
  <2>2. \A s \in Small(0) : F[s] = Value(F, s)
    BY <1>1
  <2> HIDE DEF F
  <2> QED
    BY <2>1, <2>2
<1>3. ASSUME NEW k \in Nat, Has(k) PROVE Has(k + 1)
  <2>1. PICK F \in [Small(k) -> A] : \A s \in Small(k) : F[s] = Value(F, s)
    BY <1>3
  <2> DEFINE G == [s \in Small(k + 1) |-> Value(F, s)]
  <2>2. ASSUME NEW s \in Small(k + 1), s # {}
        PROVE  /\ s \ {pick[s]} \in Small(k) /\ s \ {pick[s]} \in Small(k + 1)
               /\ q[pick[s]] \in B
    <3>1. Cardinality(s \ {pick[s]}) = Cardinality(s) - 1 /\ Cardinality(s) \in Nat
      BY <2>2, <1>1
    <3>2. Cardinality(s) <= k + 1
      OBVIOUS
    <3>3. Cardinality(s \ {pick[s]}) <= k /\ Cardinality(s \ {pick[s]}) <= k + 1
      BY <3>1, <3>2
    <3>4. s \ {pick[s]} \in SUBSET (1..n) /\ q[pick[s]] \in B
      BY <2>2, <1>1
    <3> QED
      BY <3>3, <3>4
  <2>3. G \in [Small(k + 1) -> A]
    <3>1. ASSUME NEW s \in Small(k + 1) PROVE Value(F, s) \in A
      <4>1. CASE s = {}
        BY <4>1
      <4>2. CASE s # {}
        BY <2>2, <4>2
      <4> QED
        BY <4>1, <4>2
    <3> QED
      BY <3>1
  <2>4. ASSUME NEW s \in Small(k + 1) PROVE G[s] = Value(G, s)
    <3>1. CASE s = {}
      BY <3>1
    <3>2. CASE s # {}
      <4>1. G[s \ {pick[s]}] = F[s \ {pick[s]}]
        BY <2>1, <2>2, <3>2
      <4> QED
        BY <3>2, <4>1
    <3> QED
      BY <3>1, <3>2
  <2> HIDE DEF G
  <2> QED
    BY <2>3, <2>4
<1> HIDE DEF Has
<1>4. Bad = {}
  <2> SUFFICES ASSUME Bad # {} PROVE FALSE
    OBVIOUS
  <2>1. PICK k \in Bad : \A l \in Bad : k <= l
    BY LeastOf
  <2>2. k # 0
    BY <1>2
  <2>3. k - 1 \in Nat /\ ~(k <= k - 1)
    BY <2>2
  <2>4. Has(k - 1)
    BY <2>1, <2>3
  <2>5. Has((k - 1) + 1) /\ (k - 1) + 1 = k
    BY <1>3, <2>3, <2>4
  <2> QED
    BY <2>5
<1>5. Has(n)
  BY <1>4
<1>6. Small(n) = SUBSET (1..n)
  BY <1>1
<1>7. PICK F \in [Small(n) -> A] : \A s \in Small(n) : F[s] = Value(F, s)
  BY <1>5 DEF Has
<1>8. F = [s \in SUBSET (1..n) |-> Value(F, s)]
  BY <1>6, <1>7
<1> QED
  BY <1>6, <1>7, <1>8 DEF Iterates

\* A set of numbers that holds 0, and with a number below n the next one, holds
\* all numbers up to n.
LEMMA CountUp ==
    ASSUME NEW T, NEW n \in Nat, 0 \in T, \A k \in 0..(n - 1) : k \in T => k + 1 \in T
    PROVE  \A k \in 0..n : k \in T
<1> DEFINE Bad == {k \in 0..n : k \notin T}
<1> SUFFICES ASSUME Bad # {} PROVE FALSE
  OBVIOUS
<1>1. Bad \in SUBSET Nat
  OBVIOUS
<1>2. PICK k \in Bad : \A l \in Bad : k <= l
  <2> HIDE DEF Bad
  <2> QED
    BY <1>1, LeastOf
<1>3. k # 0 /\ k \in 0..n /\ k \notin T
  OBVIOUS
<1>4. k - 1 \in 0..(n - 1) /\ (k - 1) + 1 = k /\ ~(k <= k - 1) /\ k - 1 \in 0..n
  BY <1>3
<1>5. k - 1 \in T
  BY <1>2, <1>4
<1> QED
  BY <1>3, <1>4, <1>5

\* The greatest number of an initial interval, and the least of a final one.
LEMMA MaxOf ==
    ASSUME NEW n \in Nat
    PROVE  /\ \A s \in SUBSET (1..n) : s # {} => Max(s) \in s
           /\ \A k \in 1..n : /\ 1..k \in SUBSET (1..n) /\ 1..k # {} /\ Max(1..k) = k
                              /\ (1..k) \ {k} = 1..(k - 1)
<1>1. ASSUME NEW s \in SUBSET (1..n), s # {} PROVE Max(s) \in s
  <2> DEFINE Room == {n - x : x \in s}
  <2>1. Room \in SUBSET Nat /\ Room # {}
    <3>1. \A x \in s : n - x \in Nat
      OBVIOUS
    <3> QED
      BY <1>1, <3>1
  <2>2. PICK m \in Room : \A k \in Room : m <= k
    <3> HIDE DEF Room
    <3> QED
      BY <2>1, LeastOf
  <2>3. PICK x \in s : m = n - x
    OBVIOUS
  <2>4. ASSUME NEW y \in s PROVE x >= y
    <3>1. n - x <= n - y
      BY <2>2, <2>3
    <3> QED
      BY <3>1
  <2>5. \E z \in s : \A y \in s : z >= y
    BY <2>4
  <2> QED
    BY <2>5 DEF Max
<1>2. ASSUME NEW k \in 1..n
      PROVE  /\ 1..k \in SUBSET (1..n) /\ 1..k # {} /\ Max(1..k) = k
             /\ (1..k) \ {k} = 1..(k - 1)
  <2>1. 1..k \in SUBSET (1..n) /\ k \in 1..k /\ (1..k) \ {k} = 1..(k - 1)
    OBVIOUS
  <2>2. \A y \in 1..k : k >= y
    OBVIOUS
  <2>3. Max(1..k) \in 1..k /\ \A y \in 1..k : Max(1..k) >= y
    BY <2>1, <2>2 DEF Max
  <2>4. Max(1..k) = k
    BY <2>1, <2>3
  <2> QED
    BY <2>1, <2>4
<1> QED
  BY <1>1, <1>2

\* The least member of a set of numbers, and of the numbers from k on.
LEMMA MinOf ==
    ASSUME NEW n \in Nat
    PROVE  /\ \A s \in SUBSET (1..n) : s # {} => Min(s) \in s
           /\ \A k \in 1..n : /\ k..n \in SUBSET (1..n) /\ k..n # {} /\ Min(k..n) = k
                              /\ (k..n) \ {k} = (k + 1)..n
<1>1. ASSUME NEW s \in SUBSET (1..n), s # {} PROVE Min(s) \in s
  <2>1. s \in SUBSET Nat
    OBVIOUS
  <2>2. \E m \in s : \A k \in s : m <= k
    BY <1>1, <2>1, LeastOf
  <2> QED
    BY <2>2 DEF Min
<1>2. ASSUME NEW k \in 1..n
      PROVE  /\ k..n \in SUBSET (1..n) /\ k..n # {} /\ Min(k..n) = k
             /\ (k..n) \ {k} = (k + 1)..n
  <2>1. k..n \in SUBSET (1..n) /\ k \in k..n /\ (k..n) \ {k} = (k + 1)..n
    OBVIOUS
  <2>2. \A y \in k..n : k <= y
    OBVIOUS
  <2>3. Min(k..n) \in k..n /\ \A y \in k..n : Min(k..n) <= y
    BY <2>1, <2>2 DEF Min
  <2>4. Min(k..n) = k
    BY <2>1, <2>3
  <2> QED
    BY <2>1, <2>4
<1> QED
  BY <1>1, <1>2

-----------------------------------------------------------------------------
(* Lists *)

\* What f picks of 1..m, in order.
Rising(f, k, m) ==
    f \in [1..k -> 1..m] /\ \A i, j \in 1..k : i < j => f[i] < f[j]

\* t is the first k elements of s without the members of S.
SiftedTo(s, k, S, t) ==
    \E f : /\ Rising(f, Len(t), k)
           /\ \A i \in 1..Len(t) : t[i] = s[f[i]] /\ s[f[i]] \notin S
           /\ \A j \in 1..k : s[j] \notin S => \E i \in 1..Len(t) : f[i] = j

Sifted(s, S, t) == SiftedTo(s, Len(s), S, t)

\* The list that Without builds, an element of s at a time.
WithoutRun(s, S, T, g) ==
    /\ g \in [0..Len(s) -> Seq(T)]
    /\ g[0] = <<>> /\ g[Len(s)] = Without(s, S)
    /\ \A k \in 1..Len(s) : g[k] = IF s[k] \in S THEN g[k - 1] ELSE Append(g[k - 1], s[k])

\* Without is the last of a list of sequences, one for each member looked at.
LEMMA WithoutSteps ==
    ASSUME NEW T, NEW s \in Seq(T), NEW S
    PROVE  \E g : WithoutRun(s, S, T, g)
<1> DEFINE A == Seq(T)
           n == Len(s)
           Op(rest, x) == IF x \in S THEN rest ELSE Append(rest, x)
           step == [p \in A \X T |-> Op(p[1], p[2])]
           pick == [x \in SUBSET (1..n) |-> Max(x)]
           Is(F) == F = [x \in SUBSET (1..n) |->
                           IF x = {} THEN <<>> ELSE Op(F[x \ {Max(x)}], s[Max(x)])]
<1>0. n \in Nat /\ DOMAIN s = 1..n /\ (\A i \in 1..n : s[i] \in T) /\ <<>> \in A
  OBVIOUS
<1>1. ASSUME NEW t \in A, NEW x \in T PROVE Op(t, x) \in A
  <2>1. Append(t, x) \in A
    OBVIOUS
  <2> QED
    BY <2>1
<1>2. \A x \in SUBSET (1..n) : x # {} => pick[x] \in x /\ pick[x] = Max(x)
  BY <1>0, MaxOf
<1>3. Without(s, S) = (CHOOSE F : Is(F))[1..n]
  BY <1>0 DEF Without, FoldLeft, MapThenFoldSet
<1> HIDE DEF A, n, Op, pick
<1>4. step \in [A \X T -> A] /\ \A t \in A, x \in T : step[<<t, x>>] = Op(t, x)
  BY <1>1
<1> HIDE DEF step
<1>5. PICK F0 \in [SUBSET (1..n) -> A] : Iterates(F0, n, <<>>, step, s, pick)
  <2> DEFINE a == <<>>
  <2>1. Picks(pick, n)
    BY <1>2 DEF Picks
  <2>2. a \in A /\ n \in Nat /\ s \in [1..n -> T]
    BY <1>0
  <2>3. step \in [A \X T -> A]
    BY <1>4
  <2> HIDE DEF a
  <2>4. \E F0 \in [SUBSET (1..n) -> A] : Iterates(F0, n, a, step, s, pick)
    BY <2>1, <2>2, <2>3, FoldExists
  <2> QED
    BY <2>4 DEF a
<1>6. Is(F0)
  <2>1. ASSUME NEW x \in SUBSET (1..n), x # {}
        PROVE  step[<<F0[x \ {pick[x]}], s[pick[x]]>>] = Op(F0[x \ {Max(x)}], s[Max(x)])
    <3>1. pick[x] = Max(x) /\ Max(x) \in 1..n /\ x \ {Max(x)} \in SUBSET (1..n)
      BY <1>2, <2>1
    <3>2. F0[x \ {Max(x)}] \in A /\ s[Max(x)] \in T
      BY <1>0, <3>1
    <3> QED
      BY <1>4, <3>1, <3>2
  <2> QED
    BY <1>5, <2>1 DEF Iterates
<1>7. PICK F : Without(s, S) = F[1..n] /\ Is(F)
  <2> HIDE DEF Is
  <2> QED
    BY <1>3, <1>6
<1> DEFINE g == [k \in 0..n |-> F[1..k]]
<1>8. g[0] = <<>> /\ g[n] = Without(s, S)
  <2>1. 1..0 = {} /\ {} \in SUBSET (1..n)
    OBVIOUS
  <2>2. F[{}] = <<>>
    BY <1>7, <2>1
  <2>3. 0 \in 0..n /\ n \in 0..n
    BY <1>0
  <2>4. g[0] = F[1..0] /\ g[n] = F[1..n]
    BY <2>3
  <2> QED
    BY <1>7, <2>1, <2>2, <2>4
<1>9. ASSUME NEW k \in 1..n PROVE g[k] = Op(g[k - 1], s[k])
  <2>1. /\ 1..k \in SUBSET (1..n) /\ 1..k # {} /\ Max(1..k) = k /\ (1..k) \ {k} = 1..(k - 1)
        /\ k \in 0..n /\ k - 1 \in 0..n
    BY <1>0, MaxOf
  <2>2. F[1..k] = Op(F[(1..k) \ {Max(1..k)}], s[Max(1..k)])
    BY <1>7, <2>1
  <2> QED
    BY <2>1, <2>2
<1>10. g \in [0..n -> A]
  <2> DEFINE K == {k \in 0..n : g[k] \in A}
  <2>1. 0 \in K
    BY <1>0, <1>8
  <2>2. ASSUME NEW k \in 0..(n - 1), k \in K PROVE k + 1 \in K
    <3>1. k + 1 \in 1..n /\ (k + 1) - 1 = k /\ k + 1 \in 0..n
      BY <1>0
    <3>2. g[k + 1] = Op(g[k], s[k + 1])
      BY <1>9, <3>1
    <3>3. s[k + 1] \in T /\ g[k] \in A
      BY <1>0, <2>2, <3>1
    <3>4. g[k + 1] \in A
      <4> HIDE DEF g
      <4> QED
        BY <1>1, <3>2, <3>3
    <3> QED
      BY <3>1, <3>4
  <2>3. \A k \in 0..n : k \in K
    <3> HIDE DEF K
    <3> QED
      BY <1>0, <2>1, <2>2, CountUp
  <2> QED
    BY <2>3
<1> HIDE DEF g
<1>11. WithoutRun(s, S, T, g)
  BY <1>8, <1>9, <1>10 DEF A, n, Op, WithoutRun
<1> QED
  BY <1>11

\* A rising choice is no longer than what it chooses from, and shorter if it leaves
\* something out.
LEMMA RisingOnce ==
    ASSUME NEW k \in Nat, NEW m \in Nat, NEW f, Rising(f, k, m)
    PROVE  \A i, j \in 1..k : f[i] = f[j] => i = j
<1>1. ASSUME NEW i \in 1..k, NEW j \in 1..k, f[i] = f[j] PROVE i = j
  <2>1. f[i] \in 1..m /\ f[j] \in 1..m
    BY DEF Rising
  <2>2. ~(i < j) /\ ~(j < i)
    BY <1>1, <2>1 DEF Rising
  <2> QED
    BY <2>2
<1> QED
  BY <1>1

\* A rising choice of numbers up to m that leaves one out is shorter than m.
LEMMA RisingShort ==
    ASSUME NEW k \in Nat, NEW m \in Nat, NEW f, Rising(f, k, m),
           NEW j \in 1..m, \A i \in 1..k : f[i] # j
    PROVE  k < m
<1> DEFINE S == 1..k
           T == (1..m) \ {j}
<1>1. IsFiniteSet(S) /\ Cardinality(S) = k
  <2>1. Cardinality(1..k) = IF 1 > k THEN 0 ELSE k - 1 + 1
    BY FS_Interval
  <2> QED
    BY <2>1, FS_Interval
<1>2. IsFiniteSet(T) /\ Cardinality(T) = m - 1
  <2>1. IsFiniteSet(1..m) /\ Cardinality(1..m) = IF 1 > m THEN 0 ELSE m - 1 + 1
    BY FS_Interval
  <2>2. IsFiniteSet(T) /\ Cardinality(T) = Cardinality(1..m) - 1
    BY <2>1, FS_RemoveElement
  <2> QED
    BY <2>1, <2>2
<1>3. f \in [S -> T]
  BY DEF Rising
<1>4. ~ \E x, y \in S : x # y /\ f[x] = f[y]
  BY RisingOnce
<1> HIDE DEF S, T
<1>5. ~(Cardinality(T) < Cardinality(S))
  BY <1>1, <1>2, <1>3, <1>4, FS_PigeonHole
<1> QED
  BY <1>1, <1>2, <1>5

\* Without keeps the elements that are not in S, in their order.
LEMMA WithoutSifts ==
    ASSUME NEW T, NEW s \in Seq(T), NEW S
    PROVE  /\ Without(s, S) \in Seq(T)
           /\ Sifted(s, S, Without(s, S))
           /\ (\E i \in 1..Len(s) : s[i] \in S) => Len(Without(s, S)) < Len(s)
<1> DEFINE n == Len(s)
<1>1. PICK g : WithoutRun(s, S, T, g)
  BY WithoutSteps
<1> USE DEF WithoutRun
<1>0. n \in Nat /\ \A i \in 1..n : s[i] \in T
  OBVIOUS
<1> HIDE DEF n
<1> DEFINE K == {k \in 0..n : SiftedTo(s, k, S, g[k])}
<1>2. 0 \in K
  <2> DEFINE f == [i \in 1..0 |-> 0]
  <2>1. Rising(f, 0, 0)
    BY DEF Rising
  <2>2. SiftedTo(s, 0, S, <<>>)
    <3> HIDE DEF f
    <3>1. Len(<<>>) = 0
      OBVIOUS
    <3> QED
      BY <2>1, <3>1 DEF SiftedTo
  <2> QED
    BY <1>0, <1>1, <2>2
<1>3. ASSUME NEW k \in 0..(n - 1), k \in K PROVE k + 1 \in K
  <2>1. k + 1 \in 1..n /\ (k + 1) - 1 = k /\ k + 1 \in 0..n /\ k \in 0..n
    BY <1>0
  <2>2. g[k] \in Seq(T) /\ g[k + 1] \in Seq(T)
        /\ g[k + 1] = IF s[k + 1] \in S THEN g[k] ELSE Append(g[k], s[k + 1])
    BY <1>1, <2>1 DEF n
  <2>3. PICK f : /\ Rising(f, Len(g[k]), k)
                 /\ \A i \in 1..Len(g[k]) : g[k][i] = s[f[i]] /\ s[f[i]] \notin S
                 /\ \A j \in 1..k : s[j] \notin S => \E i \in 1..Len(g[k]) : f[i] = j
    BY <1>3 DEF SiftedTo
  <2> DEFINE t == g[k]
             l == Len(t)
  <2>4. l \in Nat /\ t \in Seq(T) /\ s[k + 1] \in T
    BY <1>0, <2>1, <2>2
  <2>5. CASE s[k + 1] \in S
    <3>1. g[k + 1] = t
      BY <2>2, <2>5
    <3>2. Rising(f, l, k + 1)
      BY <2>3, <2>4 DEF Rising
    <3>3. \A j \in 1..(k + 1) : s[j] \notin S => \E i \in 1..l : f[i] = j
      <4>1. \A j \in 1..(k + 1) : j \in 1..k \/ j = k + 1
        BY <2>1
      <4> QED
        BY <2>3, <2>5, <4>1
    <3>4. SiftedTo(s, k + 1, S, t)
      BY <2>3, <3>2, <3>3 DEF SiftedTo
    <3> QED
      BY <2>1, <3>1, <3>4
  <2>6. CASE s[k + 1] \notin S
    <3> DEFINE u == Append(t, s[k + 1])
               h == [i \in 1..(l + 1) |-> IF i = l + 1 THEN k + 1 ELSE f[i]]
    <3>0. \A i \in 1..l : f[i] \in 1..(k + 1) /\ f[i] < k + 1
      <4>1. f \in [1..l -> 1..k]
        BY <2>3 DEF Rising
      <4> HIDE DEF l, h, u, t
      <4> QED
        BY <2>1, <4>1
    <3>1. g[k + 1] = u
      BY <2>2, <2>6
    <3>2. Len(u) = l + 1 /\ u[l + 1] = s[k + 1] /\ \A i \in 1..l : u[i] = t[i]
      BY <2>4
    <3>3. \A i \in 1..(l + 1) : i \in 1..l \/ i = l + 1
      BY <2>4
    <3>4. (\A i \in 1..l : i \in 1..(l + 1) /\ i # l + 1 /\ h[i] = f[i] /\ f[i] \in 1..k)
          /\ l + 1 \in 1..(l + 1) /\ h[l + 1] = k + 1
      BY <2>3, <2>4 DEF Rising
    <3>5. Rising(h, l + 1, k + 1)
      <4>1. h \in [1..(l + 1) -> 1..(k + 1)]
        <5>1. k + 1 \in 1..(k + 1)
          BY <2>1
        <5> QED
          BY <3>0, <3>3, <5>1
      <4>2. ASSUME NEW i \in 1..(l + 1), NEW j \in 1..(l + 1), i < j PROVE h[i] < h[j]
        <5>1. i \in 1..l
          BY <2>4, <4>2
        <5>2. CASE j = l + 1
          <6> HIDE DEF h, t, l
          <6> QED
            BY <3>0, <3>4, <5>1, <5>2
        <5>3. CASE j \in 1..l
          <6>1. f[i] < f[j]
            BY <2>3, <4>2, <5>1, <5>3 DEF Rising
          <6> HIDE DEF h, t, l
          <6> QED
            BY <3>4, <5>1, <5>3, <6>1
        <5> QED
          BY <3>3, <5>2, <5>3
      <4> HIDE DEF h
      <4> QED
        BY <4>1, <4>2 DEF Rising
    <3> HIDE DEF h, u
    <3>6. \A i \in 1..(l + 1) : u[i] = s[h[i]] /\ s[h[i]] \notin S
      BY <2>3, <2>6, <3>2, <3>3, <3>4
    <3>7. \A j \in 1..(k + 1) : s[j] \notin S => \E i \in 1..(l + 1) : h[i] = j
      <4>1. \A j \in 1..(k + 1) : j \in 1..k \/ j = k + 1
        BY <2>1
      <4> QED
        BY <2>3, <3>4, <4>1
    <3>8. SiftedTo(s, k + 1, S, u)
      BY <3>2, <3>5, <3>6, <3>7 DEF SiftedTo
    <3> QED
      BY <2>1, <3>1, <3>8
  <2> QED
    BY <2>5, <2>6
<1>4. n \in K
  <2> HIDE DEF K
  <2>1. \A k \in 0..n : k \in K
    BY <1>0, <1>2, <1>3, CountUp
  <2> QED
    BY <1>0, <2>1
<1>5. Without(s, S) \in Seq(T) /\ SiftedTo(s, n, S, Without(s, S))
  BY <1>0, <1>1, <1>4 DEF n
<1>6. ASSUME NEW j \in 1..n, s[j] \in S PROVE Len(Without(s, S)) < n
  <2>1. PICK f : /\ Rising(f, Len(Without(s, S)), n)
                 /\ \A i \in 1..Len(Without(s, S)) : s[f[i]] \notin S
    BY <1>5 DEF SiftedTo
  <2>2. \A i \in 1..Len(Without(s, S)) : f[i] # j
    BY <1>6, <2>1
  <2>3. Len(Without(s, S)) \in Nat
    BY <1>5
  <2> QED
    BY <1>0, <2>1, <2>2, <2>3, RisingShort
<1> QED
  BY <1>5, <1>6 DEF n, Sifted

Elems(s) == {s[i] : i \in 1..Len(s)}

\* d is c with x put in at p.
Inserted(c, p, x, d) ==
    /\ p \in 1..(Len(c) + 1) /\ Len(d) = Len(c) + 1 /\ d[p] = x
    /\ \A i \in 1..Len(c) : /\ i < p => d[i] = c[i]
                            /\ p <= i => d[i + 1] = c[i]

\* The elements of a concatenation.
LEMMA JoinIs ==
    ASSUME NEW T, NEW u \in Seq(T), NEW v \in Seq(T)
    PROVE  /\ u \o v \in Seq(T) /\ Len(u \o v) = Len(u) + Len(v)
           /\ (\A i \in 1..Len(u) : (u \o v)[i] = u[i])
           /\ \A i \in 1..Len(v) : (u \o v)[Len(u) + i] = v[i]
<1> DEFINE k == Len(u)
           m == Len(v)
<1>1. k \in Nat /\ m \in Nat
  OBVIOUS
<1>2. u \o v \in Seq(T) /\ Len(u \o v) = k + m
  OBVIOUS
<1>3. \A i \in 1..k : (u \o v)[i] = u[i]
  BY <1>1
<1>4. ASSUME NEW i \in 1..m PROVE (u \o v)[k + i] = v[i]
  <2>1. k + i \in 1..(k + m) /\ ~(k + i <= k) /\ (k + i) - k = i
    BY <1>1
  <2> QED
    BY <1>1, <1>2, <2>1
<1> QED
  BY <1>2, <1>3, <1>4

\* What InsertAt, the swap of ReplaceHead and the cut of PromoteOverride return.
LEMMA InsertAtInserts ==
    ASSUME NEW T, NEW c \in Seq(T), NEW x \in T, NEW p \in 1..(Len(c) + 1)
    PROVE  InsertAt(c, p, x) \in Seq(T) /\ Inserted(c, p, x, InsertAt(c, p, x))
<1> DEFINE a == SubSeq(c, 1, p - 1)
           b == SubSeq(c, p, Len(c))
           d == a \o <<x>> \o b
           n == Len(c)
<1>1. n \in Nat /\ p \in Nat /\ 1 <= p /\ p <= n + 1
  OBVIOUS
<1>2. a \in Seq(T) /\ Len(a) = p - 1 /\ \A i \in 1..(p - 1) : a[i] = c[i]
  OBVIOUS
<1>3. b \in Seq(T) /\ Len(b) = n + 1 - p /\ \A i \in 1..(n + 1 - p) : b[i] = c[p + i - 1]
  <2>1. CASE p <= n
    BY <2>1
  <2>2. CASE p = n + 1
    BY <2>2
  <2> QED
    BY <1>1, <2>1, <2>2
<1> HIDE DEF a, b, n
<1>4. a \o <<x>> \in Seq(T) /\ Len(a \o <<x>>) = p /\ (a \o <<x>>)[p] = x
      /\ \A i \in 1..(p - 1) : (a \o <<x>>)[i] = a[i]
  BY <1>1, <1>2
<1> DEFINE u == a \o <<x>>
<1> HIDE DEF u
<1>5. u \in Seq(T) /\ Len(u) = p /\ u[p] = x /\ \A i \in 1..(p - 1) : u[i] = c[i]
  BY <1>2, <1>4 DEF u
<1>6. u \o b \in Seq(T) /\ Len(u \o b) = p + (n + 1 - p)
      /\ (\A i \in 1..p : (u \o b)[i] = u[i])
      /\ \A i \in 1..(n + 1 - p) : (u \o b)[p + i] = b[i]
  <2>1. /\ u \o b \in Seq(T) /\ Len(u \o b) = Len(u) + Len(b)
       /\ (\A i \in 1..Len(u) : (u \o b)[i] = u[i])
       /\ \A i \in 1..Len(b) : (u \o b)[Len(u) + i] = b[i]
    <3>1. u \in Seq(T) /\ b \in Seq(T)
      BY <1>3, <1>5
    <3> QED
      BY <3>1, JoinIs
  <2> QED
    BY <1>3, <1>5, <2>1
<1>7. d = u \o b
  BY DEF u
<1> HIDE DEF d
<1>8. d \in Seq(T) /\ Len(d) = n + 1 /\ d[p] = x
  BY <1>1, <1>5, <1>6, <1>7
<1>9. ASSUME NEW i \in 1..n PROVE (i < p => d[i] = c[i]) /\ (p <= i => d[i + 1] = c[i])
  <2>1. CASE i < p
    <3>1. i \in 1..(p - 1) /\ i \in 1..p
      BY <1>1, <2>1
    <3> QED
      BY <1>5, <1>6, <1>7, <2>1, <3>1
  <2>2. CASE p <= i
    <3>1. i + 1 - p \in 1..(n + 1 - p) /\ p + (i + 1 - p) = i + 1 /\ p + (i + 1 - p) - 1 = i
      BY <1>1, <2>2
    <3>2. d[p + (i + 1 - p)] = b[i + 1 - p] /\ b[i + 1 - p] = c[p + (i + 1 - p) - 1]
      BY <1>3, <1>6, <1>7, <3>1
    <3>3. d[i + 1] = c[i]
      BY <3>1, <3>2
    <3> QED
      BY <1>1, <2>2, <3>3
  <2> QED
    BY <1>1, <2>1, <2>2
<1>10. InsertAt(c, p, x) = d
  BY DEF InsertAt, d, a, b, n
<1> QED
  BY <1>8, <1>9, <1>10 DEF Inserted, n

\* The chain DB_LinkXAssetEntryOverrideAware makes when the new asset wins.
LEMMA SwapInserts ==
    ASSUME NEW T, NEW c \in Seq(T), c # <<>>, NEW x \in T
    PROVE  /\ <<c[1], x>> \o Tail(c) \in Seq(T)
           /\ Inserted(c, 2, x, <<c[1], x>> \o Tail(c))
<1> DEFINE n == Len(c)
           d == <<c[1], x>> \o Tail(c)
<1>1. n \in Nat /\ 1 <= n /\ c[1] \in T
  OBVIOUS
<1>2. Tail(c) \in Seq(T) /\ Len(Tail(c)) = n - 1 /\ \A i \in 1..(n - 1) : Tail(c)[i] = c[i + 1]
  OBVIOUS
<1>3. <<c[1], x>> \in Seq(T) /\ Len(<<c[1], x>>) = 2 /\ <<c[1], x>>[1] = c[1] /\ <<c[1], x>>[2] = x
  BY <1>1
<1> DEFINE u == <<c[1], x>>
           v == Tail(c)
<1> HIDE DEF u, v, n
<1>4. u \o v \in Seq(T) /\ Len(u \o v) = n + 1 /\ (u \o v)[1] = c[1] /\ (u \o v)[2] = x
      /\ \A i \in 1..(n - 1) : (u \o v)[2 + i] = c[i + 1]
  <2>1. /\ u \in Seq(T) /\ v \in Seq(T) /\ Len(u) = 2 /\ Len(v) = n - 1
        /\ u[1] = c[1] /\ u[2] = x /\ \A i \in 1..(n - 1) : v[i] = c[i + 1]
    BY <1>2, <1>3 DEF u, v
  <2>2. u \o v \in Seq(T) /\ Len(u \o v) = 2 + (n - 1)
        /\ (\A i \in 1..2 : (u \o v)[i] = u[i])
        /\ \A i \in 1..(n - 1) : (u \o v)[2 + i] = v[i]
    <3>1. /\ u \o v \in Seq(T) /\ Len(u \o v) = Len(u) + Len(v)
         /\ (\A i \in 1..Len(u) : (u \o v)[i] = u[i])
         /\ \A i \in 1..Len(v) : (u \o v)[Len(u) + i] = v[i]
      <4>1. u \in Seq(T) /\ v \in Seq(T)
        BY <2>1
      <4> QED
        BY <4>1, JoinIs
    <3> QED
      BY <2>1, <3>1
  <2> DEFINE w == u \o v
  <2> HIDE DEF w
  <2>3. w \in Seq(T) /\ Len(w) = n + 1
    <3>1. 2 + (n - 1) = n + 1
      BY <1>1
    <3> QED
      BY <2>2, <3>1 DEF w
  <2>4. w[1] = c[1] /\ w[2] = x
    <3>1. 1 \in 1..2 /\ 2 \in 1..2
      OBVIOUS
    <3>2. \A i \in 1..2 : w[i] = u[i]
      BY <2>2 DEF w
    <3> QED
      BY <2>1, <3>1, <3>2
  <2>5. \A i \in 1..(n - 1) : w[2 + i] = c[i + 1]
    BY <2>1, <2>2 DEF w
  <2> QED
    BY <2>3, <2>4, <2>5 DEF w
<1>5. d = u \o v
  BY DEF u, v
<1> HIDE DEF d
<1>6. ASSUME NEW i \in 1..n PROVE (i < 2 => d[i] = c[i]) /\ (2 <= i => d[i + 1] = c[i])
  <2>1. CASE i = 1
    <3>1. d[1] = c[1]
      BY <1>4, <1>5
    <3>2. ~(2 <= 1)
      OBVIOUS
    <3> QED
      BY <2>1, <3>1, <3>2
  <2>2. CASE 2 <= i
    <3>1. i - 1 \in 1..(n - 1) /\ 2 + (i - 1) = i + 1 /\ (i - 1) + 1 = i
      BY <1>1, <2>2
    <3>2. d[i + 1] = c[i]
      BY <1>4, <1>5, <3>1
    <3> QED
      BY <2>2, <3>2
  <2> QED
    BY <1>1, <2>1, <2>2
<1>7. 2 \in 1..(n + 1)
  BY <1>1
<1>8. Inserted(c, 2, x, d)
  BY <1>4, <1>5, <1>6, <1>7 DEF Inserted, n
<1> QED
  BY <1>4, <1>5, <1>8 DEF d

\* The chain that DB_PromoteOverride leaves.
LEMMA CutSecond ==
    ASSUME NEW T, NEW c \in Seq(T), Len(c) > 1
    PROVE  /\ <<c[1]>> \o Tail(Tail(c)) \in Seq(T)
           /\ Len(<<c[1]>> \o Tail(Tail(c))) = Len(c) - 1
           /\ (<<c[1]>> \o Tail(Tail(c)))[1] = c[1]
           /\ \A i \in 2..(Len(c) - 1) : (<<c[1]>> \o Tail(Tail(c)))[i] = c[i + 1]
<1> DEFINE n == Len(c)
           d == <<c[1]>> \o Tail(Tail(c))
<1>1. n \in Nat /\ 2 <= n /\ c[1] \in T
  OBVIOUS
<1>2. Tail(c) \in Seq(T) /\ Len(Tail(c)) = n - 1 /\ \A i \in 1..(n - 1) : Tail(c)[i] = c[i + 1]
  OBVIOUS
<1> DEFINE t == Tail(c)
<1> HIDE DEF t, n
<1>3. /\ Tail(t) \in Seq(T) /\ Len(Tail(t)) = n - 2
      /\ \A i \in 1..(n - 2) : Tail(t)[i] = t[i + 1]
  <2>1. t \in Seq(T) /\ Len(t) = n - 1 /\ n - 1 \in Nat /\ n - 1 >= 1
    BY <1>1, <1>2 DEF t
  <2>2. t # <<>>
    BY <2>1
  <2> QED
    BY <1>1, <2>1, <2>2
<1> DEFINE v == Tail(t)
           u == <<c[1]>>
<1>4. u \in Seq(T) /\ Len(u) = 1 /\ u[1] = c[1]
  BY <1>1
<1> HIDE DEF u, v
<1>5. u \o v \in Seq(T) /\ Len(u \o v) = n - 1 /\ (u \o v)[1] = c[1]
      /\ \A i \in 1..(n - 2) : (u \o v)[1 + i] = v[i]
  <2>1. v \in Seq(T) /\ Len(v) = n - 2
    BY <1>3 DEF v
  <2>2. u \o v \in Seq(T) /\ Len(u \o v) = 1 + (n - 2)
        /\ (\A i \in 1..1 : (u \o v)[i] = u[i])
        /\ \A i \in 1..(n - 2) : (u \o v)[1 + i] = v[i]
    <3>1. /\ u \o v \in Seq(T) /\ Len(u \o v) = Len(u) + Len(v)
         /\ (\A i \in 1..Len(u) : (u \o v)[i] = u[i])
         /\ \A i \in 1..Len(v) : (u \o v)[Len(u) + i] = v[i]
      <4>1. u \in Seq(T) /\ v \in Seq(T)
        BY <1>4, <2>1
      <4> QED
        BY <4>1, JoinIs
    <3> QED
      BY <1>4, <2>1, <3>1
  <2> QED
    BY <1>1, <1>4, <2>2
<1>6. ASSUME NEW i \in 2..(n - 1) PROVE (u \o v)[i] = c[i + 1]
  <2>1. i - 1 \in 1..(n - 2) /\ 1 + (i - 1) = i /\ (i - 1) + 1 = i /\ i \in 1..(n - 1)
    BY <1>1
  <2>2. (u \o v)[i] = v[i - 1] /\ v[i - 1] = t[i]
    BY <1>3, <1>5, <2>1 DEF v
  <2>3. t[i] = c[i + 1]
    BY <1>2, <2>1 DEF t
  <2> QED
    BY <2>2, <2>3
<1>7. d = u \o v
  BY DEF u, v, t
<1> HIDE DEF d
<1> QED
  BY <1>5, <1>6, <1>7 DEF d, n

-----------------------------------------------------------------------------
(* The registry and its parts *)

\* A registry that may have counted below zero: what the operators return when
\* nothing is known of what they are given.
AnyRegistry ==
    [chain : [Names -> Seq(Entries)], zone : [Entries -> Zones \cup {0}],
     data : [Entries -> Zones \cup {0}], inuse : SUBSET Entries,
     free : SUBSET Entries, lost : SUBSET Entries, refs : Int,
     told : SUBSET Entries]

\* The entries of a chain, and the zones they are of, in the order of the chain.
Of(r, n) == Elems(r.chain[n])
Line(r, n) == [i \in 1..Len(r.chain[n]) |-> r.zone[r.chain[n][i]]]
InChains(r) == UNION {Of(r, n) : n \in Names}
Zoned(r, n) == {r.zone[x] : x \in Of(r, n)}

Unlinked(r, n) == r.chain[n] = <<>>

Once(s) == \A i, j \in 1..Len(s) : s[i] = s[j] => i = j

\* Every entry is in one chain, once, or in X (queued or in hand), or free, or lost.
Apart(r, X) ==
    /\ \A n \in Names : Once(r.chain[n])
    /\ \A m, n \in Names : m # n => Of(r, m) \cap Of(r, n) = {}
    /\ InChains(r) \cap X = {} /\ InChains(r) \cap r.free = {} /\ InChains(r) \cap r.lost = {}
    /\ X \cap r.free = {} /\ X \cap r.lost = {} /\ r.free \cap r.lost = {}

Cover(r, X) == Entries \subseteq InChains(r) \cup X \cup r.free \cup r.lost

\* s differs from r in chain n, and in the entries of that chain and of Y.
Within(r, s, n, Y) ==
    /\ \A m \in Names \ {n} : s.chain[m] = r.chain[m]
    /\ \A x \in Entries \ (Of(r, n) \cup Y) :
           s.zone[x] = r.zone[x] /\ s.data[x] = r.data[x] /\ (x \in s.inuse <=> x \in r.inuse)
    /\ s.lost = r.lost

\* s is r with chain n made of some of its entries and of Y, the others freed.
Shape(r, s, n, X, Y) ==
    /\ r \in AnyRegistry /\ s \in AnyRegistry /\ Y \subseteq X /\ X \subseteq Entries /\ Apart(r, X)
    /\ Within(r, s, n, Y)
    /\ Once(s.chain[n])
    /\ Of(s, n) \subseteq Of(r, n) \cup Y
    /\ s.free = r.free \cup ((Of(r, n) \cup Y) \ Of(s, n))

\* Chain m is the same in both, and so is what its entries hold.
SameAt(r, s, m) ==
    /\ s.chain[m] = r.chain[m] /\ Of(s, m) = Of(r, m) /\ Line(s, m) = Line(r, m)
    /\ Zoned(s, m) = Zoned(r, m) /\ HeadOf(s, m) = HeadOf(r, m)
    /\ \A x \in Of(r, m) : /\ s.zone[x] = r.zone[x] /\ s.data[x] = r.data[x]
                           /\ x \in s.inuse <=> x \in r.inuse

\* The entries of a chain.
LEMMA OfBasics ==
    ASSUME NEW r \in AnyRegistry, NEW n \in Names
    PROVE  /\ r.chain[n] \in Seq(Entries) /\ Len(r.chain[n]) \in Nat
           /\ Of(r, n) \in SUBSET Entries /\ InChains(r) \in SUBSET Entries
           /\ Of(r, n) \subseteq InChains(r)
           /\ (r.chain[n] = <<>>) = (Of(r, n) = {})
           /\ (r.chain[n] = <<>>) = (Len(r.chain[n]) = 0)
           /\ r.chain[n] # <<>> => r.chain[n][1] \in Of(r, n) /\ HeadOf(r, n) = r.chain[n][1]
<1>1. \A m \in Names : r.chain[m] \in Seq(Entries) /\ Of(r, m) \in SUBSET Entries
  BY DEF AnyRegistry, Of, Elems
<1>2. InChains(r) \in SUBSET Entries /\ Of(r, n) \subseteq InChains(r)
  BY <1>1 DEF InChains
<1>3. Len(r.chain[n]) \in Nat /\ (r.chain[n] = <<>>) = (Len(r.chain[n]) = 0)
  BY <1>1
<1>4. CASE r.chain[n] = <<>>
  <2>1. Of(r, n) = {}
    BY <1>3, <1>4 DEF Of, Elems
  <2> QED
    BY <1>1, <1>2, <1>3, <1>4, <2>1
<1>5. CASE r.chain[n] # <<>>
  <2>1. 1 \in 1..Len(r.chain[n])
    BY <1>3, <1>5
  <2>2. r.chain[n][1] \in Of(r, n)
    BY <2>1 DEF Of, Elems
  <2>3. HeadOf(r, n) = r.chain[n][1]
    BY <1>5 DEF HeadOf
  <2> QED
    BY <1>1, <1>2, <1>3, <1>5, <2>2, <2>3
<1> QED
  BY <1>4, <1>5

\* A step of that shape moves nothing else.
LEMMA ShapeKeeps ==
    ASSUME NEW r, NEW s, NEW n \in Names, NEW X, NEW Y, Shape(r, s, n, X, Y)
    PROVE  /\ Apart(s, X \ Y)
           /\ Cover(r, X) => Cover(s, X \ Y)
           /\ \A m \in Names \ {n} : SameAt(r, s, m)
           /\ \A x \in X \ Y : s.zone[x] = r.zone[x] /\ s.data[x] = r.data[x]
<1>0. r \in AnyRegistry /\ s \in AnyRegistry /\ Y \subseteq X /\ X \subseteq Entries /\ Apart(r, X)
  BY DEF Shape
<1>1. ASSUME NEW m \in Names \ {n}
      PROVE  /\ Of(s, m) = Of(r, m) /\ Of(r, m) \cap (Of(r, n) \cup Y) = {}
             /\ s.chain[m] = r.chain[m]
             /\ \A x \in Of(r, m) : /\ x \in Entries /\ s.zone[x] = r.zone[x]
                                    /\ s.data[x] = r.data[x] /\ (x \in s.inuse <=> x \in r.inuse)
  <2>1. s.chain[m] = r.chain[m]
    BY DEF Shape, Within
  <2>2. Of(s, m) = Of(r, m)
    BY <2>1 DEF Of
  <2>3. Of(r, m) \cap (Of(r, n) \cup Y) = {}
    <3>1. Of(r, m) \cap Of(r, n) = {}
      BY <1>0 DEF Apart
    <3>2. Of(r, m) \subseteq InChains(r)
      BY <1>0, OfBasics
    <3> QED
      BY <1>0, <3>1, <3>2 DEF Apart
  <2>4. Of(r, m) \subseteq Entries
    BY <1>0, OfBasics
  <2> QED
    BY <2>1, <2>2, <2>3, <2>4 DEF Shape, Within
<1>2. ASSUME NEW m \in Names \ {n}
      PROVE  SameAt(r, s, m)
  <2>1. \A i \in 1..Len(r.chain[m]) : r.chain[m][i] \in Of(r, m)
    BY DEF Of, Elems
  <2>2. Line(s, m) = Line(r, m)
    BY <1>1, <2>1 DEF Line
  <2>3. Zoned(s, m) = Zoned(r, m)
    BY <1>1 DEF Zoned
  <2>4. HeadOf(s, m) = HeadOf(r, m)
    BY <1>1 DEF HeadOf
  <2> QED
    BY <1>1, <2>2, <2>3, <2>4 DEF SameAt
<1>3. InChains(r) = (UNION {Of(r, m) : m \in Names \ {n}}) \cup Of(r, n)
  BY DEF InChains
<1>4. InChains(s) = (UNION {Of(r, m) : m \in Names \ {n}}) \cup Of(s, n)
  <2>1. InChains(s) = (UNION {Of(s, m) : m \in Names \ {n}}) \cup Of(s, n)
    BY DEF InChains
  <2> QED
    BY <1>1, <2>1
<1> DEFINE Z == UNION {Of(r, m) : m \in Names \ {n}}
<1>5. Z \cap (Of(r, n) \cup Y) = {}
  BY <1>1
<1> HIDE DEF Z
<1>6. /\ InChains(r) = Z \cup Of(r, n) /\ InChains(s) = Z \cup Of(s, n)
      /\ Of(s, n) \subseteq Of(r, n) \cup Y
      /\ s.free = r.free \cup ((Of(r, n) \cup Y) \ Of(s, n)) /\ s.lost = r.lost
  BY <1>3, <1>4 DEF Z, Shape, Within
<1>7. /\ InChains(r) \cap X = {} /\ InChains(r) \cap r.free = {} /\ InChains(r) \cap r.lost = {}
      /\ X \cap r.free = {} /\ X \cap r.lost = {} /\ r.free \cap r.lost = {}
  BY <1>0 DEF Apart
<1>8. /\ InChains(s) \cap (X \ Y) = {} /\ InChains(s) \cap s.free = {} /\ InChains(s) \cap s.lost = {}
      /\ (X \ Y) \cap s.free = {} /\ (X \ Y) \cap s.lost = {} /\ s.free \cap s.lost = {}
  BY <1>0, <1>5, <1>6, <1>7
<1>9. \A m \in Names : Once(s.chain[m])
  <2>1. \A m \in Names \ {n} : Once(s.chain[m])
    BY <1>0, <1>1 DEF Apart
  <2> QED
    BY <2>1 DEF Shape
<1>10. ASSUME NEW l \in Names, NEW m \in Names, l # m PROVE Of(s, l) \cap Of(s, m) = {}
  <2>1. CASE l # n /\ m # n
    BY <1>0, <1>1, <1>10, <2>1 DEF Apart
  <2>2. CASE l = n
    BY <1>1, <1>6, <1>10, <2>2
  <2>3. CASE m = n
    BY <1>1, <1>6, <1>10, <2>3
  <2> QED
    BY <2>1, <2>2, <2>3
<1>11. Apart(s, X \ Y)
  BY <1>8, <1>9, <1>10 DEF Apart
<1>12. Cover(r, X) => Cover(s, X \ Y)
  BY <1>6 DEF Cover
<1>13. \A x \in X \ Y : s.zone[x] = r.zone[x] /\ s.data[x] = r.data[x]
  <2>1. \A x \in X \ Y : x \in Entries \ (Of(r, n) \cup Y)
    BY <1>0, <1>6, <1>7
  <2> QED
    BY <2>1 DEF Shape, Within
<1> QED
  BY <1>2, <1>11, <1>12, <1>13

-----------------------------------------------------------------------------
(* Orders *)

\* y was loaded after z, or overrides it by its priority.
Later(zs, y, z) == \E i, j \in 1..Len(zs) : j < i /\ zs[i] = y /\ zs[j] = z
Precedes(zs, y, z) ==
    \/ Priority[y] > Priority[z]
    \/ Priority[y] = Priority[z] /\ Later(zs, y, z)

\* Zones of zs, each preceding those that follow it; or a lone 0, for a default copy.
Ordered(l, zs) ==
    /\ \A i \in 1..Len(l) : l[i] \in ToSet(zs) \cup {0}
    /\ \A i, j \in 1..Len(l) : i < j => l[i] # 0 /\ l[j] # 0 /\ Precedes(zs, l[i], l[j])

\* Among the zones of chain n of its priority, z is the one loaded last.
Newest(r, n, z, zs) ==
    \A y \in Zoned(r, n) : y # 0 /\ Priority[y] = Priority[z] => Later(zs, z, y)

\* No zone was loaded after itself.
LEMMA LaterOnce ==
    ASSUME NEW zs \in Seq(Zones), Once(zs), NEW z PROVE ~Later(zs, z, z)
<1> QED
  BY DEF Later, Once

\* Where each member of a sequence is after an insertion, and comes from.
LEMMA InsertedAt ==
    ASSUME NEW T, NEW c \in Seq(T), NEW x, NEW p, NEW d, Inserted(c, p, x, d)
    PROVE  /\ Len(d) = Len(c) + 1 /\ p \in 1..Len(d) /\ d[p] = x
           /\ \A i \in 1..Len(d) : i = p \/ \E k \in 1..Len(c) :
                  /\ d[i] = c[k]
                  /\ (k < p /\ i = k) \/ (p <= k /\ i = k + 1)
<1>1. Len(d) = Len(c) + 1 /\ p \in 1..Len(d) /\ d[p] = x /\ Len(c) \in Nat
  BY DEF Inserted
<1>2. ASSUME NEW i \in 1..Len(d), i # p
      PROVE  \E k \in 1..Len(c) : /\ d[i] = c[k]
                                  /\ (k < p /\ i = k) \/ (p <= k /\ i = k + 1)
  <2>1. CASE i < p
    <3>1. i \in 1..Len(c)
      BY <1>1, <2>1
    <3>2. d[i] = c[i]
      BY <2>1, <3>1 DEF Inserted
    <3> QED
      BY <2>1, <3>1, <3>2
  <2>2. CASE p < i
    <3>1. i - 1 \in 1..Len(c) /\ p <= i - 1 /\ (i - 1) + 1 = i
      BY <1>1, <2>2
    <3>2. d[(i - 1) + 1] = c[i - 1]
      BY <3>1 DEF Inserted
    <3>3. d[i] = c[i - 1]
      BY <3>1, <3>2
    <3> QED
      BY <3>1, <3>3
  <2> QED
    BY <1>1, <1>2, <2>1, <2>2
<1> QED
  BY <1>1, <1>2

\* An insertion of something new leaves no member twice.
LEMMA InsertedOnce ==
    ASSUME NEW T, NEW c \in Seq(T), NEW x, NEW p, NEW d, Inserted(c, p, x, d)
    PROVE  /\ Elems(d) = Elems(c) \cup {x}
           /\ Once(c) /\ x \notin Elems(c) => Once(d)
<1>1. /\ Len(d) = Len(c) + 1 /\ p \in 1..Len(d) /\ d[p] = x /\ Len(c) \in Nat
      /\ \A i \in 1..Len(d) : i = p \/ \E k \in 1..Len(c) :
             /\ d[i] = c[k]
             /\ (k < p /\ i = k) \/ (p <= k /\ i = k + 1)
  BY InsertedAt
<1>2. \A k \in 1..Len(c) : \E i \in 1..Len(d) : d[i] = c[k]
  <2> TAKE k \in 1..Len(c)
  <2>1. k \in 1..Len(d) /\ k + 1 \in 1..Len(d) /\ (k < p \/ p <= k)
    BY <1>1
  <2>2. (k < p => d[k] = c[k]) /\ (p <= k => d[k + 1] = c[k])
    BY DEF Inserted
  <2> QED
    BY <2>1, <2>2
<1>3. Elems(d) = Elems(c) \cup {x}
  <2>1. \A i \in 1..Len(d) : d[i] \in {c[k] : k \in 1..Len(c)} \cup {x}
    BY <1>1
  <2>2. ASSUME NEW y \in {c[i] : i \in 1..Len(c)} PROVE y \in {d[i] : i \in 1..Len(d)}
    <3>1. PICK k \in 1..Len(c) : y = c[k]
      OBVIOUS
    <3>2. PICK i \in 1..Len(d) : d[i] = c[k]
      BY <1>2
    <3> QED
      BY <3>1, <3>2
  <2>3. x \in {d[i] : i \in 1..Len(d)}
    BY <1>1
  <2> QED
    BY <2>1, <2>2, <2>3 DEF Elems
<1>4. ASSUME Once(c), x \notin Elems(c),
             NEW i \in 1..Len(d), NEW j \in 1..Len(d), d[i] = d[j]
      PROVE  i = j
  <2>0. \A k \in 1..Len(c) : c[k] # x
    BY <1>4 DEF Elems
  <2>1. CASE i = p
    BY <1>1, <1>4, <2>0, <2>1
  <2>2. CASE j = p
    BY <1>1, <1>4, <2>0, <2>2
  <2>3. CASE i # p /\ j # p
    <3>1. PICK k \in 1..Len(c) : /\ d[i] = c[k]
                                 /\ (k < p /\ i = k) \/ (p <= k /\ i = k + 1)
      BY <1>1, <2>3
    <3>2. PICK l \in 1..Len(c) : /\ d[j] = c[l]
                                 /\ (l < p /\ j = l) \/ (p <= l /\ j = l + 1)
      BY <1>1, <2>3
    <3>3. k = l
      BY <1>4, <3>1, <3>2 DEF Once
    <3> QED
      BY <1>1, <3>1, <3>2, <3>3
  <2> QED
    BY <2>1, <2>2, <2>3
<1> QED
  BY <1>3, <1>4 DEF Once

\* A zone put in between those that precede it and those it precedes.
LEMMA InsertedOrdered ==
    ASSUME NEW zs \in Seq(Zones), NEW T, NEW l \in Seq(T), Ordered(l, zs),
           NEW z \in ToSet(zs), NEW p, NEW m, Inserted(l, p, z, m),
           \A i \in 1..Len(l) : /\ l[i] # 0
                                /\ i < p => Precedes(zs, l[i], z)
                                /\ p <= i => Precedes(zs, z, l[i])
    PROVE  Ordered(m, zs)
<1>0. z # 0
  BY RegistryAssumption DEF ToSet
<1>1. /\ Len(m) = Len(l) + 1 /\ p \in 1..Len(m) /\ m[p] = z /\ Len(l) \in Nat
      /\ \A i \in 1..Len(m) : i = p \/ \E k \in 1..Len(l) :
             /\ m[i] = l[k]
             /\ (k < p /\ i = k) \/ (p <= k /\ i = k + 1)
  BY InsertedAt
<1>2. \A i \in 1..Len(m) : m[i] \in ToSet(zs) \cup {0}
  BY <1>1 DEF Ordered
<1>3. ASSUME NEW i \in 1..Len(m), NEW j \in 1..Len(m), i < j
      PROVE  m[i] # 0 /\ m[j] # 0 /\ Precedes(zs, m[i], m[j])
  <2>1. CASE i = p
    <3>1. j # p
      BY <1>1, <1>3, <2>1
    <3>2. PICK k \in 1..Len(l) : /\ m[j] = l[k]
                                 /\ (k < p /\ j = k) \/ (p <= k /\ j = k + 1)
      BY <1>1, <3>1
    <3>3. p <= k
      BY <1>1, <1>3, <2>1, <3>2
    <3> QED
      BY <1>0, <1>1, <2>1, <3>2, <3>3
  <2>2. CASE j = p
    <3>1. i # p
      BY <1>1, <1>3, <2>2
    <3>2. PICK k \in 1..Len(l) : /\ m[i] = l[k]
                                 /\ (k < p /\ i = k) \/ (p <= k /\ i = k + 1)
      BY <1>1, <3>1
    <3>3. k < p
      BY <1>1, <1>3, <2>2, <3>2
    <3> QED
      BY <1>0, <1>1, <2>2, <3>2, <3>3
  <2>3. CASE i # p /\ j # p
    <3>1. PICK k \in 1..Len(l) : /\ m[i] = l[k]
                                 /\ (k < p /\ i = k) \/ (p <= k /\ i = k + 1)
      BY <1>1, <2>3
    <3>2. PICK h \in 1..Len(l) : /\ m[j] = l[h]
                                 /\ (h < p /\ j = h) \/ (p <= h /\ j = h + 1)
      BY <1>1, <2>3
    <3>3. k < h
      BY <1>1, <1>3, <3>1, <3>2
    <3> QED
      BY <3>1, <3>2, <3>3 DEF Ordered
  <2> QED
    BY <2>1, <2>2, <2>3
<1> QED
  BY <1>2, <1>3 DEF Ordered

\* What is left of an ordered list when some of it is taken out.
LEMMA PickedOrdered ==
    ASSUME NEW zs, NEW l, NEW m, NEW f, Ordered(l, zs), Rising(f, Len(m), Len(l)),
           \A i \in 1..Len(m) : m[i] = l[f[i]]
    PROVE  Ordered(m, zs)
<1>1. \A i \in 1..Len(m) : f[i] \in 1..Len(l)
  BY DEF Rising
<1>2. \A i, j \in 1..Len(m) : i < j => f[i] < f[j]
  BY DEF Rising
<1> QED
  BY <1>1, <1>2, SMTT(30) DEF Ordered

\* The zones of a chain, in its order.
LEMMA LineBasics ==
    ASSUME NEW r \in AnyRegistry, NEW n \in Names
    PROVE  /\ Line(r, n) \in Seq(Zones \cup {0}) /\ Len(Line(r, n)) = Len(r.chain[n])
           /\ \A i \in 1..Len(r.chain[n]) : Line(r, n)[i] = r.zone[r.chain[n][i]]
           /\ Zoned(r, n) = Elems(Line(r, n))
           /\ Zoned(r, n) \subseteq Zones \cup {0}
<1>1. r.chain[n] \in Seq(Entries) /\ Len(r.chain[n]) \in Nat
  BY OfBasics
<1>2. \A i \in 1..Len(r.chain[n]) : r.chain[n][i] \in Entries
  BY <1>1
<1>3. \A i \in 1..Len(r.chain[n]) : r.zone[r.chain[n][i]] \in Zones \cup {0}
  BY <1>2 DEF AnyRegistry
<1>4. Line(r, n) \in Seq(Zones \cup {0}) /\ Len(Line(r, n)) = Len(r.chain[n])
  BY <1>1, <1>3 DEF Line
<1>5. \A i \in 1..Len(r.chain[n]) : Line(r, n)[i] = r.zone[r.chain[n][i]]
  BY DEF Line
<1>6. Zoned(r, n) = Elems(Line(r, n))
  <2>1. \A x : x \in Zoned(r, n) <=> \E i \in 1..Len(r.chain[n]) : x = r.zone[r.chain[n][i]]
    BY DEF Zoned, Of, Elems
  <2> QED
    BY <1>4, <1>5, <2>1 DEF Elems
<1>7. Zoned(r, n) \subseteq Zones \cup {0}
  BY <1>3, <1>4, <1>5, <1>6 DEF Elems
<1> QED
  BY <1>4, <1>5, <1>6, <1>7

-----------------------------------------------------------------------------
(* References *)

IsCopy(r, n) == r.chain[n] # <<>> /\ r.zone[HeadOf(r, n)] = 0

\* g_assetRefCount counts the copies, and the drops that left it one too high.
Refs(r, d) == r.refs = Cardinality(Copies(r)) + d

\* The default copies are the heads of the names that have one.
LEMMA CopiesAre ==
    ASSUME NEW r
    PROVE  Copies(r) = {HeadOf(r, m) : m \in {l \in Names : IsCopy(r, l)}}
<1> QED
  BY DEF Copies, Heads, IsCopy

\* They can be counted.
LEMMA CopiesFinite ==
    ASSUME NEW r \in AnyRegistry
    PROVE  IsFiniteSet(Copies(r)) /\ Cardinality(Copies(r)) \in Nat /\ Copies(r) \subseteq InChains(r)
<1>1. Copies(r) \subseteq InChains(r)
  <2>1. ASSUME NEW m \in Names, IsCopy(r, m) PROVE HeadOf(r, m) \in InChains(r)
    BY <2>1, OfBasics DEF IsCopy
  <2> QED
    BY <2>1, CopiesAre
<1>2. Copies(r) \subseteq Entries
  <2>1. Names = {} \/ InChains(r) \subseteq Entries
    BY OfBasics
  <2> QED
    BY <1>1, <2>1, CopiesAre
<1>3. IsFiniteSet(Entries)
  BY RegistryAssumption, FS_Interval DEF Entries
<1> QED
  BY <1>1, <1>2, <1>3, FS_Subset, FS_CardinalityType

\* A step that changes one chain keeps the count, if it counts the copy there.
LEMMA ShapeRefs ==
    ASSUME NEW r, NEW s, NEW n \in Names, NEW X, NEW Y, Shape(r, s, n, X, Y),
           NEW d \in Nat, Refs(r, d),
           s.refs = r.refs + (IF IsCopy(s, n) THEN 1 ELSE 0) - (IF IsCopy(r, n) THEN 1 ELSE 0)
    PROVE  Refs(s, d)
<1> DEFINE B == {HeadOf(r, m) : m \in {l \in Names \ {n} : IsCopy(r, l)}}
<1>0. r \in AnyRegistry /\ s \in AnyRegistry /\ Apart(r, X) /\ Apart(s, X \ Y)
  BY ShapeKeeps DEF Shape
<1>1. \A m \in Names \ {n} : HeadOf(s, m) = HeadOf(r, m) /\ (IsCopy(s, m) <=> IsCopy(r, m))
  <2> TAKE m \in Names \ {n}
  <2>0. SameAt(r, s, m)
    BY ShapeKeeps
  <2>1. s.chain[m] = r.chain[m] /\ HeadOf(s, m) = HeadOf(r, m)
    BY <2>0 DEF SameAt
  <2>2. r.chain[m] # <<>> => HeadOf(r, m) \in Of(r, m)
    BY <1>0, OfBasics
  <2>3. r.chain[m] # <<>> => s.zone[HeadOf(r, m)] = r.zone[HeadOf(r, m)]
    BY <2>0, <2>2 DEF SameAt
  <2> QED
    BY <2>1, <2>3 DEF IsCopy
<1>2. Copies(r) = B \cup (IF IsCopy(r, n) THEN {HeadOf(r, n)} ELSE {})
  BY CopiesAre
<1>3. Copies(s) = B \cup (IF IsCopy(s, n) THEN {HeadOf(s, n)} ELSE {})
  BY <1>1, CopiesAre
<1>4. IsCopy(r, n) => HeadOf(r, n) \notin B
  <2>1. ASSUME NEW m \in Names \ {n}, IsCopy(r, m), IsCopy(r, n) PROVE HeadOf(r, m) # HeadOf(r, n)
    <3>1. HeadOf(r, m) \in Of(r, m) /\ HeadOf(r, n) \in Of(r, n)
      BY <1>0, <2>1, OfBasics DEF IsCopy
    <3> QED
      BY <1>0, <3>1 DEF Apart
  <2> QED
    BY <2>1
<1>5. IsCopy(s, n) => HeadOf(s, n) \notin B
  <2>1. ASSUME NEW m \in Names \ {n}, IsCopy(r, m), IsCopy(s, n) PROVE HeadOf(r, m) # HeadOf(s, n)
    <3>1. HeadOf(r, m) \in Of(s, m) /\ HeadOf(s, n) \in Of(s, n)
      BY <1>0, <1>1, <2>1, OfBasics, SMTT(30) DEF IsCopy
    <3> QED
      BY <1>0, <3>1 DEF Apart
  <2> QED
    BY <2>1
<1>6. IsFiniteSet(B) /\ Cardinality(B) \in Nat
  <2>1. IsFiniteSet(Copies(r)) /\ B \subseteq Copies(r)
    BY <1>0, <1>2, CopiesFinite
  <2> QED
    BY <2>1, FS_Subset, FS_CardinalityType
<1> HIDE DEF B
<1>7. \A x : x \notin B => Cardinality(B \cup {x}) = Cardinality(B) + 1
  BY <1>6, FS_AddElement
<1>8. Cardinality(Copies(r)) = Cardinality(B) + (IF IsCopy(r, n) THEN 1 ELSE 0)
  <2>1. CASE IsCopy(r, n)
    BY <1>2, <1>4, <1>7, <2>1
  <2>2. CASE ~IsCopy(r, n)
    <3>1. Copies(r) = B
      BY <1>2, <2>2
    <3> QED
      BY <1>6, <2>2, <3>1
  <2> QED
    BY <2>1, <2>2
<1>9. Cardinality(Copies(s)) = Cardinality(B) + (IF IsCopy(s, n) THEN 1 ELSE 0)
  <2>1. CASE IsCopy(s, n)
    BY <1>3, <1>5, <1>7, <2>1
  <2>2. CASE ~IsCopy(s, n)
    <3>1. Copies(s) = B
      BY <1>3, <2>2
    <3> QED
      BY <1>6, <2>2, <3>1
  <2> QED
    BY <2>1, <2>2
<1> DEFINE b == Cardinality(B)
           i == IF IsCopy(r, n) THEN 1 ELSE 0
           j == IF IsCopy(s, n) THEN 1 ELSE 0
<1>10. b \in Nat /\ i \in Nat /\ j \in Nat /\ r.refs = (b + i) + d /\ s.refs = r.refs + j - i
       /\ Cardinality(Copies(s)) = b + j
  BY <1>6, <1>8, <1>9 DEF Refs
<1> HIDE DEF b, i, j
<1>11. s.refs = (b + j) + d
  BY <1>10
<1> QED
  BY <1>10, <1>11 DEF Refs

-----------------------------------------------------------------------------
(* Linking *)

\* The head of chain n stays what it was, in use or not; if it is in use and holds
\* other data, that is told.
HeadStays(r, s, n) ==
    LET h == HeadOf(r, n)
    IN  /\ HeadOf(s, n) = h
        /\ h \in s.inuse <=> h \in r.inuse
        /\ h \in r.inuse /\ s.data[h] # r.data[h] => h \in s.told

\* What linking e into chain n does to it.
Took(r, s, n, e) ==
    /\ s.chain[n] # <<>>
    /\ Zoned(s, n) = (Zoned(r, n) \ {0}) \cup {r.zone[e]}
    /\ \A x \in Of(s, n) : \E y \in Of(r, n) \cup {e} : s.zone[x] = r.zone[y] /\ s.data[x] = r.data[y]
    /\ s.refs = r.refs + (IF IsCopy(s, n) THEN 1 ELSE 0) - (IF IsCopy(r, n) THEN 1 ELSE 0)
    /\ r.told \subseteq s.told
    /\ r.chain[n] # <<>> => HeadStays(r, s, n)

\* The zone at the end of a chain that is not empty.
LastZone(r, n) == Line(r, n)[Len(Line(r, n))]

\* A chain keeps its end, or it now ends with the entry linked, which is below it.
EndStays(r, s, n, e) ==
    r.chain[n] # <<>> =>
        \/ LastZone(s, n) = LastZone(r, n)
        \/ LastZone(s, n) = r.zone[e] /\ (LastZone(r, n) = 0 \/ Priority[r.zone[e]] < Priority[LastZone(r, n)])

\* What the arbitration needs to know of the entry e, which is in hand.
Ready(r, n, X, e, zs) ==
    /\ r \in AnyRegistry /\ X \subseteq Entries /\ e \in X /\ Apart(r, X)
    /\ zs \in Seq(Zones) /\ Once(zs) /\ Ordered(Line(r, n), zs)
    /\ r.zone[e] \in ToSet(zs) /\ Newest(r, n, r.zone[e], zs)

\* What telling and releasing return.
LEMMA TellIs ==
    ASSUME NEW r \in AnyRegistry, NEW e \in Entries
    PROVE  /\ Tell(r, e) \in AnyRegistry
           /\ Tell(r, e).chain = r.chain /\ Tell(r, e).zone = r.zone /\ Tell(r, e).data = r.data
           /\ Tell(r, e).inuse = r.inuse /\ Tell(r, e).free = r.free
           /\ Tell(r, e).lost = r.lost /\ Tell(r, e).refs = r.refs
           /\ Tell(r, e).told = IF e \in r.inuse THEN r.told \cup {e} ELSE r.told
<1> QED
  BY DEF Tell, AnyRegistry

\* What giving entries back changes.
LEMMA ReleaseIs ==
    ASSUME NEW r \in AnyRegistry, NEW S, S \subseteq Entries
    PROVE  /\ ReleaseAll(r, S) \in AnyRegistry
           /\ ReleaseAll(r, S).chain = r.chain /\ ReleaseAll(r, S).refs = r.refs
           /\ ReleaseAll(r, S).inuse = r.inuse \ S /\ ReleaseAll(r, S).free = r.free \cup S
           /\ ReleaseAll(r, S).lost = r.lost /\ ReleaseAll(r, S).told = r.told
           /\ \A x \in Entries \ S : /\ ReleaseAll(r, S).zone[x] = r.zone[x]
                                     /\ ReleaseAll(r, S).data[x] = r.data[x]
<1> DEFINE zone == [e \in Entries |-> IF e \in S THEN 0 ELSE r.zone[e]]
           data == [e \in Entries |-> IF e \in S THEN 0 ELSE r.data[e]]
           t == ReleaseAll(r, S)
<1>1. zone \in [Entries -> Zones \cup {0}] /\ data \in [Entries -> Zones \cup {0}]
  BY DEF AnyRegistry
<1>2. \A x \in Entries \ S : zone[x] = r.zone[x] /\ data[x] = r.data[x]
  OBVIOUS
<1>3. t = [r EXCEPT !.free = r.free \cup S, !.inuse = r.inuse \ S, !.zone = zone, !.data = data]
  BY DEF ReleaseAll
<1> HIDE DEF zone, data, t
<1>4. /\ t.chain = r.chain /\ t.refs = r.refs /\ t.inuse = r.inuse \ S /\ t.free = r.free \cup S
      /\ t.lost = r.lost /\ t.told = r.told /\ t.zone = zone /\ t.data = data
  BY <1>3 DEF AnyRegistry
<1>5. t \in AnyRegistry
  BY <1>1, <1>3 DEF AnyRegistry
<1> QED
  BY <1>2, <1>4, <1>5 DEF t

\* What an entry that is about to be linked has to do with the chain.
LEMMA ReadyBasics ==
    ASSUME NEW r, NEW n \in Names, NEW X, NEW e, NEW zs, Ready(r, n, X, e, zs)
    PROVE  /\ r \in AnyRegistry /\ e \in Entries /\ e \notin Of(r, n)
           /\ r.zone[e] \in Zones /\ r.zone[e] # 0
           /\ r.chain[n] # <<>> => HeadOf(r, n) # e /\ HeadOf(r, n) \in Entries
<1>1. r \in AnyRegistry /\ e \in Entries /\ Apart(r, X) /\ e \in X
      /\ r.zone[e] \in ToSet(zs) /\ zs \in Seq(Zones)
  BY DEF Ready
<1>2. /\ Of(r, n) \subseteq InChains(r) /\ Of(r, n) \subseteq Entries
      /\ r.chain[n] # <<>> => HeadOf(r, n) \in Of(r, n)
  BY <1>1, OfBasics
<1>3. e \notin Of(r, n)
  BY <1>1, <1>2 DEF Apart
<1>4. r.zone[e] \in Zones /\ r.zone[e] # 0
  BY <1>1, RegistryAssumption DEF ToSet
<1> QED
  BY <1>1, <1>2, <1>3, <1>4

\* The entry put into the chain at p.
InsertsAt(r, s, n, e, p) ==
    /\ s \in AnyRegistry /\ Within(r, s, n, {e}) /\ s.free = r.free
    /\ Inserted(r.chain[n], p, e, s.chain[n])

Grown(r, s, n, X, e) == Shape(r, s, n, X, {e}) /\ Of(s, n) = Of(r, n) \cup {e}

\* An entry inserted into a chain is the only one that moves.
LEMMA InsertShape ==
    ASSUME NEW r, NEW s, NEW n \in Names, NEW X, NEW e, NEW zs, NEW p,
           Ready(r, n, X, e, zs), InsertsAt(r, s, n, e, p)
    PROVE  Grown(r, s, n, X, e)
<1>1. r \in AnyRegistry /\ X \subseteq Entries /\ e \in X /\ Apart(r, X) /\ e \notin Of(r, n)
  BY ReadyBasics DEF Ready
<1>2. r.chain[n] \in Seq(Entries) /\ Once(r.chain[n])
  BY <1>1, OfBasics DEF Apart
<1>3. Inserted(r.chain[n], p, e, s.chain[n]) /\ s \in AnyRegistry /\ Within(r, s, n, {e})
      /\ s.free = r.free
  BY DEF InsertsAt
<1>4. Of(s, n) = Of(r, n) \cup {e} /\ Once(s.chain[n])
  BY <1>1, <1>2, <1>3, InsertedOnce DEF Of
<1>5. s.free = r.free \cup ((Of(r, n) \cup {e}) \ Of(s, n))
  BY <1>3, <1>4
<1>6. {e} \subseteq X
  BY <1>1
<1> QED
  BY <1>1, <1>3, <1>4, <1>5, <1>6 DEF Shape, Grown

\* The zone z at its place in the order of the line l.
Placed(l, p, z, m) ==
    /\ Inserted(l, p, z, m)
    /\ \A i \in 1..Len(l) : /\ i < p => Priority[l[i]] > Priority[z]
                            /\ p <= i => Priority[z] >= Priority[l[i]]

\* With its zone there, the chain takes the entry.
Fits(r, s, n, e, zs) ==
    /\ Ordered(Line(s, n), zs)
    /\ Zoned(s, n) = (Zoned(r, n) \ {0}) \cup {r.zone[e]}
    /\ ~IsCopy(s, n) /\ s.chain[n] # <<>>
    /\ EndStays(r, s, n, e)

\* A zone put in its place in the line of a chain keeps the line ordered.
LEMMA InsertTakes ==
    ASSUME NEW r, NEW s \in AnyRegistry, NEW n \in Names, NEW X, NEW e, NEW zs, NEW p,
           Ready(r, n, X, e, zs), ~IsCopy(r, n), Placed(Line(r, n), p, r.zone[e], Line(s, n))
    PROVE  Fits(r, s, n, e, zs)
<1> DEFINE l == Line(r, n)
           m == Line(s, n)
           z == r.zone[e]
<1>1. /\ r \in AnyRegistry /\ z \in ToSet(zs) /\ z # 0 /\ z \in Zones
      /\ zs \in Seq(Zones) /\ Ordered(l, zs)
      /\ \A y \in Zoned(r, n) : y # 0 /\ Priority[y] = Priority[z] => Later(zs, z, y)
  BY ReadyBasics DEF Ready, Newest
<1>2. /\ l \in Seq(Zones \cup {0}) /\ Len(l) = Len(r.chain[n])
      /\ (\A i \in 1..Len(l) : l[i] = r.zone[r.chain[n][i]])
      /\ Zoned(r, n) = Elems(l)
  BY <1>1, LineBasics
<1>3. /\ m \in Seq(Zones \cup {0}) /\ Len(m) = Len(s.chain[n])
      /\ (\A i \in 1..Len(m) : m[i] = s.zone[s.chain[n][i]])
      /\ Zoned(s, n) = Elems(m)
  BY LineBasics
<1>4. /\ r.chain[n] \in Seq(Entries) /\ (r.chain[n] = <<>>) = (Len(l) = 0) /\ Len(l) \in Nat
      /\ r.chain[n] # <<>> => HeadOf(r, n) = r.chain[n][1]
  BY <1>1, <1>2, OfBasics
<1>5. /\ s.chain[n] \in Seq(Entries) /\ (s.chain[n] = <<>>) = (Len(m) = 0) /\ Len(m) \in Nat
      /\ s.chain[n] # <<>> => HeadOf(s, n) = s.chain[n][1]
  BY <1>3, OfBasics
<1> HIDE DEF l, m, z
<1>6. /\ Inserted(l, p, z, m)
      /\ \A i \in 1..Len(l) : (i < p => Priority[l[i]] > Priority[z])
                             /\ (p <= i => Priority[z] >= Priority[l[i]])
  BY DEF l, m, z, Placed
<1>7. \A i \in 1..Len(l) : l[i] # 0
  <2> TAKE i \in 1..Len(l)
  <2>1. CASE i = 1
    BY <1>2, <1>4, <2>1 DEF IsCopy
  <2>2. CASE i # 1
    <3>1. 1 \in 1..Len(l) /\ 1 < i
      BY <1>4, <2>2
    <3> QED
      BY <1>1, <3>1 DEF Ordered
  <2> QED
    BY <2>1, <2>2
<1>8. Ordered(m, zs)
  <2>1. ASSUME NEW i \in 1..Len(l)
        PROVE  l[i] # 0 /\ (i < p => Precedes(zs, l[i], z)) /\ (p <= i => Precedes(zs, z, l[i]))
    <3>1. l[i] \in Zoned(r, n) /\ l[i] # 0 /\ l[i] \in Zones
      BY <1>2, <1>7 DEF Elems
    <3>2. Priority[l[i]] \in Int /\ Priority[z] \in Int
      BY <1>1, <3>1, RegistryAssumption
    <3>3. i < p => Precedes(zs, l[i], z)
      BY <1>6 DEF Precedes
    <3>4. p <= i => Precedes(zs, z, l[i])
      BY <1>1, <1>6, <3>1, <3>2 DEF Precedes
    <3> QED
      BY <3>1, <3>3, <3>4
  <2> QED
    BY <1>1, <1>2, <1>6, <2>1, InsertedOrdered
<1>9. Elems(m) = Elems(l) \cup {z}
  BY <1>2, <1>6, InsertedOnce
<1>10. Zoned(s, n) = (Zoned(r, n) \ {0}) \cup {z}
  <2>1. 0 \notin Elems(l)
    BY <1>7 DEF Elems
  <2> QED
    BY <1>2, <1>3, <1>9, <2>1
<1>11. Len(m) = Len(l) + 1
  BY <1>6 DEF Inserted
<1>12. s.chain[n] # <<>> /\ 1 \in 1..Len(m)
  BY <1>4, <1>5, <1>11
<1>13. ~IsCopy(s, n)
  <2>1. m[1] \in Elems(l) \cup {z}
    BY <1>9, <1>12 DEF Elems
  <2>2. m[1] # 0
    BY <1>1, <1>7, <2>1 DEF Elems
  <2> QED
    BY <1>3, <1>5, <1>12, <2>2 DEF IsCopy
<1>14. Len(l) # 0 => m[Len(m)] = l[Len(l)] \/ (m[Len(m)] = z /\ p = Len(l) + 1)
  <2> SUFFICES ASSUME Len(l) # 0, ~(m[Len(m)] = z /\ p = Len(l) + 1) PROVE m[Len(m)] = l[Len(l)]
    OBVIOUS
  <2>1. Len(l) \in 1..Len(l)
    BY <1>4
  <2>2. p # Len(l) + 1
    BY <1>6, <1>11 DEF Inserted
  <2>3. p <= Len(l)
    BY <1>4, <1>6, <2>2 DEF Inserted
  <2>4. m[Len(l) + 1] = l[Len(l)]
    BY <1>6, <2>1, <2>3 DEF Inserted
  <2> QED
    BY <1>11, <2>4
<1>15. EndStays(r, s, n, e)
  <2> SUFFICES ASSUME r.chain[n] # <<>>
               PROVE  \/ m[Len(m)] = l[Len(l)]
                      \/ m[Len(m)] = z /\ Priority[z] < Priority[l[Len(l)]]
    BY DEF EndStays, LastZone, l, m, z
  <2>1. Len(l) \in 1..Len(l) /\ Len(l) # 0
    BY <1>4
  <2>2. CASE m[Len(m)] = z /\ p = Len(l) + 1
    <3>1. Priority[l[Len(l)]] > Priority[z]
      BY <1>4, <1>6, <2>1, <2>2
    <3>2. l[Len(l)] \in Zones
      BY <1>2, <1>7, <2>1
    <3>3. Priority[l[Len(l)]] \in Int /\ Priority[z] \in Int
      BY <1>1, <3>2, RegistryAssumption
    <3> QED
      BY <2>2, <3>1, <3>3
  <2> QED
    BY <1>14, <2>1, <2>2
<1> QED
  BY <1>8, <1>10, <1>12, <1>13, <1>15 DEF l, m, z, Fits

\* Arbitration: the first asset of its name.
LEMMA TakesEmpty ==
    ASSUME NEW r, NEW n \in Names, NEW X, NEW e, NEW zs, Ready(r, n, X, e, zs), Unlinked(r, n)
    PROVE  LET s == [r EXCEPT !.chain[n] = <<e>>]
           IN  /\ Shape(r, s, n, X, {e}) /\ Took(r, s, n, e)
               /\ Ordered(Line(s, n), zs) /\ EndStays(r, s, n, e)
<1> DEFINE s == [r EXCEPT !.chain[n] = <<e>>]
<1>1. /\ r \in AnyRegistry /\ e \in Entries /\ e \notin Of(r, n)
      /\ r.zone[e] \in Zones /\ r.zone[e] # 0
  BY ReadyBasics
<1>2. /\ s \in AnyRegistry /\ s.chain[n] = <<e>> /\ (\A m \in Names \ {n} : s.chain[m] = r.chain[m])
      /\ s.zone = r.zone /\ s.data = r.data /\ s.inuse = r.inuse /\ s.free = r.free
      /\ s.lost = r.lost /\ s.refs = r.refs /\ s.told = r.told
  <2>1. <<e>> \in Seq(Entries)
    BY <1>1
  <2> DEFINE u == <<e>>
  <2> HIDE DEF u
  <2>2. s = [r EXCEPT !.chain[n] = u]
    BY DEF u
  <2>3. /\ s \in AnyRegistry /\ s.chain = [r.chain EXCEPT ![n] = u]
        /\ s.zone = r.zone /\ s.data = r.data /\ s.inuse = r.inuse /\ s.free = r.free
        /\ s.lost = r.lost /\ s.refs = r.refs /\ s.told = r.told
    <3> HIDE DEF s
    <3> QED
      BY <1>1, <2>1, <2>2 DEF AnyRegistry, u
  <2>4. s.chain[n] = u /\ \A m \in Names \ {n} : s.chain[m] = r.chain[m]
    <3> HIDE DEF s
    <3> QED
      BY <1>1, <2>3 DEF AnyRegistry
  <2> QED
    BY <2>3, <2>4 DEF u
<1> HIDE DEF s
<1>3. Of(r, n) = {}
  BY <1>1, OfBasics DEF Unlinked
<1>4. Inserted(r.chain[n], 1, e, s.chain[n])
  BY <1>2 DEF Inserted, Unlinked
<1>5. Shape(r, s, n, X, {e}) /\ Of(s, n) = {e}
  <2>1. InsertsAt(r, s, n, e, 1)
    BY <1>2, <1>4 DEF InsertsAt, Within
  <2>2. Grown(r, s, n, X, e)
    BY <2>1, InsertShape
  <2> QED
    BY <1>3, <2>2 DEF Grown
<1>6. Line(s, n) = <<r.zone[e]>> /\ Line(r, n) = <<>>
  BY <1>1, <1>2 DEF Line, Unlinked
<1>7. Placed(Line(r, n), 1, r.zone[e], Line(s, n))
  BY <1>6 DEF Inserted, Placed
<1>8. ~IsCopy(r, n)
  BY DEF IsCopy, Unlinked
<1>9. s \in AnyRegistry
  BY <1>2
<1>10. Fits(r, s, n, e, zs)
  BY <1>7, <1>8, <1>9, InsertTakes
<1>11. Took(r, s, n, e)
  <2>1. \A x \in Of(s, n) : x = e /\ s.zone[x] = r.zone[e] /\ s.data[x] = r.data[e]
    BY <1>2, <1>5
  <2>2. r.refs \in Int
    BY <1>1 DEF AnyRegistry
  <2> QED
    BY <1>2, <1>8, <1>10, <2>1, <2>2 DEF Took, Unlinked, Fits
<1> QED
  BY <1>5, <1>10, <1>11 DEF s, Fits

\* A lone head that stands for no zone: a copy has no overrides.
LEMMA CopyAlone ==
    ASSUME NEW r \in AnyRegistry, NEW n \in Names, NEW zs \in Seq(Zones), Ordered(Line(r, n), zs)
    PROVE  /\ IsCopy(r, n) => Len(r.chain[n]) = 1 /\ Of(r, n) = {HeadOf(r, n)} /\ Zoned(r, n) = {0}
           /\ ~IsCopy(r, n) => 0 \notin Zoned(r, n)
           /\ Zoned(r, n) \subseteq ToSet(zs) \cup {0}
           /\ Len(r.chain[n]) > 1 => ~IsCopy(r, n)
<1> DEFINE l == Line(r, n)
           c == r.chain[n]
<1>1. /\ l \in Seq(Zones \cup {0}) /\ Len(l) = Len(c) /\ c \in Seq(Entries) /\ Len(c) \in Nat
      /\ (\A i \in 1..Len(c) : l[i] = r.zone[c[i]])
      /\ Zoned(r, n) = Elems(l) /\ (c = <<>>) = (Len(c) = 0)
      /\ c # <<>> => c[1] \in Of(r, n) /\ HeadOf(r, n) = c[1]
  BY LineBasics, OfBasics
<1>2. Of(r, n) = Elems(c)
  BY DEF Of
<1>3. ASSUME Len(c) > 1 PROVE ~IsCopy(r, n)
  <2>1. 1 \in 1..Len(l) /\ 2 \in 1..Len(l) /\ 1 < 2 /\ c # <<>>
    BY <1>1, <1>3
  <2>2. l[1] # 0
    BY <2>1 DEF Ordered
  <2> QED
    BY <1>1, <2>1, <2>2 DEF IsCopy
<1>4. ASSUME IsCopy(r, n) PROVE Len(c) = 1 /\ Of(r, n) = {HeadOf(r, n)} /\ Zoned(r, n) = {0}
  <2>1. c # <<>> /\ r.zone[c[1]] = 0 /\ HeadOf(r, n) = c[1]
    BY <1>1, <1>4 DEF IsCopy
  <2>2. Len(c) = 1
    <3>1. ~(Len(c) > 1)
      BY <1>3, <1>4
    <3>2. Len(c) \in Nat /\ Len(c) # 0
      BY <1>1, <2>1
    <3>3. \A k \in Nat : k # 0 /\ ~(k > 1) => k = 1
      OBVIOUS
    <3> HIDE DEF c
    <3> QED
      BY <3>1, <3>2, <3>3
  <2>3. \A i \in 1..Len(c) : i = 1
    BY <2>2
  <2>4. Of(r, n) = {c[1]}
    BY <1>2, <2>2, <2>3 DEF Elems
  <2> QED
    BY <2>1, <2>2, <2>4 DEF Zoned
<1>5. ASSUME ~IsCopy(r, n) PROVE 0 \notin Zoned(r, n)
  <2>1. ASSUME NEW i \in 1..Len(l) PROVE l[i] # 0
    <3>1. 1 \in 1..Len(l) /\ c # <<>>
      BY <1>1
    <3>2. CASE i = 1
      BY <1>1, <1>5, <3>1, <3>2 DEF IsCopy
    <3>3. CASE i # 1
      <4>1. 1 < i
        BY <1>1, <3>3
      <4> QED
        BY <3>1, <4>1 DEF Ordered
    <3> QED
      BY <3>2, <3>3
  <2> QED
    BY <1>1, <2>1 DEF Elems
<1>6. Zoned(r, n) \subseteq ToSet(zs) \cup {0}
  <2>1. \A i \in 1..Len(l) : l[i] \in ToSet(zs) \cup {0}
    BY DEF Ordered
  <2>2. \A x \in Elems(l) : x \in ToSet(zs) \cup {0}
    BY <2>1 DEF Elems
  <2> QED
    BY <1>1, <2>2
<1> QED
  BY <1>3, <1>4, <1>5, <1>6

\* C.0 leaves a registry.
LEMMA ReplaceDefaultType ==
    ASSUME NEW r \in AnyRegistry, NEW n \in Names, NEW e \in Entries, r.chain[n] # <<>>
    PROVE  ReplaceDefault(r, n, e) \in AnyRegistry
<1> DEFINE h == HeadOf(r, n)
           t == Tell(r, h)
           u == [t EXCEPT !.refs = @ - 1, !.zone[h] = r.zone[e], !.data[h] = r.data[e]]
<1>1. h \in Entries
  BY OfBasics
<1>2. t \in AnyRegistry
  BY <1>1, TellIs
<1>3. r.zone[e] \in Zones \cup {0} /\ r.data[e] \in Zones \cup {0}
  BY DEF AnyRegistry
<1>4. ReplaceDefault(r, n, e) = ReleaseAll(u, {e})
  BY DEF ReplaceDefault, Release
<1> HIDE DEF t, h
<1> DEFINE zone == [t.zone EXCEPT ![h] = r.zone[e]]
           data == [t.data EXCEPT ![h] = r.data[e]]
<1>5. u \in AnyRegistry
  <2>1. zone \in [Entries -> Zones \cup {0}] /\ data \in [Entries -> Zones \cup {0}]
        /\ t.refs - 1 \in Int
    BY <1>1, <1>2, <1>3 DEF AnyRegistry
  <2>2. u = [t EXCEPT !.refs = t.refs - 1, !.zone = zone, !.data = data]
    OBVIOUS
  <2> HIDE DEF zone, data, u
  <2> QED
    BY <1>2, <2>1, <2>2 DEF AnyRegistry
<1> HIDE DEF u
<1>6. {e} \subseteq Entries
  OBVIOUS
<1> QED
  BY <1>4, <1>5, <1>6, ReleaseIs

\* Arbitration: an asset takes the place of a default copy.
LEMMA TakesDefault ==
    ASSUME NEW r, NEW n \in Names, NEW X, NEW e, NEW zs, Ready(r, n, X, e, zs), IsCopy(r, n)
    PROVE  LET s == ReplaceDefault(r, n, e)
           IN  /\ Shape(r, s, n, X, {e}) /\ Took(r, s, n, e)
               /\ Ordered(Line(s, n), zs) /\ EndStays(r, s, n, e)
<1> DEFINE s == ReplaceDefault(r, n, e)
           h == HeadOf(r, n)
           z == r.zone[e]
<1>1. /\ r \in AnyRegistry /\ e \in Entries /\ e \notin Of(r, n) /\ z \in Zones /\ z # 0
      /\ r.chain[n] # <<>> /\ r.zone[h] = 0 /\ h # e /\ h \in Entries
  BY ReadyBasics DEF IsCopy
<1>2. /\ X \subseteq Entries /\ e \in X /\ Apart(r, X) /\ z \in ToSet(zs) /\ zs \in Seq(Zones)
      /\ Ordered(Line(r, n), zs)
  BY DEF Ready
<1>3. Len(r.chain[n]) = 1 /\ Of(r, n) = {h} /\ Zoned(r, n) = {0}
  BY <1>1, <1>2, CopyAlone
<1>4. /\ s.chain = r.chain /\ s.free = r.free \cup {e} /\ s.lost = r.lost
      /\ s.inuse = r.inuse \ {e} /\ s.refs = r.refs - 1
      /\ s.told = IF h \in r.inuse THEN r.told \cup {h} ELSE r.told
      /\ s.zone[h] = z /\ s.data[h] = r.data[e]
      /\ \A x \in Entries \ {h, e} : s.zone[x] = r.zone[x] /\ s.data[x] = r.data[x]
  BY <1>1 DEF ReplaceDefault, Release, ReleaseAll, Tell, AnyRegistry
<1>5. s \in AnyRegistry
  BY <1>1, ReplaceDefaultType
<1> HIDE DEF s, h, z
<1>6. Of(s, n) = {h} /\ Once(s.chain[n]) /\ HeadOf(s, n) = h /\ s.chain[n] = r.chain[n]
  <2>1. Once(r.chain[n])
    BY <1>2 DEF Apart
  <2>2. Of(s, n) = Of(r, n) /\ HeadOf(s, n) = HeadOf(r, n)
    BY <1>4 DEF Of, HeadOf
  <2> QED
    BY <1>3, <1>4, <2>1, <2>2 DEF h
<1>7. Shape(r, s, n, X, {e})
  <2>1. \A x \in Entries \ (Of(r, n) \cup {e}) :
           s.zone[x] = r.zone[x] /\ s.data[x] = r.data[x] /\ (x \in s.inuse <=> x \in r.inuse)
    BY <1>3, <1>4
  <2>2. s.free = r.free \cup ((Of(r, n) \cup {e}) \ Of(s, n))
    BY <1>1, <1>3, <1>4, <1>6
  <2> QED
    BY <1>1, <1>2, <1>3, <1>4, <1>5, <1>6, <2>1, <2>2 DEF Shape, Within
<1>8. Zoned(s, n) = {z}
  BY <1>4, <1>6 DEF Zoned
<1>9. /\ Len(Line(s, n)) = 1 /\ Len(Line(r, n)) = 1
      /\ Line(s, n)[1] = z /\ Line(r, n)[1] = 0
  <2>1. /\ Len(Line(s, n)) = Len(s.chain[n]) /\ Zoned(s, n) = Elems(Line(s, n))
        /\ Len(Line(r, n)) = Len(r.chain[n]) /\ Zoned(r, n) = Elems(Line(r, n))
    BY <1>1, <1>5, LineBasics
  <2>2. 1 \in 1..1
    OBVIOUS
  <2> QED
    BY <1>3, <1>6, <1>8, <2>1, <2>2 DEF Elems
<1>10. Ordered(Line(s, n), zs)
  BY <1>2, <1>9 DEF Ordered
<1>11. EndStays(r, s, n, e)
  BY <1>9 DEF EndStays, LastZone, z
<1>12. ~IsCopy(s, n)
  BY <1>1, <1>4, <1>6 DEF IsCopy
<1>13. HeadStays(r, s, n)
  BY <1>1, <1>4, <1>6 DEF HeadStays, h
<1>14. s.refs = r.refs + (IF IsCopy(s, n) THEN 1 ELSE 0) - (IF IsCopy(r, n) THEN 1 ELSE 0)
  <2>1. r.refs \in Int
    BY <1>1 DEF AnyRegistry
  <2> QED
    BY <1>4, <1>12, <2>1
<1>15. Took(r, s, n, e)
  <2>1. \A x \in Of(s, n) : s.zone[x] = r.zone[e] /\ s.data[x] = r.data[e]
    BY <1>4, <1>6 DEF z
  <2>2. Zoned(s, n) = (Zoned(r, n) \ {0}) \cup {r.zone[e]}
    BY <1>3, <1>8 DEF z
  <2>3. r.told \subseteq s.told /\ s.chain[n] # <<>>
    BY <1>1, <1>4, <1>6
  <2> QED
    BY <1>13, <1>14, <2>1, <2>2, <2>3 DEF Took
<1> QED
  BY <1>7, <1>10, <1>11, <1>15 DEF s

\* A chain of zones goes down in priority.
Down(l) ==
    /\ \A i \in 1..Len(l) : l[i] \in Zones /\ Priority[l[i]] \in Int
    /\ \A i, j \in 1..Len(l) : i <= j => Priority[l[i]] >= Priority[l[j]]

\* A chain of zones goes down in priority.
LEMMA LineDown ==
    ASSUME NEW r \in AnyRegistry, NEW n \in Names, NEW zs \in Seq(Zones),
           Ordered(Line(r, n), zs), ~IsCopy(r, n)
    PROVE  Down(Line(r, n))
<1> DEFINE l == Line(r, n)
<1>1. l \in Seq(Zones \cup {0}) /\ Zoned(r, n) = Elems(l) /\ 0 \notin Zoned(r, n)
  BY LineBasics, CopyAlone
<1>2. ASSUME NEW i \in 1..Len(l) PROVE l[i] \in Zones /\ Priority[l[i]] \in Int
  <2>1. l[i] \in Zones
    BY <1>1 DEF Elems
  <2> QED
    BY <2>1, RegistryAssumption
<1>3. ASSUME NEW i \in 1..Len(l), NEW j \in 1..Len(l), i <= j
      PROVE  Priority[l[i]] >= Priority[l[j]]
  <2>1. CASE i = j
    BY <1>2, <2>1
  <2>2. CASE i < j
    <3>1. Precedes(zs, l[i], l[j])
      BY <2>2 DEF Ordered
    <3> QED
      BY <1>2, <3>1 DEF Precedes
  <2> QED
    BY <1>3, <2>1, <2>2
<1> QED
  BY <1>2, <1>3 DEF Down

\* What C.2 changes.
LEMMA ReplaceHeadIs ==
    ASSUME NEW r \in AnyRegistry, NEW n \in Names, NEW e \in Entries, ~Unlinked(r, n)
    PROVE  LET s == ReplaceHead(r, n, e)
               h == HeadOf(r, n)
           IN  /\ s \in AnyRegistry /\ h \in Entries
               /\ Inserted(r.chain[n], 2, e, s.chain[n])
               /\ \A m \in Names \ {n} : s.chain[m] = r.chain[m]
               /\ s.inuse = r.inuse /\ s.free = r.free /\ s.lost = r.lost /\ s.refs = r.refs
               /\ s.told = (IF h \in r.inuse THEN r.told \cup {h} ELSE r.told)
               /\ \A x \in Entries \ {h, e} : s.zone[x] = r.zone[x] /\ s.data[x] = r.data[x]
               /\ s.zone[e] = r.zone[h] /\ s.data[e] = r.data[h]
               /\ h # e => s.zone[h] = r.zone[e] /\ s.data[h] = r.data[e]
<1> DEFINE s == ReplaceHead(r, n, e)
           h == HeadOf(r, n)
           t == Tell(r, h)
           zone == [r.zone EXCEPT ![h] = r.zone[e], ![e] = r.zone[h]]
           data == [r.data EXCEPT ![h] = r.data[e], ![e] = r.data[h]]
           c == <<h, e>> \o Tail(r.chain[n])
           chain == [r.chain EXCEPT ![n] = c]
<1>1. h \in Entries /\ h = r.chain[n][1] /\ r.chain[n] \in Seq(Entries)
  BY OfBasics DEF Unlinked
<1>2. c \in Seq(Entries) /\ Inserted(r.chain[n], 2, e, c)
  BY <1>1, SwapInserts DEF Unlinked
<1>3. /\ t \in AnyRegistry
      /\ t.chain = r.chain /\ t.zone = r.zone /\ t.data = r.data
      /\ t.inuse = r.inuse /\ t.free = r.free /\ t.lost = r.lost /\ t.refs = r.refs
      /\ t.told = IF h \in r.inuse THEN r.told \cup {h} ELSE r.told
  BY <1>1, TellIs
<1>4. s = [t EXCEPT !.chain[n] = <<h, e>> \o Tail(t.chain[n]),
                    !.zone = [t.zone EXCEPT ![h] = r.zone[e], ![e] = r.zone[h]],
                    !.data = [t.data EXCEPT ![h] = r.data[e], ![e] = r.data[h]]]
  BY DEF ReplaceHead
<1>5. s = [t EXCEPT !.chain = chain, !.zone = zone, !.data = data]
  <2> HIDE DEF t, h
  <2>1. s = [t EXCEPT !.chain = [t.chain EXCEPT ![n] = <<h, e>> \o Tail(t.chain[n])],
                      !.zone = [t.zone EXCEPT ![h] = r.zone[e], ![e] = r.zone[h]],
                      !.data = [t.data EXCEPT ![h] = r.data[e], ![e] = r.data[h]]]
    BY <1>4
  <2> QED
    BY <1>3, <2>1
<1>6. zone \in [Entries -> Zones \cup {0}] /\ data \in [Entries -> Zones \cup {0}]
  BY <1>1 DEF AnyRegistry
<1>7. /\ \A x \in Entries \ {h, e} : zone[x] = r.zone[x] /\ data[x] = r.data[x]
      /\ zone[e] = r.zone[h] /\ data[e] = r.data[h]
      /\ h # e => zone[h] = r.zone[e] /\ data[h] = r.data[e]
  BY <1>1 DEF AnyRegistry
<1>8. /\ chain \in [Names -> Seq(Entries)] /\ chain[n] = c
      /\ \A m \in Names \ {n} : chain[m] = r.chain[m]
  <2> HIDE DEF c
  <2> QED
    BY <1>2 DEF AnyRegistry
<1> HIDE DEF zone, data, chain, c, s, t, h
<1>9. /\ s.chain = chain /\ s.zone = zone /\ s.data = data /\ s.inuse = r.inuse /\ s.free = r.free
      /\ s.lost = r.lost /\ s.refs = r.refs
      /\ s.told = IF h \in r.inuse THEN r.told \cup {h} ELSE r.told
  BY <1>3, <1>5 DEF AnyRegistry
<1>10. s \in AnyRegistry
  BY <1>3, <1>5, <1>6, <1>8 DEF AnyRegistry
<1> QED
  BY <1>1, <1>2, <1>7, <1>8, <1>9, <1>10 DEF s, h

\* Arbitration: the new asset wins.
LEMMA TakesHead ==
    ASSUME NEW r, NEW n \in Names, NEW X, NEW e, NEW zs, Ready(r, n, X, e, zs),
           ~Unlinked(r, n), ~IsCopy(r, n), Wins(r, n, e)
    PROVE  LET s == ReplaceHead(r, n, e)
           IN  /\ Shape(r, s, n, X, {e}) /\ Took(r, s, n, e)
               /\ Ordered(Line(s, n), zs) /\ EndStays(r, s, n, e)
<1> DEFINE s == ReplaceHead(r, n, e)
           h == HeadOf(r, n)
           z == r.zone[e]
           c == r.chain[n]
           l == Line(r, n)
           m == Line(s, n)
<1>1. /\ r \in AnyRegistry /\ e \in Entries /\ e \notin Of(r, n) /\ z \in Zones /\ z # 0
      /\ h # e /\ h \in Entries
  BY ReadyBasics DEF Unlinked
<1>2. zs \in Seq(Zones) /\ Ordered(l, zs) /\ Once(c)
  BY DEF Ready, Apart
<1>3. /\ s \in AnyRegistry
      /\ Inserted(c, 2, e, s.chain[n])
      /\ \A k \in Names \ {n} : s.chain[k] = r.chain[k]
      /\ s.inuse = r.inuse /\ s.free = r.free /\ s.lost = r.lost /\ s.refs = r.refs
      /\ s.told = (IF h \in r.inuse THEN r.told \cup {h} ELSE r.told)
      /\ \A x \in Entries \ {h, e} : s.zone[x] = r.zone[x] /\ s.data[x] = r.data[x]
      /\ s.zone[e] = r.zone[h] /\ s.data[e] = r.data[h]
      /\ s.zone[h] = r.zone[e] /\ s.data[h] = r.data[e]
  BY <1>1, ReplaceHeadIs, SMTT(30)
<1> HIDE DEF s
<1>4. /\ c \in Seq(Entries) /\ Len(c) \in Nat /\ Len(c) # 0 /\ h = c[1] /\ h \in Of(r, n)
      /\ Of(r, n) = Elems(c)
  BY <1>1, OfBasics DEF Of, Unlinked
<1>5. /\ l \in Seq(Zones \cup {0}) /\ Len(l) = Len(c) /\ \A i \in 1..Len(c) : l[i] = r.zone[c[i]]
  BY <1>1, LineBasics
<1>6. /\ m \in Seq(Zones \cup {0}) /\ Len(m) = Len(s.chain[n])
      /\ \A i \in 1..Len(s.chain[n]) : m[i] = s.zone[s.chain[n][i]]
  BY <1>3, LineBasics
<1>7. Grown(r, s, n, X, e)
  <2>1. InsertsAt(r, s, n, e, 2)
    BY <1>3, <1>4 DEF InsertsAt, Within
  <2> QED
    BY <2>1, InsertShape
<1>8. Down(l)
  BY <1>1, <1>2, LineDown
<1> HIDE DEF l, m, c
<1>9. Inserted(l, 1, z, m)
  <2>1. /\ Len(s.chain[n]) = Len(c) + 1 /\ s.chain[n][2] = e
        /\ \A i \in 1..Len(c) : /\ i < 2 => s.chain[n][i] = c[i]
                                /\ 2 <= i => s.chain[n][i + 1] = c[i]
    BY <1>3 DEF Inserted
  <2>2. Len(m) = Len(l) + 1 /\ 1 \in 1..(Len(l) + 1)
    BY <1>4, <1>5, <1>6, <2>1
  <2>3. m[1] = z
    <3>1. 1 \in 1..Len(c) /\ 1 \in 1..Len(s.chain[n])
      BY <1>4, <2>1
    <3>2. s.chain[n][1] = h
      BY <1>4, <2>1, <3>1
    <3> QED
      BY <1>3, <1>6, <3>1, <3>2
  <2>4. ASSUME NEW i \in 1..Len(l) PROVE m[i + 1] = l[i]
    <3>1. CASE i = 1
      <4>1. 2 \in 1..Len(s.chain[n]) /\ 1 \in 1..Len(c)
        BY <1>4, <2>1
      <4>2. m[2] = s.zone[e]
        BY <1>6, <2>1, <4>1
      <4>3. l[1] = r.zone[h]
        BY <1>4, <1>5, <4>1
      <4> QED
        BY <1>3, <3>1, <4>2, <4>3
    <3>2. CASE 2 <= i
      <4>1. i \in 1..Len(c) /\ 1 \in 1..Len(c) /\ i # 1 /\ i + 1 \in 1..Len(s.chain[n])
        BY <1>4, <1>5, <2>1, <3>2
      <4>2. c[i] # h
        BY <1>2, <1>4, <4>1 DEF Once
      <4>3. c[i] \in Entries /\ c[i] # e
        BY <1>1, <1>4, <4>1 DEF Elems
      <4>4. m[i + 1] = s.zone[c[i]] /\ l[i] = r.zone[c[i]]
        BY <1>5, <1>6, <2>1, <3>2, <4>1
      <4> QED
        BY <1>3, <4>2, <4>3, <4>4
    <3> QED
      BY <1>4, <1>5, <3>1, <3>2
  <2> QED
    BY <1>4, <1>5, <2>2, <2>3, <2>4 DEF Inserted
<1>10. Placed(l, 1, z, m)
  <2>1. ASSUME NEW i \in 1..Len(l) PROVE ~(i < 1) /\ Priority[z] >= Priority[l[i]]
    <3>1. 1 \in 1..Len(l) /\ 1 <= i
      BY <1>4, <1>5
    <3>2. Priority[l[1]] >= Priority[l[i]] /\ Priority[l[1]] \in Int /\ Priority[l[i]] \in Int
      BY <1>8, <3>1 DEF Down
    <3>3. Priority[z] >= Priority[l[1]]
      BY <1>4, <1>5, <3>1 DEF Wins
    <3>4. Priority[z] \in Int
      BY <1>1, RegistryAssumption
    <3> QED
      BY <3>1, <3>2, <3>3, <3>4
  <2> QED
    BY <1>9, <2>1 DEF Placed
<1>11. Fits(r, s, n, e, zs)
  BY <1>3, <1>10, InsertTakes DEF l, m
<1>12. HeadOf(s, n) = h
  <2>1. s.chain[n] # <<>> /\ 1 \in 1..Len(c)
    BY <1>4, <1>11 DEF Fits
  <2>2. s.chain[n][1] = c[1]
    BY <1>3, <2>1 DEF Inserted
  <2> QED
    BY <1>4, <2>1, <2>2 DEF HeadOf
<1>13. HeadStays(r, s, n)
  BY <1>3, <1>12 DEF HeadStays
<1>14. \A x \in Of(s, n) : \E y \in Of(r, n) \cup {e} : s.zone[x] = r.zone[y] /\ s.data[x] = r.data[y]
  <2>1. ASSUME NEW x \in Of(s, n)
        PROVE  \E y \in Of(r, n) \cup {e} : s.zone[x] = r.zone[y] /\ s.data[x] = r.data[y]
    <3>1. x \in Of(r, n) \cup {e} /\ x \in Entries
      BY <1>1, <1>7, OfBasics DEF Grown
    <3>2. CASE x = e
      BY <1>3, <1>4, <3>2
    <3>3. CASE x = h
      BY <1>3, <3>3
    <3>4. CASE x # e /\ x # h
      BY <1>3, <3>1, <3>4
    <3> QED
      BY <3>2, <3>3, <3>4
  <2> QED
    BY <2>1
<1>15. Took(r, s, n, e)
  <2>1. r.refs \in Int
    BY <1>1 DEF AnyRegistry
  <2>2. s.refs = r.refs + (IF IsCopy(s, n) THEN 1 ELSE 0) - (IF IsCopy(r, n) THEN 1 ELSE 0)
    BY <1>3, <1>11, <2>1 DEF Fits
  <2>3. r.told \subseteq s.told
    BY <1>3
  <2> QED
    BY <1>11, <1>13, <1>14, <2>2, <2>3 DEF Took, Fits
<1> QED
  BY <1>7, <1>11, <1>15 DEF s, Grown, Fits

\* Where InsertOverride puts the entry: below all overrides of higher priority.
LEMMA InsertOverrideIs ==
    ASSUME NEW r \in AnyRegistry, NEW n \in Names, NEW e \in Entries, ~Unlinked(r, n)
    PROVE  LET s == InsertOverride(r, n, e)
               c == r.chain[n]
           IN  /\ s \in AnyRegistry
               /\ \A m \in Names \ {n} : s.chain[m] = r.chain[m]
               /\ s.zone = r.zone /\ s.data = r.data /\ s.inuse = r.inuse /\ s.free = r.free
               /\ s.lost = r.lost /\ s.refs = r.refs /\ s.told = r.told
               /\ \E at \in 2..(Len(c) + 1) :
                    /\ Inserted(c, at, e, s.chain[n])
                    /\ \A i \in 2..Len(c) : i < at => ~(Priority[r.zone[e]] >= Priority[r.zone[c[i]]])
                    /\ at <= Len(c) => Priority[r.zone[e]] >= Priority[r.zone[c[at]]]
<1> DEFINE s == InsertOverride(r, n, e)
           c == r.chain[n]
           below == {i \in 2..Len(c) : Priority[r.zone[e]] >= Priority[r.zone[c[i]]]}
           at == IF below = {} THEN Len(c) + 1 ELSE CHOOSE i \in below : \A j \in below : i <= j
           d == InsertAt(c, at, e)
           chain == [r.chain EXCEPT ![n] = d]
<1>1. c \in Seq(Entries) /\ Len(c) \in Nat /\ Len(c) # 0
  BY OfBasics DEF Unlinked
<1>2. /\ at \in 2..(Len(c) + 1)
      /\ \A i \in 2..Len(c) : i < at => ~(Priority[r.zone[e]] >= Priority[r.zone[c[i]]])
      /\ at <= Len(c) => Priority[r.zone[e]] >= Priority[r.zone[c[at]]]
  <2>1. CASE below = {}
    <3>1. at = Len(c) + 1
      BY <2>1
    <3>2. \A i \in 2..Len(c) : ~(Priority[r.zone[e]] >= Priority[r.zone[c[i]]])
      BY <2>1
    <3> HIDE DEF at, c
    <3> QED
      BY <1>1, <3>1, <3>2
  <2>2. CASE below # {}
    <3>1. below \in SUBSET Nat
      BY <1>1
    <3>2. \E i \in below : \A j \in below : i <= j
      <4> HIDE DEF below
      <4> QED
        BY <2>2, <3>1, LeastOf
    <3>3. at \in below /\ \A j \in below : at <= j
      BY <2>2, <3>2
    <3>4. \A i \in below : i \in 2..Len(c) /\ Priority[r.zone[e]] >= Priority[r.zone[c[i]]]
      OBVIOUS
    <3>5. \A i \in 2..Len(c) : i \notin below => ~(Priority[r.zone[e]] >= Priority[r.zone[c[i]]])
      OBVIOUS
    <3> HIDE DEF at, below, c
    <3>6. at \in 2..Len(c) /\ Priority[r.zone[e]] >= Priority[r.zone[c[at]]]
      BY <3>3, <3>4
    <3>7. ASSUME NEW i \in 2..Len(c), i < at PROVE ~(Priority[r.zone[e]] >= Priority[r.zone[c[i]]])
      <4>1. i \notin below
        BY <1>1, <3>3, <3>6, <3>7
      <4> QED
        BY <3>5, <4>1
    <3> QED
      BY <1>1, <3>6, <3>7
  <2> QED
    BY <2>1, <2>2
<1>3. s = [r EXCEPT !.chain[n] = d]
  BY DEF InsertOverride
<1> HIDE DEF at, below
<1>4. d \in Seq(Entries) /\ Inserted(c, at, e, d)
  <2>1. at \in 1..(Len(c) + 1)
    BY <1>1, <1>2
  <2> HIDE DEF c
  <2> QED
    BY <1>1, <2>1, InsertAtInserts
<1> HIDE DEF d, c
<1>5. chain \in [Names -> Seq(Entries)] /\ chain[n] = d /\ \A m \in Names \ {n} : chain[m] = r.chain[m]
  BY <1>4 DEF AnyRegistry
<1>6. s = [r EXCEPT !.chain = chain]
  BY <1>3
<1> HIDE DEF s, chain
<1>7. /\ s.chain = chain
      /\ s.zone = r.zone /\ s.data = r.data /\ s.inuse = r.inuse /\ s.free = r.free
      /\ s.lost = r.lost /\ s.refs = r.refs /\ s.told = r.told
      /\ s \in AnyRegistry
  BY <1>5, <1>6 DEF AnyRegistry
<1> QED
  BY <1>2, <1>4, <1>5, <1>7 DEF s, c

\* Arbitration: the new asset loses.
LEMMA TakesOverride ==
    ASSUME NEW r, NEW n \in Names, NEW X, NEW e, NEW zs, Ready(r, n, X, e, zs),
           ~Unlinked(r, n), ~IsCopy(r, n), ~Wins(r, n, e)
    PROVE  LET s == InsertOverride(r, n, e)
           IN  /\ Shape(r, s, n, X, {e}) /\ Took(r, s, n, e)
               /\ Ordered(Line(s, n), zs) /\ EndStays(r, s, n, e)
<1> DEFINE s == InsertOverride(r, n, e)
           h == HeadOf(r, n)
           z == r.zone[e]
           c == r.chain[n]
           l == Line(r, n)
           m == Line(s, n)
<1>1. /\ r \in AnyRegistry /\ e \in Entries /\ e \notin Of(r, n) /\ z \in Zones /\ z # 0
      /\ h # e /\ h \in Entries
  BY ReadyBasics DEF Unlinked
<1>2. zs \in Seq(Zones) /\ Ordered(l, zs) /\ Once(c)
  BY DEF Ready, Apart
<1>3. /\ s \in AnyRegistry
      /\ \A k \in Names \ {n} : s.chain[k] = r.chain[k]
      /\ s.zone = r.zone /\ s.data = r.data /\ s.inuse = r.inuse /\ s.free = r.free
      /\ s.lost = r.lost /\ s.refs = r.refs /\ s.told = r.told
      /\ \E at \in 2..(Len(c) + 1) :
           /\ Inserted(c, at, e, s.chain[n])
           /\ \A i \in 2..Len(c) : i < at => ~(Priority[r.zone[e]] >= Priority[r.zone[c[i]]])
           /\ at <= Len(c) => Priority[r.zone[e]] >= Priority[r.zone[c[at]]]
  BY <1>1, InsertOverrideIs
<1> HIDE DEF s
<1>4. PICK at \in 2..(Len(c) + 1) :
           /\ Inserted(c, at, e, s.chain[n])
           /\ \A i \in 2..Len(c) : i < at => ~(Priority[z] >= Priority[r.zone[c[i]]])
           /\ at <= Len(c) => Priority[z] >= Priority[r.zone[c[at]]]
  BY <1>3
<1>5. /\ c \in Seq(Entries) /\ Len(c) \in Nat /\ Len(c) # 0 /\ h = c[1] /\ h \in Of(r, n)
      /\ Of(r, n) = Elems(c)
  BY <1>1, OfBasics DEF Of, Unlinked
<1>6. /\ l \in Seq(Zones \cup {0}) /\ Len(l) = Len(c) /\ \A i \in 1..Len(c) : l[i] = r.zone[c[i]]
  BY <1>1, LineBasics
<1>7. /\ m \in Seq(Zones \cup {0}) /\ Len(m) = Len(s.chain[n])
      /\ \A i \in 1..Len(s.chain[n]) : m[i] = s.zone[s.chain[n][i]]
  BY <1>3, LineBasics
<1>8. Grown(r, s, n, X, e)
  <2>1. InsertsAt(r, s, n, e, at)
    BY <1>3, <1>4 DEF InsertsAt, Within
  <2> QED
    BY <2>1, InsertShape
<1>9. Down(l)
  BY <1>1, <1>2, LineDown
<1>10. Priority[z] \in Int
  BY <1>1, RegistryAssumption
<1>11. ~(Priority[z] >= Priority[r.zone[h]])
  BY DEF Wins
<1> HIDE DEF l, m, c, z
<1>12. Inserted(l, at, z, m)
  <2>1. /\ Len(s.chain[n]) = Len(c) + 1 /\ s.chain[n][at] = e
        /\ \A i \in 1..Len(c) : /\ i < at => s.chain[n][i] = c[i]
                                /\ at <= i => s.chain[n][i + 1] = c[i]
    BY <1>4 DEF Inserted
  <2>2. Len(m) = Len(l) + 1 /\ at \in 1..(Len(l) + 1) /\ at \in 1..Len(s.chain[n])
    BY <1>5, <1>6, <1>7, <2>1
  <2>3. m[at] = z
    BY <1>3, <1>7, <2>1, <2>2 DEF z
  <2>4. ASSUME NEW i \in 1..Len(l) PROVE (i < at => m[i] = l[i]) /\ (at <= i => m[i + 1] = l[i])
    <3>1. i \in 1..Len(c) /\ i \in 1..Len(s.chain[n]) /\ i + 1 \in 1..Len(s.chain[n])
      BY <1>5, <1>6, <2>1
    <3>2. l[i] = r.zone[c[i]] /\ m[i] = s.zone[s.chain[n][i]] /\ m[i + 1] = s.zone[s.chain[n][i + 1]]
      BY <1>6, <1>7, <3>1
    <3> QED
      BY <1>3, <2>1, <3>1, <3>2
  <2> QED
    BY <2>2, <2>3, <2>4 DEF Inserted
<1>13. Placed(l, at, z, m)
  <2>1. ASSUME NEW i \in 1..Len(l), i < at PROVE Priority[l[i]] > Priority[z]
    <3>1. l[i] = r.zone[c[i]] /\ Priority[l[i]] \in Int
      BY <1>6, <1>9 DEF Down
    <3>2. CASE i = 1
      BY <1>5, <1>10, <1>11, <3>1, <3>2
    <3>3. CASE i # 1
      <4>1. i \in 2..Len(c)
        BY <1>5, <1>6, <3>3
      <4> QED
        BY <1>4, <1>10, <2>1, <3>1, <4>1
    <3> QED
      BY <3>2, <3>3
  <2>2. ASSUME NEW i \in 1..Len(l), at <= i PROVE Priority[z] >= Priority[l[i]]
    <3>1. at \in 1..Len(l) /\ at <= Len(c) /\ at \in 1..Len(c)
      BY <1>5, <1>6, <2>2
    <3>2. Priority[l[at]] >= Priority[l[i]] /\ Priority[l[at]] \in Int /\ Priority[l[i]] \in Int
      BY <1>9, <2>2, <3>1 DEF Down
    <3>3. Priority[z] >= Priority[l[at]]
      BY <1>4, <1>6, <3>1
    <3> QED
      BY <1>10, <3>2, <3>3
  <2> QED
    BY <1>12, <2>1, <2>2 DEF Placed
<1>14. Fits(r, s, n, e, zs)
  BY <1>3, <1>13, InsertTakes DEF l, m, z
<1>15. HeadOf(s, n) = h
  <2>1. s.chain[n] # <<>> /\ 1 \in 1..Len(c) /\ 1 < at
    BY <1>5, <1>14 DEF Fits
  <2>2. s.chain[n][1] = c[1]
    BY <1>4, <2>1 DEF Inserted
  <2> QED
    BY <1>5, <2>1, <2>2 DEF HeadOf
<1>16. HeadStays(r, s, n)
  BY <1>3, <1>15 DEF HeadStays
<1>17. \A x \in Of(s, n) : \E y \in Of(r, n) \cup {e} : s.zone[x] = r.zone[y] /\ s.data[x] = r.data[y]
  BY <1>3, <1>8 DEF Grown
<1>18. Took(r, s, n, e)
  <2>1. r.refs \in Int
    BY <1>1 DEF AnyRegistry
  <2>2. s.refs = r.refs + (IF IsCopy(s, n) THEN 1 ELSE 0) - (IF IsCopy(r, n) THEN 1 ELSE 0)
    BY <1>3, <1>14, <2>1 DEF Fits
  <2>3. r.told \subseteq s.told
    BY <1>3
  <2> QED
    BY <1>14, <1>16, <1>17, <2>2, <2>3 DEF Took, Fits
<1> QED
  BY <1>8, <1>14, <1>18 DEF s, Grown, Fits

\* DB_LinkXAssetEntryOverrideAware keeps the chains in order, each entry in one place.
LEMMA ArbitrateTakes ==
    ASSUME NEW r, NEW n \in Names, NEW X, NEW e, NEW zs, Ready(r, n, X, e, zs)
    PROVE  LET s == Arbitrate(r, n, e)
           IN  /\ Shape(r, s, n, X, {e}) /\ Took(r, s, n, e)
               /\ Ordered(Line(s, n), zs) /\ EndStays(r, s, n, e)
<1>1. CASE Unlinked(r, n)
  <2>1. Arbitrate(r, n, e) = [r EXCEPT !.chain[n] = <<e>>]
    BY <1>1 DEF Arbitrate, Unlinked
  <2> QED
    BY <1>1, <2>1, TakesEmpty
<1>2. CASE ~Unlinked(r, n) /\ IsCopy(r, n)
  <2>1. Arbitrate(r, n, e) = ReplaceDefault(r, n, e)
    BY <1>2 DEF Arbitrate, Unlinked, IsCopy
  <2> QED
    BY <1>2, <2>1, TakesDefault
<1>3. CASE ~Unlinked(r, n) /\ ~IsCopy(r, n) /\ Wins(r, n, e)
  <2>1. Arbitrate(r, n, e) = ReplaceHead(r, n, e)
    BY <1>3 DEF Arbitrate, Unlinked, IsCopy
  <2> QED
    BY <1>3, <2>1, TakesHead
<1>4. CASE ~Unlinked(r, n) /\ ~IsCopy(r, n) /\ ~Wins(r, n, e)
  <2>1. Arbitrate(r, n, e) = InsertOverride(r, n, e)
    BY <1>4 DEF Arbitrate, Unlinked, IsCopy
  <2> QED
    BY <1>4, <2>1, TakesOverride
<1> QED
  BY <1>1, <1>2, <1>3, <1>4

\* Arbitration leaves a registry.
LEMMA ArbitrateType ==
    ASSUME NEW r \in AnyRegistry, NEW n \in Names, NEW e \in Entries
    PROVE  Arbitrate(r, n, e) \in AnyRegistry
<1>1. CASE Unlinked(r, n)
  <2>1. Arbitrate(r, n, e) = [r EXCEPT !.chain[n] = <<e>>]
    BY <1>1 DEF Arbitrate, Unlinked
  <2> DEFINE chain == [r.chain EXCEPT ![n] = <<e>>]
  <2>2. <<e>> \in Seq(Entries)
    OBVIOUS
  <2>3. chain \in [Names -> Seq(Entries)]
    <3> DEFINE u == <<e>>
    <3> HIDE DEF u
    <3>1. [r.chain EXCEPT ![n] = u] \in [Names -> Seq(Entries)]
      BY <2>2 DEF AnyRegistry, u
    <3> QED
      BY <3>1 DEF u
  <2>4. [r EXCEPT !.chain[n] = <<e>>] = [r EXCEPT !.chain = chain]
    OBVIOUS
  <2> HIDE DEF chain
  <2> QED
    BY <2>1, <2>3, <2>4, ZenonT(60) DEF AnyRegistry
<1>2. CASE ~Unlinked(r, n) /\ IsCopy(r, n)
  <2>1. Arbitrate(r, n, e) = ReplaceDefault(r, n, e) /\ r.chain[n] # <<>>
    BY <1>2 DEF Arbitrate, Unlinked, IsCopy
  <2> QED
    BY <2>1, ReplaceDefaultType
<1>3. CASE ~Unlinked(r, n) /\ ~IsCopy(r, n) /\ Wins(r, n, e)
  <2>1. Arbitrate(r, n, e) = ReplaceHead(r, n, e)
    BY <1>3 DEF Arbitrate, Unlinked, IsCopy
  <2>2. ReplaceHead(r, n, e) \in AnyRegistry
    BY <1>3, ReplaceHeadIs
  <2> QED
    BY <2>1, <2>2
<1>4. CASE ~Unlinked(r, n) /\ ~IsCopy(r, n) /\ ~Wins(r, n, e)
  <2>1. Arbitrate(r, n, e) = InsertOverride(r, n, e)
    BY <1>4 DEF Arbitrate, Unlinked, IsCopy
  <2> QED
    BY <1>4, <2>1, InsertOverrideIs
<1> QED
  BY <1>1, <1>2, <1>3, <1>4

-----------------------------------------------------------------------------
(* Unloading a zone from one chain *)

\* What unloading needs to know of chain n.
Whole(r, n, X, zs) ==
    /\ r \in AnyRegistry /\ X \subseteq Entries /\ Apart(r, X)
    /\ zs \in Seq(Zones) /\ Once(zs) /\ Ordered(Line(r, n), zs)

\* The registry once the holder of the head has been told, if copies stand in.
Heard(r, u, n, copy) ==
    /\ u \in AnyRegistry
    /\ u.chain = r.chain /\ u.zone = r.zone /\ u.data = r.data /\ u.inuse = r.inuse
    /\ u.free = r.free /\ u.lost = r.lost /\ u.refs = r.refs
    /\ r.told \subseteq u.told
    /\ copy /\ HeadOf(r, n) \in r.inuse => HeadOf(r, n) \in u.told

\* An entry holds what one of the chain held, or what the default holds for it.
Carries(r, s, n, x) ==
    \/ \E y \in Of(r, n) : s.zone[x] = r.zone[y] /\ s.data[x] = r.data[y]
    \/ /\ FindDefaultAsset(r) # NoEntry
       /\ s.zone[x] = 0 /\ s.data[x] = r.data[FindDefaultAsset(r)]

\* What unloading z does to chain n.
Rid(r, s, n, z, copy) ==
    /\ Zoned(s, n) \ {0} = Zoned(r, n) \ {0, z}
    /\ \A x \in Of(s, n) : Carries(r, s, n, x)
    /\ s.refs = r.refs + (IF IsCopy(s, n) THEN 1 ELSE 0) - (IF IsCopy(r, n) THEN 1 ELSE 0)
    /\ r.told \subseteq s.told
    /\ s.chain[n] # <<>> => r.chain[n] # <<>> /\ (copy => HeadStays(r, s, n))
    /\ s.chain[n] # <<>> /\ LastZone(r, n) # z => LastZone(s, n) = LastZone(r, n)

\* A chain about to be purged of a zone.
LEMMA WholeBasics ==
    ASSUME NEW r, NEW n \in Names, NEW X, NEW zs, Whole(r, n, X, zs)
    PROVE  /\ r \in AnyRegistry /\ r.chain[n] \in Seq(Entries) /\ Len(r.chain[n]) \in Nat
           /\ Once(r.chain[n]) /\ Of(r, n) = Elems(r.chain[n])
           /\ (r.chain[n] = <<>>) = (Len(r.chain[n]) = 0)
           /\ Line(r, n) \in Seq(Zones \cup {0}) /\ Len(Line(r, n)) = Len(r.chain[n])
           /\ \A i \in 1..Len(r.chain[n]) : Line(r, n)[i] = r.zone[r.chain[n][i]]
           /\ Zoned(r, n) = Elems(Line(r, n))
           /\ Once(Line(r, n)) /\ Ordered(Line(r, n), zs)
           /\ r.chain[n] # <<>> => /\ HeadOf(r, n) \in Entries /\ HeadOf(r, n) = r.chain[n][1]
                                   /\ r.zone[HeadOf(r, n)] = Line(r, n)[1]
                                   /\ 1 \in 1..Len(r.chain[n])
<1> DEFINE l == Line(r, n)
<1>1. r \in AnyRegistry /\ Apart(r, X) /\ zs \in Seq(Zones) /\ Once(zs) /\ Ordered(l, zs)
  BY DEF Whole
<1>2. /\ r.chain[n] \in Seq(Entries) /\ Len(r.chain[n]) \in Nat /\ Of(r, n) = Elems(r.chain[n])
      /\ (r.chain[n] = <<>>) = (Len(r.chain[n]) = 0)
      /\ r.chain[n] # <<>> => r.chain[n][1] \in Of(r, n) /\ HeadOf(r, n) = r.chain[n][1]
      /\ Of(r, n) \subseteq Entries
  BY <1>1, OfBasics DEF Of
<1>3. /\ l \in Seq(Zones \cup {0}) /\ Len(l) = Len(r.chain[n])
      /\ \A i \in 1..Len(r.chain[n]) : l[i] = r.zone[r.chain[n][i]]
      /\ Zoned(r, n) = Elems(l)
  BY <1>1, LineBasics
<1>4. ASSUME NEW i \in 1..Len(l), NEW j \in 1..Len(l), i < j PROVE l[i] # l[j]
  <2>1. Precedes(zs, l[i], l[j]) /\ l[i] # 0
    BY <1>1, <1>4 DEF Ordered
  <2>2. l[i] \in Zones
    <3>1. l[i] \in Zones \cup {0}
      BY <1>3
    <3> QED
      BY <2>1, <3>1
  <2>3. Priority[l[i]] \in Int
    BY <2>2, RegistryAssumption
  <2>4. ~Later(zs, l[i], l[i])
    BY <1>1, LaterOnce
  <2> QED
    BY <2>1, <2>3, <2>4 DEF Precedes
<1>5. Once(l)
  <2>1. Len(l) \in Nat
    BY <1>2, <1>3
  <2> HIDE DEF l
  <2>2. ASSUME NEW i \in 1..Len(l), NEW j \in 1..Len(l), l[i] = l[j] PROVE i = j
    BY <1>4, <2>1, <2>2
  <2> QED
    BY <2>2 DEF Once
<1>6. ASSUME r.chain[n] # <<>>
      PROVE  1 \in 1..Len(r.chain[n])
  BY <1>2, <1>6
<1>7. Once(r.chain[n])
  BY <1>1 DEF Apart
<1> QED
  BY <1>1, <1>2, <1>3, <1>5, <1>6, <1>7

\* Telling the users of an entry moves nothing.
LEMMA HeardWhole ==
    ASSUME NEW r, NEW u, NEW n \in Names, NEW copy, Heard(r, u, n, copy), NEW X
    PROVE  /\ Of(u, n) = Of(r, n) /\ HeadOf(u, n) = HeadOf(r, n)
           /\ FindDefaultAsset(u) = FindDefaultAsset(r)
<1> QED
  BY DEF Heard, Of, HeadOf, FindDefaultAsset

\* The entries that DropOverrides takes out.
Gone(r, n, z) ==
    {r.chain[n][i] : i \in {j \in 2..Len(r.chain[n]) : r.zone[r.chain[n][j]] = z}}

\* What taking the overrides of a zone out of a chain changes.
LEMMA DropIs ==
    ASSUME NEW r \in AnyRegistry, NEW n \in Names, NEW z
    PROVE  LET s == DropOverrides(r, n, z)
           IN  /\ s \in AnyRegistry /\ Gone(r, n, z) \in SUBSET Entries
               /\ \A m \in Names \ {n} : s.chain[m] = r.chain[m]
               /\ Sifted(r.chain[n], Gone(r, n, z), s.chain[n])
               /\ s.inuse = r.inuse \ Gone(r, n, z) /\ s.free = r.free \cup Gone(r, n, z)
               /\ s.lost = r.lost /\ s.refs = r.refs /\ s.told = r.told
               /\ \A x \in Entries \ Gone(r, n, z) : s.zone[x] = r.zone[x] /\ s.data[x] = r.data[x]
<1> DEFINE s == DropOverrides(r, n, z)
           S == Gone(r, n, z)
           c == r.chain[n]
           d == Without(c, S)
           chain == [r.chain EXCEPT ![n] = d]
           t == [r EXCEPT !.chain[n] = d]
<1>1. c \in Seq(Entries) /\ Len(c) \in Nat
  BY OfBasics
<1>2. S \in SUBSET Entries
  <2>1. \A i \in 2..Len(c) : c[i] \in Entries
    BY <1>1
  <2> QED
    BY <2>1 DEF Gone
<1>3. s = ReleaseAll(t, S)
  BY DEF DropOverrides, Gone
<1> HIDE DEF S, c
<1>4. d \in Seq(Entries) /\ Sifted(c, S, d)
  BY <1>1, WithoutSifts
<1> HIDE DEF d
<1>5. chain \in [Names -> Seq(Entries)] /\ chain[n] = d /\ \A m \in Names \ {n} : chain[m] = r.chain[m]
  BY <1>4 DEF AnyRegistry
<1>6. t = [r EXCEPT !.chain = chain]
  OBVIOUS
<1> HIDE DEF t, chain
<1>7. /\ t \in AnyRegistry /\ t.chain = chain
      /\ t.zone = r.zone /\ t.data = r.data /\ t.inuse = r.inuse /\ t.free = r.free
      /\ t.lost = r.lost /\ t.refs = r.refs /\ t.told = r.told
  BY <1>5, <1>6 DEF AnyRegistry
<1>8. S \subseteq Entries
  BY <1>2
<1>9. /\ ReleaseAll(t, S) \in AnyRegistry
      /\ ReleaseAll(t, S).chain = t.chain /\ ReleaseAll(t, S).refs = t.refs
      /\ ReleaseAll(t, S).inuse = t.inuse \ S /\ ReleaseAll(t, S).free = t.free \cup S
      /\ ReleaseAll(t, S).lost = t.lost /\ ReleaseAll(t, S).told = t.told
      /\ \A x \in Entries \ S : /\ ReleaseAll(t, S).zone[x] = t.zone[x]
                                /\ ReleaseAll(t, S).data[x] = t.data[x]
  BY <1>7, <1>8, ReleaseIs
<1> HIDE DEF s
<1> QED
  BY <1>2, <1>3, <1>4, <1>5, <1>7, <1>9 DEF s, S, c

\* A chain with some entries left out: in order, with the end it had if that is kept.
LEMMA RisingEnds ==
    ASSUME NEW f, NEW k \in Nat, NEW m \in Nat, Rising(f, k, m)
    PROVE  /\ (\E i \in 1..k : f[i] = 1) => k # 0 /\ f[1] = 1
           /\ (\E i \in 1..k : f[i] = m) => k # 0 /\ f[k] = m
<1>1. /\ \A i \in 1..k : f[i] \in 1..m
      /\ \A i, j \in 1..k : i < j => f[i] < f[j]
  BY DEF Rising
<1>2. ASSUME NEW i \in 1..k, f[i] = 1 PROVE k # 0 /\ f[1] = 1
  <2>1. 1 \in 1..k /\ f[1] \in 1..m
    BY <1>1
  <2>2. CASE i = 1
    BY <1>2, <2>1, <2>2
  <2>3. CASE i # 1
    <3>1. f[1] < f[i]
      BY <1>1, <2>1, <2>3
    <3> QED
      BY <1>2, <2>1, <3>1
  <2> QED
    BY <2>2, <2>3
<1>3. ASSUME NEW i \in 1..k, f[i] = m PROVE k # 0 /\ f[k] = m
  <2>1. k \in 1..k /\ f[k] \in 1..m
    BY <1>1
  <2>2. CASE i = k
    BY <1>3, <2>1, <2>2
  <2>3. CASE i # k
    <3>1. f[i] < f[k]
      BY <1>1, <2>1, <2>3
    <3> QED
      BY <1>3, <2>1, <3>1
  <2> QED
    BY <2>2, <2>3
<1> QED
  BY <1>2, <1>3

\* Unloading: the zone has overrides only.
LEMMA DropRids ==
    ASSUME NEW r, NEW n \in Names, NEW X, NEW zs, Whole(r, n, X, zs), NEW z \in Zones,
           ~Unlinked(r, n), r.zone[HeadOf(r, n)] # z, NEW copy \in BOOLEAN
    PROVE  LET s == DropOverrides(r, n, z)
           IN  Shape(r, s, n, X, {}) /\ Rid(r, s, n, z, copy) /\ Ordered(Line(s, n), zs)
<1> DEFINE s == DropOverrides(r, n, z)
           S == Gone(r, n, z)
           c == r.chain[n]
           d == s.chain[n]
           l == Line(r, n)
           m == Line(s, n)
           h == HeadOf(r, n)
<1>1. /\ r \in AnyRegistry /\ c \in Seq(Entries) /\ Len(c) \in Nat
      /\ Once(c) /\ Of(r, n) = Elems(c)
      /\ l \in Seq(Zones \cup {0}) /\ Len(l) = Len(c)
      /\ (\A i \in 1..Len(c) : l[i] = r.zone[c[i]])
      /\ Zoned(r, n) = Elems(l)
      /\ Once(l) /\ Ordered(l, zs)
      /\ h \in Entries /\ h = c[1] /\ r.zone[h] = l[1] /\ 1 \in 1..Len(c) /\ c # <<>>
  BY WholeBasics DEF Unlinked
<1>2. /\ s \in AnyRegistry /\ S \in SUBSET Entries
      /\ \A k \in Names \ {n} : s.chain[k] = r.chain[k]
      /\ Sifted(c, S, d)
      /\ s.inuse = r.inuse \ S /\ s.free = r.free \cup S
      /\ s.lost = r.lost /\ s.refs = r.refs /\ s.told = r.told
      /\ \A x \in Entries \ S : s.zone[x] = r.zone[x] /\ s.data[x] = r.data[x]
  BY <1>1, DropIs
<1>3. z # 0
  BY RegistryAssumption
<1>4. \A i \in 1..Len(c) : c[i] \in S <=> l[i] = z
  <2> TAKE i \in 1..Len(c)
  <2>1. ASSUME c[i] \in S PROVE l[i] = z
    <3>1. PICK j \in 2..Len(c) : r.zone[c[j]] = z /\ c[i] = c[j]
      BY <2>1 DEF Gone
    <3> QED
      BY <1>1, <3>1
  <2>2. ASSUME l[i] = z PROVE c[i] \in S
    <3>1. i # 1
      BY <1>1, <2>2
    <3>2. i \in 2..Len(c)
      BY <3>1
    <3> QED
      BY <1>1, <2>2, <3>2 DEF Gone
  <2> QED
    BY <2>1, <2>2
<1> HIDE DEF s, S, c, d, l, m, h
<1>5. PICK f : /\ Rising(f, Len(d), Len(c))
               /\ \A i \in 1..Len(d) : d[i] = c[f[i]] /\ c[f[i]] \notin S
               /\ \A j \in 1..Len(c) : c[j] \notin S => \E i \in 1..Len(d) : f[i] = j
  BY <1>2 DEF Sifted, SiftedTo
<1>6. /\ d \in Seq(Entries) /\ Len(d) \in Nat /\ Of(s, n) = Elems(d) /\ (d = <<>>) = (Len(d) = 0)
      /\ m \in Seq(Zones \cup {0}) /\ Len(m) = Len(d)
      /\ (\A i \in 1..Len(d) : m[i] = s.zone[d[i]])
      /\ Zoned(s, n) = Elems(m)
      /\ d # <<>> => HeadOf(s, n) = d[1]
  BY <1>2, OfBasics, LineBasics DEF Of, d, m
<1>7. \A i \in 1..Len(d) : f[i] \in 1..Len(c)
  BY <1>5 DEF Rising
<1>8. \A i \in 1..Len(d) : m[i] = l[f[i]]
  <2> TAKE i \in 1..Len(d)
  <2>1. c[f[i]] \in Entries /\ f[i] \in 1..Len(c) /\ d[i] = c[f[i]] /\ c[f[i]] \notin S
    BY <1>1, <1>5, <1>7
  <2>2. s.zone[c[f[i]]] = r.zone[c[f[i]]]
    BY <1>2, <2>1
  <2> QED
    BY <1>1, <1>6, <2>1, <2>2
<1>9. Ordered(m, zs)
  <2>1. Rising(f, Len(m), Len(l))
    BY <1>1, <1>5, <1>6
  <2>2. \A i \in 1..Len(m) : m[i] = l[f[i]]
    BY <1>6, <1>8
  <2> QED
    BY <1>1, <2>1, <2>2, PickedOrdered
<1>10. d # <<>> /\ d[1] = c[1]
  <2>1. c[1] \notin S
    BY <1>1, <1>4, <1>3 DEF h
  <2>2. \E i \in 1..Len(d) : f[i] = 1
    BY <1>1, <1>5, <2>1
  <2>3. Len(d) # 0 /\ f[1] = 1
    BY <1>1, <1>5, <1>6, <2>2, RisingEnds
  <2>4. 1 \in 1..Len(d)
    BY <1>6, <2>3
  <2> QED
    BY <1>5, <1>6, <2>3, <2>4
<1>11. Of(s, n) = Of(r, n) \ S
  <2>1. \A x \in Elems(d) : x \in Elems(c) /\ x \notin S
    BY <1>5, <1>7 DEF Elems
  <2>2. \A x \in Elems(c) : x \notin S => x \in Elems(d)
    BY <1>5 DEF Elems
  <2> QED
    BY <1>1, <1>6, <2>1, <2>2
<1>12. S \subseteq Of(r, n)
  <2>1. \A j \in 2..Len(c) : j \in 1..Len(c)
    OBVIOUS
  <2>2. \A j \in 2..Len(c) : c[j] \in Elems(c)
    BY <2>1 DEF Elems
  <2> QED
    BY <1>1, <2>2 DEF S, Gone, c
<1>13. Once(d)
  <2>1. ASSUME NEW i \in 1..Len(d), NEW j \in 1..Len(d), d[i] = d[j] PROVE i = j
    <3>1. f[i] = f[j]
      BY <1>1, <1>5, <1>7, <2>1 DEF Once
    <3> QED
      BY <1>1, <1>5, <1>6, <3>1, RisingOnce
  <2> QED
    BY <2>1 DEF Once
<1>14. Shape(r, s, n, X, {})
  <2>1. Within(r, s, n, {})
    BY <1>2, <1>12 DEF Within
  <2>2. s.free = r.free \cup ((Of(r, n) \cup {}) \ Of(s, n))
    BY <1>2, <1>11, <1>12
  <2>3. X \subseteq Entries /\ Apart(r, X)
    BY DEF Whole
  <2> QED
    BY <1>1, <1>2, <1>11, <1>13, <2>1, <2>2, <2>3 DEF Shape, d
<1>15. Zoned(s, n) = Zoned(r, n) \ {z}
  <2>1. ASSUME NEW i \in 1..Len(m) PROVE m[i] \in Elems(l) /\ m[i] # z
    BY <1>1, <1>4, <1>5, <1>6, <1>7, <1>8, <2>1 DEF Elems
  <2>2. ASSUME NEW j \in 1..Len(l), l[j] # z PROVE l[j] \in Elems(m)
    <3>1. PICK i \in 1..Len(d) : f[i] = j
      BY <1>1, <1>4, <1>5, <2>2
    <3> QED
      BY <1>6, <1>8, <3>1 DEF Elems
  <2>3. \A x \in Elems(m) : x \in Elems(l) /\ x # z
    BY <2>1 DEF Elems
  <2>4. \A x \in Elems(l) : x # z => x \in Elems(m)
    BY <2>2 DEF Elems
  <2> QED
    BY <1>1, <1>6, <2>3, <2>4
<1>16. \A x \in Of(s, n) : Carries(r, s, n, x)
  <2>1. Of(r, n) \subseteq Entries
    BY <1>1, OfBasics
  <2>2. \A x \in Of(s, n) : x \in Of(r, n) /\ s.zone[x] = r.zone[x] /\ s.data[x] = r.data[x]
    BY <1>2, <1>11, <2>1
  <2> QED
    BY <2>2 DEF Carries
<1>17. HeadOf(s, n) = h /\ h \notin S /\ s.zone[h] = r.zone[h] /\ s.data[h] = r.data[h]
  BY <1>1, <1>2, <1>4, <1>6, <1>10 DEF h
<1>18. HeadStays(r, s, n)
  BY <1>2, <1>17 DEF HeadStays, h
<1>19. IsCopy(s, n) = IsCopy(r, n)
  BY <1>1, <1>10, <1>17 DEF IsCopy, h, c, d
<1>20. s.refs = r.refs + (IF IsCopy(s, n) THEN 1 ELSE 0) - (IF IsCopy(r, n) THEN 1 ELSE 0)
  <2>1. r.refs \in Int
    BY <1>1 DEF AnyRegistry
  <2> QED
    BY <1>2, <1>19, <2>1
<1>21. ASSUME LastZone(r, n) # z PROVE LastZone(s, n) = LastZone(r, n)
  <2>1. Len(c) \in 1..Len(c) /\ l[Len(c)] # z
    BY <1>1, <1>21 DEF LastZone, l
  <2>2. \E i \in 1..Len(d) : f[i] = Len(c)
    BY <1>4, <1>5, <2>1
  <2>3. Len(d) # 0 /\ f[Len(d)] = Len(c)
    BY <1>1, <1>5, <1>6, <2>2, RisingEnds
  <2>4. Len(d) \in 1..Len(d)
    BY <1>6, <2>3
  <2>5. m[Len(m)] = l[Len(l)]
    BY <1>1, <1>6, <1>8, <2>3, <2>4
  <2> QED
    BY <2>5 DEF LastZone, l, m
<1>22. Rid(r, s, n, z, copy)
  <2>1. Zoned(s, n) \ {0} = Zoned(r, n) \ {0, z}
    BY <1>15
  <2>2. r.told \subseteq s.told
    BY <1>2
  <2> QED
    BY <1>1, <1>16, <1>18, <1>20, <1>21, <2>1, <2>2 DEF Rid, c
<1> QED
  BY <1>9, <1>14, <1>22 DEF s, m

\* What DB_PromoteOverride changes.
LEMMA PromoteIs ==
    ASSUME NEW r \in AnyRegistry, NEW n \in Names, Len(r.chain[n]) > 1
    PROVE  LET s == PromoteOverride(r, n)
               c == r.chain[n]
           IN  /\ s \in AnyRegistry /\ c[1] \in Entries /\ c[2] \in Entries
               /\ \A m \in Names \ {n} : s.chain[m] = r.chain[m]
               /\ Len(s.chain[n]) = Len(c) - 1 /\ s.chain[n][1] = c[1]
               /\ \A i \in 2..(Len(c) - 1) : s.chain[n][i] = c[i + 1]
               /\ s.inuse = r.inuse \ {c[2]} /\ s.free = r.free \cup {c[2]}
               /\ s.lost = r.lost /\ s.refs = r.refs /\ s.told = r.told
               /\ \A x \in Entries \ {c[1], c[2]} : s.zone[x] = r.zone[x] /\ s.data[x] = r.data[x]
               /\ c[1] # c[2] => s.zone[c[1]] = r.zone[c[2]] /\ s.data[c[1]] = r.data[c[2]]
<1> DEFINE s == PromoteOverride(r, n)
           c == r.chain[n]
           d == <<c[1]>> \o Tail(Tail(c))
           chain == [r.chain EXCEPT ![n] = d]
           zone == [r.zone EXCEPT ![c[1]] = r.zone[c[2]]]
           data == [r.data EXCEPT ![c[1]] = r.data[c[2]]]
           t == [r EXCEPT !.chain[n] = d, !.zone[c[1]] = r.zone[c[2]], !.data[c[1]] = r.data[c[2]]]
           S == {c[2]}
<1>1. c \in Seq(Entries) /\ Len(c) \in Nat
  BY OfBasics
<1>2. c[1] \in Entries /\ c[2] \in Entries
  <2>1. 1 \in 1..Len(c) /\ 2 \in 1..Len(c)
    BY <1>1
  <2> HIDE DEF c
  <2> QED
    BY <1>1, <2>1
<1>3. s = ReleaseAll(t, S)
  BY DEF PromoteOverride, Release
<1>4. /\ d \in Seq(Entries) /\ Len(d) = Len(c) - 1 /\ d[1] = c[1]
      /\ \A i \in 2..(Len(c) - 1) : d[i] = c[i + 1]
  <2>1. Len(c) > 1
    OBVIOUS
  <2> HIDE DEF c
  <2> QED
    BY <1>1, <2>1, CutSecond
<1> HIDE DEF c, d
<1>5. /\ chain \in [Names -> Seq(Entries)] /\ chain[n] = d
      /\ \A m \in Names \ {n} : chain[m] = r.chain[m]
  BY <1>4 DEF AnyRegistry
<1>6. /\ zone \in [Entries -> Zones \cup {0}] /\ data \in [Entries -> Zones \cup {0}]
      /\ zone[c[1]] = r.zone[c[2]] /\ data[c[1]] = r.data[c[2]]
      /\ \A x \in Entries \ {c[1]} : zone[x] = r.zone[x] /\ data[x] = r.data[x]
  BY <1>2 DEF AnyRegistry
<1>7. t = [r EXCEPT !.chain = chain, !.zone = zone, !.data = data]
  OBVIOUS
<1> HIDE DEF t, chain, zone, data
<1>8. /\ t \in AnyRegistry /\ t.chain = chain
      /\ t.zone = zone /\ t.data = data /\ t.inuse = r.inuse /\ t.free = r.free
      /\ t.lost = r.lost /\ t.refs = r.refs /\ t.told = r.told
  BY <1>5, <1>6, <1>7 DEF AnyRegistry
<1>9. S \subseteq Entries
  BY <1>2
<1>10. /\ ReleaseAll(t, S) \in AnyRegistry
      /\ ReleaseAll(t, S).chain = t.chain /\ ReleaseAll(t, S).refs = t.refs
      /\ ReleaseAll(t, S).inuse = t.inuse \ S /\ ReleaseAll(t, S).free = t.free \cup S
      /\ ReleaseAll(t, S).lost = t.lost /\ ReleaseAll(t, S).told = t.told
      /\ \A x \in Entries \ S : /\ ReleaseAll(t, S).zone[x] = t.zone[x]
                                /\ ReleaseAll(t, S).data[x] = t.data[x]
  <2> HIDE DEF S
  <2> QED
    BY <1>8, <1>9, ReleaseIs
<1> HIDE DEF s
<1>11. /\ \A x \in Entries \ {c[1], c[2]} : s.zone[x] = r.zone[x] /\ s.data[x] = r.data[x]
       /\ c[1] # c[2] => s.zone[c[1]] = r.zone[c[2]] /\ s.data[c[1]] = r.data[c[2]]
  BY <1>2, <1>3, <1>6, <1>8, <1>10, ZenonT(60)
<1>12. /\ s.chain[n] = d /\ \A m \in Names \ {n} : s.chain[m] = r.chain[m]
       /\ s.inuse = r.inuse \ {c[2]} /\ s.free = r.free \cup {c[2]}
       /\ s.lost = r.lost /\ s.refs = r.refs /\ s.told = r.told /\ s \in AnyRegistry
  BY <1>3, <1>5, <1>8, <1>10
<1>13. /\ Len(s.chain[n]) = Len(c) - 1 /\ s.chain[n][1] = c[1]
       /\ \A i \in 2..(Len(c) - 1) : s.chain[n][i] = c[i + 1]
  BY <1>4, <1>12
<1> HIDE DEF S
<1> QED
  BY <1>2, <1>11, <1>12, <1>13 DEF s, c

\* Unloading: the zone has the head, and there is an override.
LEMMA PromoteRids ==
    ASSUME NEW r, NEW n \in Names, NEW X, NEW zs, Whole(r, n, X, zs), NEW z \in Zones,
           NEW copy \in BOOLEAN, NEW u, Heard(r, u, n, copy),
           Len(r.chain[n]) > 1, r.zone[HeadOf(r, n)] = z
    PROVE  LET s == PromoteOverride(u, n)
           IN  Shape(r, s, n, X, {}) /\ Rid(r, s, n, z, copy) /\ Ordered(Line(s, n), zs)
<1> DEFINE s == PromoteOverride(u, n)
           c == r.chain[n]
           d == s.chain[n]
           l == Line(r, n)
           m == Line(s, n)
           h == HeadOf(r, n)
           f == [i \in 1..(Len(c) - 1) |-> i + 1]
<1>0. /\ u \in AnyRegistry /\ u.chain = r.chain /\ u.zone = r.zone /\ u.data = r.data
      /\ u.inuse = r.inuse /\ u.free = r.free /\ u.lost = r.lost /\ u.refs = r.refs
      /\ r.told \subseteq u.told
      /\ copy /\ h \in r.inuse => h \in u.told
  BY DEF Heard
<1>1. /\ r \in AnyRegistry /\ c \in Seq(Entries) /\ Len(c) \in Nat
      /\ Once(c) /\ Of(r, n) = Elems(c) /\ (c = <<>>) = (Len(c) = 0)
      /\ l \in Seq(Zones \cup {0}) /\ Len(l) = Len(c)
      /\ (\A i \in 1..Len(c) : l[i] = r.zone[c[i]])
      /\ Zoned(r, n) = Elems(l)
      /\ Once(l) /\ Ordered(l, zs)
      /\ c # <<>> => /\ h \in Entries /\ h = c[1] /\ r.zone[h] = l[1] /\ 1 \in 1..Len(c)
  BY WholeBasics
<1>2. Len(c) > 1
  OBVIOUS
<1>3. /\ s \in AnyRegistry /\ c[1] \in Entries /\ c[2] \in Entries
      /\ \A k \in Names \ {n} : s.chain[k] = r.chain[k]
      /\ Len(d) = Len(c) - 1 /\ d[1] = c[1]
      /\ \A i \in 2..(Len(c) - 1) : d[i] = c[i + 1]
      /\ s.inuse = r.inuse \ {c[2]} /\ s.free = r.free \cup {c[2]}
      /\ s.lost = r.lost /\ s.refs = r.refs /\ s.told = u.told
      /\ \A x \in Entries \ {c[1], c[2]} : s.zone[x] = r.zone[x] /\ s.data[x] = r.data[x]
      /\ c[1] # c[2] => s.zone[c[1]] = r.zone[c[2]] /\ s.data[c[1]] = r.data[c[2]]
  <2>1. Len(u.chain[n]) > 1
    BY <1>0, <1>2
  <2>2. LET c1 == u.chain[n] IN
        /\ s \in AnyRegistry /\ c1[1] \in Entries /\ c1[2] \in Entries
        /\ \A k \in Names \ {n} : s.chain[k] = u.chain[k]
        /\ Len(d) = Len(c1) - 1 /\ d[1] = c1[1]
        /\ \A i \in 2..(Len(c1) - 1) : d[i] = c1[i + 1]
        /\ s.inuse = u.inuse \ {c1[2]} /\ s.free = u.free \cup {c1[2]}
        /\ s.lost = u.lost /\ s.refs = u.refs /\ s.told = u.told
        /\ \A x \in Entries \ {c1[1], c1[2]} : s.zone[x] = u.zone[x] /\ s.data[x] = u.data[x]
        /\ c1[1] # c1[2] => s.zone[c1[1]] = u.zone[c1[2]] /\ s.data[c1[1]] = u.data[c1[2]]
    BY <1>0, <2>1, PromoteIs
  <2> HIDE DEF s
  <2> QED
    BY <1>0, <2>2
<1>4. /\ 1 \in 1..Len(c) /\ 2 \in 1..Len(c) /\ c[1] # c[2] /\ c # <<>>
      /\ h = c[1] /\ h \in Entries /\ l[1] = z /\ z # 0
  <2>1. 1 \in 1..Len(c) /\ 2 \in 1..Len(c) /\ 1 # 2 /\ Len(c) # 0
    BY <1>1, <1>2
  <2>2. c[1] # c[2]
    BY <1>1, <2>1 DEF Once
  <2>3. z # 0
    BY RegistryAssumption
  <2>4. r.zone[h] = z
    OBVIOUS
  <2> HIDE DEF h, c, l
  <2> QED
    BY <1>1, <2>1, <2>2, <2>3, <2>4
<1> HIDE DEF s, c, d, l, m, h
<1>5. /\ d \in Seq(Entries) /\ Len(d) \in Nat /\ Of(s, n) = Elems(d) /\ (d = <<>>) = (Len(d) = 0)
      /\ m \in Seq(Zones \cup {0}) /\ Len(m) = Len(d)
      /\ (\A i \in 1..Len(d) : m[i] = s.zone[d[i]])
      /\ Zoned(s, n) = Elems(m)
      /\ d # <<>> => HeadOf(s, n) = d[1]
  <2>1. s \in AnyRegistry
    BY <1>3
  <2> HIDE DEF f
  <2> QED
    BY <2>1, OfBasics, LineBasics DEF Of, d, m
<1>6. Rising(f, Len(m), Len(l))
  <2>1. f \in [1..(Len(c) - 1) -> 1..Len(c)]
    BY <1>1
  <2>2. \A i, j \in 1..(Len(c) - 1) : i < j => f[i] < f[j]
    BY <1>1
  <2> HIDE DEF f
  <2> QED
    BY <1>1, <1>3, <1>5, <2>1, <2>2 DEF Rising
<1>7. \A i \in 1..Len(d) : /\ f[i] = i + 1 /\ i + 1 \in 2..Len(c) /\ i + 1 \in 1..Len(c)
                           /\ d[i] = IF i = 1 THEN c[1] ELSE c[i + 1]
  BY <1>1, <1>3
<1>8. ASSUME NEW i \in 1..Len(d) PROVE m[i] = l[i + 1] /\ s.data[d[i]] = r.data[c[i + 1]]
  <2>0. f[i] = i + 1 /\ i + 1 \in 2..Len(c) /\ i + 1 \in 1..Len(c) /\ d[i] = IF i = 1 THEN c[1] ELSE c[i + 1]
    BY <1>7
  <2> HIDE DEF f
  <2>1. CASE i = 1
    <3>1. d[i] = c[1] /\ i + 1 = 2
      BY <2>0, <2>1
    <3> QED
      BY <1>1, <1>3, <1>4, <1>5, <3>1
  <2>2. CASE i # 1
    <3>1. d[i] = c[i + 1] /\ i + 1 \in 1..Len(c) /\ c[i + 1] \in Entries
      BY <1>1, <2>0, <2>2
    <3>2. c[i + 1] # c[1] /\ c[i + 1] # c[2]
      <4>1. i + 1 # 1 /\ i + 1 # 2
        BY <2>2
      <4> QED
        BY <1>1, <1>4, <3>1, <4>1 DEF Once
    <3>3. s.zone[c[i + 1]] = r.zone[c[i + 1]] /\ s.data[c[i + 1]] = r.data[c[i + 1]]
      BY <1>3, <3>1, <3>2
    <3> QED
      BY <1>1, <1>5, <3>1, <3>3
  <2> QED
    BY <2>1, <2>2
<1>9. Ordered(m, zs)
  <2>1. \A i \in 1..Len(m) : m[i] = l[f[i]]
    BY <1>5, <1>7, <1>8
  <2> HIDE DEF f
  <2> QED
    BY <1>1, <1>6, <2>1, PickedOrdered
<1> HIDE DEF f
<1>10. \A j \in 1..Len(c) : j # 1 => j - 1 \in 1..Len(d) /\ (j - 1) + 1 = j
  BY <1>1, <1>3
<1>11. Of(s, n) = Of(r, n) \ {c[2]}
  <2>1. ASSUME NEW i \in 1..Len(d) PROVE d[i] \in Elems(c) /\ d[i] # c[2]
    <3>1. CASE i = 1
      BY <1>4, <1>7, <3>1 DEF Elems
    <3>2. CASE i # 1
      <4>1. d[i] = c[i + 1] /\ i + 1 \in 1..Len(c) /\ i + 1 # 2
        BY <1>7, <3>2
      <4> QED
        BY <1>1, <1>4, <4>1 DEF Elems, Once
    <3> QED
      BY <3>1, <3>2
  <2>2. ASSUME NEW j \in 1..Len(c), c[j] # c[2] PROVE c[j] \in Elems(d)
    <3>1. CASE j = 1
      <4>1. 1 \in 1..Len(d)
        BY <1>2, <1>1, <1>3
      <4> QED
        BY <1>3, <3>1, <4>1 DEF Elems
    <3>2. CASE j # 1
      <4>1. j - 1 \in 1..Len(d) /\ (j - 1) + 1 = j /\ j # 2
        BY <1>10, <2>2, <3>2
      <4>2. j - 1 # 1
        BY <4>1
      <4>3. d[j - 1] = c[j]
        BY <1>7, <4>1, <4>2
      <4> QED
        BY <4>1, <4>3 DEF Elems
    <3> QED
      BY <3>1, <3>2
  <2>3. \A x \in Elems(d) : x \in Elems(c) /\ x # c[2]
    BY <2>1 DEF Elems
  <2>4. \A x \in Elems(c) : x # c[2] => x \in Elems(d)
    BY <2>2 DEF Elems
  <2> QED
    BY <1>1, <1>5, <2>3, <2>4
<1>12. c[1] \in Of(r, n) /\ c[2] \in Of(r, n)
  BY <1>1, <1>4 DEF Elems
<1>13. Once(d)
  <2>1. ASSUME NEW i \in 1..Len(d), NEW j \in 1..Len(d), d[i] = d[j] PROVE i = j
    <3>1. /\ d[i] = IF i = 1 THEN c[1] ELSE c[i + 1]
          /\ d[j] = IF j = 1 THEN c[1] ELSE c[j + 1]
          /\ i + 1 \in 1..Len(c) /\ j + 1 \in 1..Len(c)
      BY <1>7
    <3>2. \A a, b \in 1..Len(c) : c[a] = c[b] => a = b
      BY <1>1 DEF Once
    <3>3. CASE i = 1
      <4>1. j = 1 \/ c[1] = c[j + 1]
        BY <2>1, <3>1, <3>3
      <4>2. c[1] = c[j + 1] => 1 = j + 1
        BY <1>4, <3>1, <3>2
      <4> QED
        BY <3>3, <4>1, <4>2
    <3>4. CASE j = 1
      <4>1. i = 1 \/ c[1] = c[i + 1]
        BY <2>1, <3>1, <3>4
      <4>2. c[1] = c[i + 1] => 1 = i + 1
        BY <1>4, <3>1, <3>2
      <4> QED
        BY <3>4, <4>1, <4>2
    <3>5. CASE i # 1 /\ j # 1
      <4>1. i + 1 = j + 1
        BY <2>1, <3>1, <3>2, <3>5
      <4> QED
        BY <4>1
    <3> QED
      BY <3>3, <3>4, <3>5
  <2> QED
    BY <2>1 DEF Once
<1>14. Shape(r, s, n, X, {})
  <2>1. \A x \in Entries \ (Of(r, n) \cup {}) :
           s.zone[x] = r.zone[x] /\ s.data[x] = r.data[x] /\ (x \in s.inuse <=> x \in r.inuse)
    BY <1>3, <1>12
  <2>2. s.free = r.free \cup ((Of(r, n) \cup {}) \ Of(s, n))
    BY <1>3, <1>11, <1>12
  <2>3. X \subseteq Entries /\ Apart(r, X)
    BY DEF Whole
  <2> QED
    BY <1>1, <1>3, <1>11, <1>13, <2>1, <2>2, <2>3 DEF Shape, Within, d
<1>15. Zoned(s, n) = Zoned(r, n) \ {z}
  <2>1. ASSUME NEW i \in 1..Len(m) PROVE m[i] \in Elems(l) /\ m[i] # z
    <3>1. m[i] = l[i + 1] /\ i + 1 \in 1..Len(l) /\ i + 1 # 1 /\ 1 \in 1..Len(l)
      BY <1>1, <1>4, <1>5, <1>7, <1>8
    <3> QED
      BY <1>1, <1>4, <3>1 DEF Elems, Once
  <2>2. ASSUME NEW j \in 1..Len(l), l[j] # z PROVE l[j] \in Elems(m)
    <3>1. j - 1 \in 1..Len(d) /\ (j - 1) + 1 = j
      BY <1>1, <1>4, <1>10, <2>2
    <3>2. m[j - 1] = l[j]
      BY <1>8, <3>1
    <3> QED
      BY <1>5, <3>1, <3>2 DEF Elems
  <2>3. \A x \in Elems(m) : x \in Elems(l) /\ x # z
    BY <2>1 DEF Elems
  <2>4. \A x \in Elems(l) : x # z => x \in Elems(m)
    BY <2>2 DEF Elems
  <2> QED
    BY <1>1, <1>5, <2>3, <2>4
<1>16. \A x \in Of(s, n) : Carries(r, s, n, x)
  <2>1. ASSUME NEW i \in 1..Len(d) PROVE Carries(r, s, n, d[i])
    <3>1. i + 1 \in 1..Len(c) /\ c[i + 1] \in Of(r, n)
      BY <1>1, <1>7 DEF Elems
    <3>2. s.zone[d[i]] = r.zone[c[i + 1]] /\ s.data[d[i]] = r.data[c[i + 1]]
      BY <1>1, <1>5, <1>8, <3>1
    <3> QED
      BY <3>1, <3>2 DEF Carries
  <2> QED
    BY <1>5, <2>1 DEF Elems
<1>17. d # <<>> /\ HeadOf(s, n) = h
  BY <1>1, <1>2, <1>3, <1>4, <1>5
<1>18. copy => HeadStays(r, s, n)
  <2>1. h \in s.inuse <=> h \in r.inuse
    BY <1>3, <1>4
  <2> QED
    BY <1>0, <1>3, <1>17, <2>1 DEF HeadStays, h
<1>19. ~IsCopy(s, n) /\ ~IsCopy(r, n)
  <2>1. ~IsCopy(r, n)
    BY <1>1, <1>4 DEF IsCopy, h
  <2>2. s.zone[h] # 0
    <3>1. l[2] # 0
      <4>1. 1 \in 1..Len(l) /\ 2 \in 1..Len(l) /\ 1 < 2
        BY <1>1, <1>4
      <4> QED
        BY <1>1, <4>1 DEF Ordered
    <3> QED
      BY <1>1, <1>3, <1>4, <3>1
  <2> QED
    BY <1>17, <2>1, <2>2 DEF IsCopy
<1>20. s.refs = r.refs + (IF IsCopy(s, n) THEN 1 ELSE 0) - (IF IsCopy(r, n) THEN 1 ELSE 0)
  <2>1. r.refs \in Int
    BY <1>1 DEF AnyRegistry
  <2> QED
    BY <1>3, <1>19, <2>1
<1>21. LastZone(s, n) = LastZone(r, n)
  <2>1. Len(d) \in 1..Len(d) /\ Len(d) + 1 = Len(c)
    BY <1>1, <1>2, <1>3, <1>5
  <2>2. m[Len(m)] = l[Len(l)]
    BY <1>1, <1>5, <1>8, <2>1
  <2> QED
    BY <2>2 DEF LastZone, l, m
<1>22. Rid(r, s, n, z, copy)
  <2>1. Zoned(s, n) \ {0} = Zoned(r, n) \ {0, z}
    BY <1>15
  <2>2. r.told \subseteq s.told
    BY <1>0, <1>3
  <2> QED
    BY <1>4, <1>16, <1>18, <1>20, <1>21, <2>1, <2>2 DEF Rid, c
<1> QED
  BY <1>9, <1>14, <1>22 DEF s, m

\* The entry DB_FindDefaultAsset returns.
LEMMA DefaultIs ==
    ASSUME NEW r \in AnyRegistry, FindDefaultAsset(r) # NoEntry
    PROVE  /\ DefaultName \in Names /\ r.chain[DefaultName] # <<>>
           /\ FindDefaultAsset(r) = r.chain[DefaultName][Len(r.chain[DefaultName])]
           /\ Len(r.chain[DefaultName]) \in 1..Len(r.chain[DefaultName])
           /\ FindDefaultAsset(r) \in Of(r, DefaultName) /\ FindDefaultAsset(r) \in Entries
<1> DEFINE c == r.chain[DefaultName]
<1>1. DefaultName # NoName /\ c # <<>> /\ FindDefaultAsset(r) = c[Len(c)]
  BY DEF FindDefaultAsset, Last
<1>2. DefaultName \in Names
  BY <1>1, RegistryAssumption
<1>3. c \in Seq(Entries) /\ Len(c) \in Nat /\ Len(c) # 0 /\ Of(r, DefaultName) \subseteq Entries
  BY <1>1, <1>2, OfBasics
<1>4. Len(c) \in 1..Len(c)
  BY <1>3
<1>5. c[Len(c)] \in Of(r, DefaultName)
  BY <1>4 DEF Of, Elems
<1> QED
  BY <1>1, <1>2, <1>3, <1>4, <1>5

\* A chain of one entry, which is the head.
LEMMA Single ==
    ASSUME NEW r, NEW n \in Names, NEW X, NEW zs, Whole(r, n, X, zs),
           ~Unlinked(r, n), ~(Len(r.chain[n]) > 1)
    PROVE  /\ Len(r.chain[n]) = 1 /\ Of(r, n) = {HeadOf(r, n)}
           /\ Zoned(r, n) = {r.zone[HeadOf(r, n)]} /\ LastZone(r, n) = r.zone[HeadOf(r, n)]
<1> DEFINE c == r.chain[n]
           l == Line(r, n)
<1>1. /\ Len(c) \in Nat /\ Len(c) # 0 /\ Of(r, n) = Elems(c)
      /\ Len(l) = Len(c) /\ HeadOf(r, n) = c[1] /\ r.zone[HeadOf(r, n)] = l[1]
  BY WholeBasics DEF Unlinked
<1>2. Len(c) = 1
  <2>1. \A k \in Nat : k # 0 /\ ~(k > 1) => k = 1
    OBVIOUS
  <2>2. ~(Len(c) > 1)
    OBVIOUS
  <2> HIDE DEF c
  <2> QED
    BY <1>1, <2>1, <2>2
<1>3. Of(r, n) = {c[1]}
  <2>1. \A i \in 1..Len(c) : i = 1
    BY <1>2
  <2> QED
    BY <1>1, <1>2, <2>1 DEF Elems
<1> QED
  BY <1>1, <1>2, <1>3 DEF Zoned, LastZone

\* What making the head a default copy changes.
LEMMA RebindIs ==
    ASSUME NEW r \in AnyRegistry, NEW n \in Names, ~Unlinked(r, n), FindDefaultAsset(r) # NoEntry
    PROVE  LET s == RebindDefault(r, n)
               h == HeadOf(r, n)
           IN  /\ s \in AnyRegistry /\ s.chain = r.chain /\ s.refs = r.refs + 1
               /\ s.inuse = r.inuse /\ s.free = r.free /\ s.lost = r.lost /\ s.told = r.told
               /\ s.zone[h] = 0 /\ s.data[h] = r.data[FindDefaultAsset(r)]
               /\ \A x \in Entries \ {h} : s.zone[x] = r.zone[x] /\ s.data[x] = r.data[x]
<1> DEFINE s == RebindDefault(r, n)
           h == HeadOf(r, n)
           k == r.data[FindDefaultAsset(r)]
           zone == [r.zone EXCEPT ![h] = 0]
           data == [r.data EXCEPT ![h] = k]
<1>1. h \in Entries
  BY OfBasics DEF Unlinked
<1>2. k \in Zones \cup {0}
  <2>1. FindDefaultAsset(r) \in Entries
    BY DefaultIs
  <2> QED
    BY <2>1 DEF AnyRegistry
<1>3. s = [r EXCEPT !.refs = @ + 1, !.zone[h] = 0, !.data[h] = k]
  BY DEF RebindDefault
<1> HIDE DEF h, k
<1>4. /\ zone \in [Entries -> Zones \cup {0}] /\ data \in [Entries -> Zones \cup {0}]
      /\ zone[h] = 0 /\ data[h] = k
      /\ \A x \in Entries \ {h} : zone[x] = r.zone[x] /\ data[x] = r.data[x]
  BY <1>1, <1>2 DEF AnyRegistry
<1>5. s = [r EXCEPT !.refs = r.refs + 1, !.zone = zone, !.data = data]
  BY <1>3
<1>6. r.refs + 1 \in Int
  BY DEF AnyRegistry
<1> HIDE DEF s, zone, data
<1>7. /\ s \in AnyRegistry /\ s.chain = r.chain /\ s.refs = r.refs + 1
      /\ s.inuse = r.inuse /\ s.free = r.free /\ s.lost = r.lost /\ s.told = r.told
      /\ s.zone = zone /\ s.data = data
  BY <1>4, <1>5, <1>6 DEF AnyRegistry
<1> QED
  BY <1>4, <1>7 DEF s, h, k

\* Unloading: the zone has the head, and a default copy takes over.
LEMMA RebindRids ==
    ASSUME NEW r, NEW n \in Names, NEW X, NEW zs, Whole(r, n, X, zs), NEW z \in Zones,
           NEW copy \in BOOLEAN, NEW u, Heard(r, u, n, copy), ~Unlinked(r, n),
           ~(Len(r.chain[n]) > 1), r.zone[HeadOf(r, n)] = z, copy, FindDefaultAsset(r) # NoEntry
    PROVE  LET s == RebindDefault(u, n)
           IN  Shape(r, s, n, X, {}) /\ Rid(r, s, n, z, copy) /\ Ordered(Line(s, n), zs)
<1> DEFINE s == RebindDefault(u, n)
           h == HeadOf(r, n)
           fd == FindDefaultAsset(r)
<1>0. /\ u \in AnyRegistry /\ u.chain = r.chain /\ u.zone = r.zone /\ u.data = r.data
      /\ u.inuse = r.inuse /\ u.free = r.free /\ u.lost = r.lost /\ u.refs = r.refs
      /\ r.told \subseteq u.told
      /\ h \in r.inuse => h \in u.told
      /\ Of(u, n) = Of(r, n) /\ HeadOf(u, n) = h /\ FindDefaultAsset(u) = fd
  BY HeardWhole DEF Heard
<1>1. /\ r \in AnyRegistry /\ r.chain[n] # <<>> /\ h \in Entries /\ zs \in Seq(Zones)
      /\ X \subseteq Entries /\ Apart(r, X) /\ r.refs \in Int
  BY WholeBasics DEF Unlinked, Whole, AnyRegistry
<1>2. /\ Len(r.chain[n]) = 1 /\ Of(r, n) = {h} /\ Zoned(r, n) = {r.zone[h]}
      /\ LastZone(r, n) = r.zone[h]
  BY Single
<1>3. ~Unlinked(u, n) /\ FindDefaultAsset(u) # NoEntry
  BY <1>0, <1>1 DEF Unlinked
<1>4. /\ s \in AnyRegistry /\ s.chain = r.chain /\ s.refs = r.refs + 1
      /\ s.inuse = r.inuse /\ s.free = r.free /\ s.lost = r.lost /\ s.told = u.told
      /\ s.zone[h] = 0 /\ s.data[h] = r.data[fd]
      /\ \A x \in Entries \ {h} : s.zone[x] = r.zone[x] /\ s.data[x] = r.data[x]
  <2>1. LET h1 == HeadOf(u, n) IN
        /\ s \in AnyRegistry /\ s.chain = u.chain /\ s.refs = u.refs + 1
        /\ s.inuse = u.inuse /\ s.free = u.free /\ s.lost = u.lost /\ s.told = u.told
        /\ s.zone[h1] = 0 /\ s.data[h1] = u.data[FindDefaultAsset(u)]
        /\ \A x \in Entries \ {h1} : s.zone[x] = u.zone[x] /\ s.data[x] = u.data[x]
    BY <1>0, <1>3, RebindIs
  <2> HIDE DEF s, h, fd
  <2> QED
    BY <1>0, <2>1
<1>5. r.zone[h] = z /\ z # 0 /\ copy /\ fd # NoEntry
  BY RegistryAssumption
<1> HIDE DEF s, h, fd
<1>6. Of(s, n) = {h} /\ Once(s.chain[n]) /\ HeadOf(s, n) = h /\ s.chain[n] = r.chain[n]
  <2>1. Once(r.chain[n])
    BY <1>1 DEF Apart
  <2>2. Of(s, n) = Of(r, n) /\ HeadOf(s, n) = HeadOf(r, n)
    BY <1>4 DEF Of, HeadOf
  <2> QED
    BY <1>2, <1>4, <2>1, <2>2 DEF h
<1>7. Shape(r, s, n, X, {})
  <2>1. \A x \in Entries \ (Of(r, n) \cup {}) :
           s.zone[x] = r.zone[x] /\ s.data[x] = r.data[x] /\ (x \in s.inuse <=> x \in r.inuse)
    BY <1>2, <1>4
  <2>2. s.free = r.free \cup ((Of(r, n) \cup {}) \ Of(s, n))
    BY <1>2, <1>4, <1>6
  <2> QED
    BY <1>1, <1>2, <1>4, <1>6, <2>1, <2>2 DEF Shape, Within
<1>8. Zoned(s, n) = {0}
  BY <1>4, <1>6 DEF Zoned
<1>9. Len(Line(s, n)) = 1 /\ Line(s, n)[1] = 0
  <2>1. Len(Line(s, n)) = Len(s.chain[n]) /\ Zoned(s, n) = Elems(Line(s, n))
    BY <1>4, LineBasics
  <2>2. 1 \in 1..1
    OBVIOUS
  <2> QED
    BY <1>2, <1>6, <1>8, <2>1, <2>2 DEF Elems
<1>10. Ordered(Line(s, n), zs)
  BY <1>9 DEF Ordered
<1>11. IsCopy(s, n) /\ ~IsCopy(r, n)
  BY <1>1, <1>4, <1>5, <1>6 DEF IsCopy, h
<1>12. HeadStays(r, s, n)
  BY <1>0, <1>4, <1>6 DEF HeadStays, h
<1>13. Rid(r, s, n, z, copy)
  <2>1. Zoned(s, n) \ {0} = Zoned(r, n) \ {0, z}
    BY <1>2, <1>5, <1>8
  <2>2. \A x \in Of(s, n) : Carries(r, s, n, x)
    BY <1>4, <1>5, <1>6 DEF Carries, fd
  <2>3. r.told \subseteq s.told /\ LastZone(r, n) = z
    BY <1>0, <1>2, <1>4, <1>5
  <2>4. s.refs = r.refs + (IF IsCopy(s, n) THEN 1 ELSE 0) - (IF IsCopy(r, n) THEN 1 ELSE 0)
    BY <1>1, <1>4, <1>11
  <2> QED
    BY <1>1, <1>12, <2>1, <2>2, <2>3, <2>4 DEF Rid
<1> QED
  BY <1>7, <1>10, <1>13 DEF s

\* Unloading: the zone has the head, and nothing takes over.
LEMMA UnlinkRids ==
    ASSUME NEW r, NEW n \in Names, NEW X, NEW zs, Whole(r, n, X, zs), NEW z \in Zones,
           NEW copy \in BOOLEAN, NEW u, Heard(r, u, n, copy), ~Unlinked(r, n),
           ~(Len(r.chain[n]) > 1), r.zone[HeadOf(r, n)] = z
    PROVE  LET s == Unlink(u, n)
           IN  Shape(r, s, n, X, {}) /\ Rid(r, s, n, z, copy) /\ Ordered(Line(s, n), zs)
<1> DEFINE s == Unlink(u, n)
           h == HeadOf(r, n)
           chain == [r.chain EXCEPT ![n] = <<>>]
           t == [u EXCEPT !.chain[n] = <<>>]
           S == {h}
<1>0. /\ u \in AnyRegistry /\ u.chain = r.chain /\ u.zone = r.zone /\ u.data = r.data
      /\ u.inuse = r.inuse /\ u.free = r.free /\ u.lost = r.lost /\ u.refs = r.refs
      /\ r.told \subseteq u.told /\ HeadOf(u, n) = h
  BY HeardWhole DEF Heard
<1>1. /\ r \in AnyRegistry /\ r.chain[n] # <<>> /\ h \in Entries /\ zs \in Seq(Zones)
      /\ X \subseteq Entries /\ Apart(r, X) /\ r.refs \in Int
  BY WholeBasics DEF Unlinked, Whole, AnyRegistry
<1>2. Len(r.chain[n]) = 1 /\ Of(r, n) = {h} /\ Zoned(r, n) = {r.zone[h]}
  BY Single
<1>3. r.zone[h] = z /\ z # 0
  BY RegistryAssumption
<1>4. s = ReleaseAll(t, S)
  BY <1>0 DEF Unlink, Release
<1> HIDE DEF h
<1>5. /\ chain \in [Names -> Seq(Entries)] /\ chain[n] = <<>>
      /\ \A m \in Names \ {n} : chain[m] = r.chain[m]
  BY <1>1 DEF AnyRegistry
<1>6. t = [u EXCEPT !.chain = chain]
  BY <1>0
<1> HIDE DEF t, chain
<1>7. /\ t \in AnyRegistry /\ t.chain = chain
      /\ t.zone = r.zone /\ t.data = r.data /\ t.inuse = r.inuse /\ t.free = r.free
      /\ t.lost = r.lost /\ t.refs = r.refs /\ t.told = u.told
  BY <1>0, <1>5, <1>6 DEF AnyRegistry
<1>8. S \subseteq Entries
  BY <1>1
<1> HIDE DEF S
<1>9. /\ ReleaseAll(t, S) \in AnyRegistry
      /\ ReleaseAll(t, S).chain = t.chain /\ ReleaseAll(t, S).refs = t.refs
      /\ ReleaseAll(t, S).inuse = t.inuse \ S /\ ReleaseAll(t, S).free = t.free \cup S
      /\ ReleaseAll(t, S).lost = t.lost /\ ReleaseAll(t, S).told = t.told
      /\ \A x \in Entries \ S : /\ ReleaseAll(t, S).zone[x] = t.zone[x]
                                /\ ReleaseAll(t, S).data[x] = t.data[x]
  BY <1>7, <1>8, ReleaseIs
<1> HIDE DEF s
<1>10. /\ s \in AnyRegistry /\ s.chain = chain /\ s.refs = r.refs /\ s.inuse = r.inuse \ {h}
       /\ s.free = r.free \cup {h} /\ s.lost = r.lost /\ s.told = u.told
       /\ \A x \in Entries \ {h} : s.zone[x] = r.zone[x] /\ s.data[x] = r.data[x]
  BY <1>4, <1>7, <1>9 DEF S
<1>11. s.chain[n] = <<>> /\ Of(s, n) = {} /\ Len(s.chain[n]) = 0 /\ Once(s.chain[n])
  <2>1. s.chain[n] = <<>>
    BY <1>5, <1>10
  <2> QED
    BY <2>1, <1>10, OfBasics DEF Once
<1>12. Shape(r, s, n, X, {})
  <2>1. \A x \in Entries \ (Of(r, n) \cup {}) :
           s.zone[x] = r.zone[x] /\ s.data[x] = r.data[x] /\ (x \in s.inuse <=> x \in r.inuse)
    BY <1>2, <1>10
  <2>2. s.free = r.free \cup ((Of(r, n) \cup {}) \ Of(s, n))
    BY <1>2, <1>10, <1>11
  <2>3. Within(r, s, n, {})
    BY <1>5, <1>10, <2>1 DEF Within
  <2> QED
    BY <1>1, <1>10, <1>11, <2>2, <2>3 DEF Shape
<1>13. Ordered(Line(s, n), zs)
  <2>1. Len(Line(s, n)) = 0
    BY <1>10, <1>11, LineBasics
  <2> QED
    BY <2>1 DEF Ordered
<1>14. ~IsCopy(s, n) /\ ~IsCopy(r, n)
  BY <1>1, <1>3, <1>11 DEF IsCopy, h
<1>15. Rid(r, s, n, z, copy)
  <2>1. Zoned(s, n) \ {0} = Zoned(r, n) \ {0, z}
    BY <1>2, <1>3, <1>11 DEF Zoned
  <2>2. \A x \in Of(s, n) : Carries(r, s, n, x)
    BY <1>11
  <2>3. r.told \subseteq s.told
    BY <1>0, <1>10
  <2>4. s.refs = r.refs + (IF IsCopy(s, n) THEN 1 ELSE 0) - (IF IsCopy(r, n) THEN 1 ELSE 0)
    BY <1>1, <1>10, <1>14
  <2> QED
    BY <1>11, <2>1, <2>2, <2>3, <2>4 DEF Rid
<1> QED
  BY <1>12, <1>13, <1>15 DEF s

\* DB_UnloadZoneAssets for one chain: the zone leaves it, and nothing else changes.
LEMMA UnloadRids ==
    ASSUME NEW r, NEW n \in Names, NEW X, NEW zs, Whole(r, n, X, zs), NEW z \in Zones,
           NEW copy \in BOOLEAN
    PROVE  LET s == UnloadName(r, n, z, copy)
           IN  Shape(r, s, n, X, {}) /\ Rid(r, s, n, z, copy) /\ Ordered(Line(s, n), zs)
<1> DEFINE u == IF copy THEN Tell(r, HeadOf(r, n)) ELSE r
           fd == copy /\ FindDefaultAsset(r) # NoEntry
<1>1. r \in AnyRegistry /\ Apart(r, X) /\ X \subseteq Entries /\ Ordered(Line(r, n), zs)
  BY DEF Whole
<1>2. CASE Unlinked(r, n)
  <2>1. UnloadName(r, n, z, copy) = r
    BY <1>2 DEF UnloadName, Unlinked
  <2>2. Of(r, n) = {} /\ Once(r.chain[n])
    BY <1>1, <1>2, OfBasics DEF Unlinked, Apart
  <2>3. Shape(r, r, n, X, {})
    BY <1>1, <2>2 DEF Shape, Within
  <2>4. r.refs = r.refs + (IF IsCopy(r, n) THEN 1 ELSE 0) - (IF IsCopy(r, n) THEN 1 ELSE 0)
    BY <1>1 DEF AnyRegistry
  <2>5. Rid(r, r, n, z, copy)
    BY <1>2, <2>2, <2>4 DEF Rid, Zoned, Unlinked
  <2> QED
    BY <1>1, <2>1, <2>3, <2>5
<1>3. CASE ~Unlinked(r, n)
  <2>1. Heard(r, u, n, copy)
    <3>1. HeadOf(r, n) \in Entries
      BY <1>1, <1>3, OfBasics DEF Unlinked
    <3> QED
      BY <1>1, <3>1, TellIs DEF Heard
  <2>2. CASE r.zone[HeadOf(r, n)] # z
    <3>1. UnloadName(r, n, z, copy) = DropOverrides(r, n, z)
      BY <1>3, <2>2 DEF UnloadName, Unlinked
    <3>2. LET s == DropOverrides(r, n, z)
          IN  Shape(r, s, n, X, {}) /\ Rid(r, s, n, z, copy) /\ Ordered(Line(s, n), zs)
      BY <1>3, <2>2, DropRids
    <3> QED
      BY <3>1, <3>2
  <2>3. CASE r.zone[HeadOf(r, n)] = z /\ Len(r.chain[n]) > 1
    <3>1. UnloadName(r, n, z, copy) = PromoteOverride(u, n)
      BY <1>3, <2>3 DEF UnloadName, Unlinked
    <3> HIDE DEF u
    <3>2. LET s == PromoteOverride(u, n)
          IN  Shape(r, s, n, X, {}) /\ Rid(r, s, n, z, copy) /\ Ordered(Line(s, n), zs)
      BY <2>1, <2>3, PromoteRids
    <3> QED
      BY <3>1, <3>2
  <2>4. CASE r.zone[HeadOf(r, n)] = z /\ ~(Len(r.chain[n]) > 1) /\ fd
    <3>1. UnloadName(r, n, z, copy) = RebindDefault(u, n)
      BY <1>3, <2>4 DEF UnloadName, Unlinked
    <3> HIDE DEF u
    <3>2. LET s == RebindDefault(u, n)
          IN  Shape(r, s, n, X, {}) /\ Rid(r, s, n, z, copy) /\ Ordered(Line(s, n), zs)
      BY <1>3, <2>1, <2>4, RebindRids
    <3> QED
      BY <3>1, <3>2
  <2>5. CASE r.zone[HeadOf(r, n)] = z /\ ~(Len(r.chain[n]) > 1) /\ ~fd
    <3>1. UnloadName(r, n, z, copy) = Unlink(u, n)
      BY <1>3, <2>5 DEF UnloadName, Unlinked
    <3> HIDE DEF u
    <3>2. LET s == Unlink(u, n)
          IN  Shape(r, s, n, X, {}) /\ Rid(r, s, n, z, copy) /\ Ordered(Line(s, n), zs)
      BY <1>3, <2>1, <2>5, UnlinkRids
    <3> QED
      BY <3>1, <3>2
  <2> QED
    BY <2>2, <2>3, <2>4, <2>5
<1> QED
  BY <1>2, <1>3

\* Unloading a name leaves a registry.
LEMMA UnloadType ==
    ASSUME NEW r \in AnyRegistry, NEW n \in Names, NEW z, NEW copy \in BOOLEAN
    PROVE  UnloadName(r, n, z, copy) \in AnyRegistry
<1> DEFINE u == IF copy THEN Tell(r, HeadOf(r, n)) ELSE r
           fd == copy /\ FindDefaultAsset(r) # NoEntry
<1>1. CASE Unlinked(r, n)
  BY <1>1 DEF UnloadName, Unlinked
<1>2. CASE ~Unlinked(r, n)
  <2>1. u \in AnyRegistry /\ u.chain = r.chain
    <3>1. HeadOf(r, n) \in Entries
      BY <1>2, OfBasics DEF Unlinked
    <3> QED
      BY <3>1, TellIs
  <2>2. CASE r.zone[HeadOf(r, n)] # z
    <3>1. UnloadName(r, n, z, copy) = DropOverrides(r, n, z)
      BY <1>2, <2>2 DEF UnloadName, Unlinked
    <3>2. DropOverrides(r, n, z) \in AnyRegistry
      BY DropIs
    <3> QED
      BY <3>1, <3>2
  <2>3. CASE r.zone[HeadOf(r, n)] = z /\ Len(r.chain[n]) > 1
    <3>1. UnloadName(r, n, z, copy) = PromoteOverride(u, n)
      BY <1>2, <2>3 DEF UnloadName, Unlinked
    <3>2. Len(u.chain[n]) > 1
      BY <2>1, <2>3
    <3> HIDE DEF u
    <3>3. PromoteOverride(u, n) \in AnyRegistry
      BY <2>1, <3>2, PromoteIs
    <3> QED
      BY <3>1, <3>3
  <2>4. CASE r.zone[HeadOf(r, n)] = z /\ ~(Len(r.chain[n]) > 1) /\ fd
    <3>1. UnloadName(r, n, z, copy) = RebindDefault(u, n)
      BY <1>2, <2>4 DEF UnloadName, Unlinked
    <3>2. ~Unlinked(u, n) /\ FindDefaultAsset(u) # NoEntry
      BY <1>2, <2>1, <2>4 DEF Unlinked, FindDefaultAsset
    <3> HIDE DEF u
    <3>3. RebindDefault(u, n) \in AnyRegistry
      BY <2>1, <3>2, RebindIs
    <3> QED
      BY <3>1, <3>3
  <2>5. CASE r.zone[HeadOf(r, n)] = z /\ ~(Len(r.chain[n]) > 1) /\ ~fd
    <3> DEFINE h == HeadOf(u, n)
               chain == [u.chain EXCEPT ![n] = <<>>]
               t == [u EXCEPT !.chain[n] = <<>>]
    <3>1. UnloadName(r, n, z, copy) = Unlink(u, n)
      BY <1>2, <2>5 DEF UnloadName, Unlinked
    <3> HIDE DEF u
    <3>2. h \in Entries
      <4>1. u.chain[n] # <<>>
        BY <1>2, <2>1 DEF Unlinked
      <4> QED
        BY <2>1, <4>1, OfBasics
    <3>3. chain \in [Names -> Seq(Entries)]
      BY <2>1 DEF AnyRegistry
    <3>4. t = [u EXCEPT !.chain = chain]
      OBVIOUS
    <3>5. Unlink(u, n) = ReleaseAll(t, {h})
      BY DEF Unlink, Release
    <3> HIDE DEF t, chain, h
    <3>6. t \in AnyRegistry
      BY <2>1, <3>3, <3>4 DEF AnyRegistry
    <3>7. {h} \subseteq Entries
      BY <3>2
    <3>8. ReleaseAll(t, {h}) \in AnyRegistry
      BY <3>6, <3>7, ReleaseIs
    <3> QED
      BY <3>1, <3>5, <3>8
  <2> QED
    BY <2>2, <2>3, <2>4, <2>5
<1> QED
  BY <1>1, <1>2

-----------------------------------------------------------------------------
(* The three loops, as the lists of the registries they go through *)

\* F is what a fold that takes the greatest number first computes, where it stays in A.
Follows(F, n, a, A, step, q) ==
    /\ F[{}] = a
    /\ \A x \in SUBSET (1..n) : x # {} /\ F[x \ {Max(x)}] \in A =>
           F[x] = step[<<F[x \ {Max(x)}], q[Max(x)]>>]

\* From a to b, a member of q at a time.
Run(g, n, a, A, step, q, b) ==
    /\ g \in [0..n -> A] /\ g[0] = a /\ g[n] = b
    /\ \A k \in 1..n : g[k] = step[<<g[k - 1], q[k]>>]

\* A fold from the left is the last of a list of values, one for each step.
LEMMA FoldRuns ==
    ASSUME NEW A, NEW B, NEW step \in [A \X B -> A], NEW a \in A, NEW n \in Nat,
           NEW q \in [1..n -> B], NEW F, Follows(F, n, a, A, step, q)
    PROVE  \E g : Run(g, n, a, A, step, q, F[1..n])
<1> DEFINE g == [k \in 0..n |-> F[1..k]]
           K == {k \in 0..n : g[k] \in A}
<1>1. g[0] = a /\ g[n] = F[1..n]
  <2>1. 1..0 = {} /\ 0 \in 0..n /\ n \in 0..n
    OBVIOUS
  <2> QED
    BY <2>1 DEF Follows
<1>2. ASSUME NEW k \in 1..n, g[k - 1] \in A PROVE g[k] = step[<<g[k - 1], q[k]>>]
  <2>1. /\ 1..k \in SUBSET (1..n) /\ 1..k # {} /\ Max(1..k) = k /\ (1..k) \ {k} = 1..(k - 1)
        /\ k \in 0..n /\ k - 1 \in 0..n
    BY MaxOf
  <2>2. F[(1..k) \ {Max(1..k)}] \in A
    BY <1>2, <2>1
  <2>3. F[1..k] = step[<<F[(1..k) \ {Max(1..k)}], q[Max(1..k)]>>]
    BY <2>1, <2>2 DEF Follows
  <2> QED
    BY <2>1, <2>3
<1>3. \A k \in 0..n : g[k] \in A
  <2>1. 0 \in K
    BY <1>1
  <2>2. ASSUME NEW k \in 0..(n - 1), k \in K PROVE k + 1 \in K
    <3>1. k + 1 \in 1..n /\ (k + 1) - 1 = k /\ k + 1 \in 0..n /\ g[k] \in A
      BY <2>2
    <3>2. g[k + 1] = step[<<g[k], q[k + 1]>>]
      <4> HIDE DEF g
      <4> QED
        BY <1>2, <3>1
    <3>3. q[k + 1] \in B
      BY <3>1
    <3>4. g[k + 1] \in A
      <4> HIDE DEF g
      <4> QED
        BY <3>1, <3>2, <3>3
    <3> QED
      BY <3>1, <3>4
  <2>3. \A k \in 0..n : k \in K
    <3> HIDE DEF K
    <3> QED
      BY <2>1, <2>2, CountUp
  <2> QED
    BY <2>3
<1>4. \A k \in 1..n : k - 1 \in 0..n
  OBVIOUS
<1>5. g \in [0..n -> A]
  BY <1>3
<1> HIDE DEF g
<1> QED
  BY <1>1, <1>2, <1>3, <1>4, <1>5 DEF Run

Links == [name : Names, entry : Entries]

\* DB_FlushCopyInfoQueue, a link at a time.
FlushRun(r, q, g) ==
    /\ g \in [0..Len(q) -> AnyRegistry] /\ g[0] = r /\ g[Len(q)] = FlushAll(r, q)
    /\ \A k \in 1..Len(q) : g[k] = Arbitrate(g[k - 1], q[k].name, q[k].entry)

\* The registries a flush goes through.
LEMMA FlushSteps ==
    ASSUME NEW r \in AnyRegistry, NEW q \in Seq(Links)
    PROVE  \E g : FlushRun(r, q, g)
<1> DEFINE A == AnyRegistry
           n == Len(q)
           Op(t, x) == Arbitrate(t, x.name, x.entry)
           step == [p \in A \X Links |-> Op(p[1], p[2])]
           pick == [x \in SUBSET (1..n) |-> Max(x)]
           Is(F) == F = [x \in SUBSET (1..n) |->
                           IF x = {} THEN r ELSE Op(F[x \ {Max(x)}], q[Max(x)])]
<1>0. n \in Nat /\ DOMAIN q = 1..n /\ (\A i \in 1..n : q[i] \in Links) /\ r \in A
      /\ q \in [1..n -> Links]
  OBVIOUS
<1>1. ASSUME NEW t \in A, NEW x \in Links PROVE Op(t, x) \in A
  <2>1. x.name \in Names /\ x.entry \in Entries
    BY DEF Links
  <2> QED
    BY <2>1, ArbitrateType
<1>2. \A x \in SUBSET (1..n) : x # {} => pick[x] \in x /\ pick[x] = Max(x)
  BY <1>0, MaxOf
<1>3. FlushAll(r, q) = (CHOOSE F : Is(F))[1..n]
  BY <1>0 DEF FlushAll, FoldLeft, MapThenFoldSet
<1> HIDE DEF A, n, Op, pick
<1>4. step \in [A \X Links -> A] /\ \A t \in A, x \in Links : step[<<t, x>>] = Op(t, x)
  BY <1>1
<1> HIDE DEF step
<1>5. PICK F0 \in [SUBSET (1..n) -> A] : Iterates(F0, n, r, step, q, pick)
  <2>1. Picks(pick, n)
    BY <1>2 DEF Picks
  <2> QED
    BY <1>0, <1>4, <2>1, FoldExists
<1>6. Is(F0)
  <2>1. ASSUME NEW x \in SUBSET (1..n), x # {}
        PROVE  step[<<F0[x \ {pick[x]}], q[pick[x]]>>] = Op(F0[x \ {Max(x)}], q[Max(x)])
    <3>1. pick[x] = Max(x) /\ Max(x) \in 1..n /\ x \ {Max(x)} \in SUBSET (1..n)
      BY <1>2, <2>1
    <3>2. F0[x \ {Max(x)}] \in A /\ q[Max(x)] \in Links
      BY <1>0, <3>1
    <3> QED
      BY <1>4, <3>1, <3>2
  <2> QED
    BY <1>5, <2>1 DEF Iterates
<1>7. PICK F : FlushAll(r, q) = F[1..n] /\ Is(F)
  <2> HIDE DEF Is
  <2> QED
    BY <1>3, <1>6
<1>8. Follows(F, n, r, A, step, q)
  <2>1. F[{}] = r
    <3>1. {} \in SUBSET (1..n)
      OBVIOUS
    <3> QED
      BY <1>7, <3>1
  <2>2. ASSUME NEW x \in SUBSET (1..n), x # {}, F[x \ {Max(x)}] \in A
        PROVE  F[x] = step[<<F[x \ {Max(x)}], q[Max(x)]>>]
    <3>1. F[x] = Op(F[x \ {Max(x)}], q[Max(x)])
      BY <1>7, <2>2
    <3>2. q[Max(x)] \in Links
      BY <1>0, <1>2, <2>2
    <3> QED
      BY <1>4, <2>2, <3>1, <3>2
  <2> QED
    BY <2>1, <2>2 DEF Follows
<1>9. PICK g : Run(g, n, r, A, step, q, F[1..n])
  BY <1>0, <1>4, <1>8, FoldRuns
<1>10. \A k \in 1..n : g[k] = Op(g[k - 1], q[k])
  <2> TAKE k \in 1..n
  <2>1. k - 1 \in 0..n
    BY <1>0
  <2>2. g[k - 1] \in A /\ q[k] \in Links /\ g[k] = step[<<g[k - 1], q[k]>>]
    BY <1>0, <1>9, <2>1 DEF Run
  <2> QED
    BY <1>4, <2>2
<1>11. FlushRun(r, q, g)
  <2> HIDE DEF Is
  <2>1. g \in [0..n -> A] /\ g[0] = r /\ g[n] = FlushAll(r, q)
    BY <1>7, <1>9 DEF Run
  <2> QED
    BY <1>10, <2>1 DEF FlushRun, Op, A, n
<1> QED
  BY <1>11

\* DB_UnloadZoneAssets, a name at a time.
ZoneRun(r, z, copy, order, g) ==
    /\ g \in [0..Len(order) -> AnyRegistry] /\ g[0] = r
    /\ g[Len(order)] = UnloadZoneAssets(r, z, copy, order)
    /\ \A k \in 1..Len(order) : g[k] = UnloadName(g[k - 1], order[k], z, copy)

\* The registries the unload of a zone goes through, name by name.
LEMMA ZoneSteps ==
    ASSUME NEW r \in AnyRegistry, NEW z, NEW copy \in BOOLEAN, NEW order \in Seq(Names)
    PROVE  \E g : ZoneRun(r, z, copy, order, g)
<1> DEFINE A == AnyRegistry
           n == Len(order)
           Op(t, x) == UnloadName(t, x, z, copy)
           step == [p \in A \X Names |-> Op(p[1], p[2])]
           pick == [x \in SUBSET (1..n) |-> Max(x)]
           Is(F) == F = [x \in SUBSET (1..n) |->
                           IF x = {} THEN r ELSE Op(F[x \ {Max(x)}], order[Max(x)])]
           end == UnloadZoneAssets(r, z, copy, order)
<1>0. n \in Nat /\ DOMAIN order = 1..n /\ (\A i \in 1..n : order[i] \in Names) /\ r \in A
      /\ order \in [1..n -> Names]
  OBVIOUS
<1>1. ASSUME NEW t \in A, NEW x \in Names PROVE Op(t, x) \in A
  BY UnloadType
<1>2. \A x \in SUBSET (1..n) : x # {} => pick[x] \in x /\ pick[x] = Max(x)
  BY <1>0, MaxOf
<1>3. end = (CHOOSE F : Is(F))[1..n]
  BY <1>0 DEF UnloadZoneAssets, FoldLeft, MapThenFoldSet
<1> HIDE DEF A, n, Op, pick, end
<1>4. step \in [A \X Names -> A] /\ \A t \in A, x \in Names : step[<<t, x>>] = Op(t, x)
  BY <1>1
<1> HIDE DEF step
<1>5. PICK F0 \in [SUBSET (1..n) -> A] : Iterates(F0, n, r, step, order, pick)
  <2>1. Picks(pick, n)
    BY <1>2 DEF Picks
  <2> QED
    BY <1>0, <1>4, <2>1, FoldExists
<1>6. Is(F0)
  <2>1. ASSUME NEW x \in SUBSET (1..n), x # {}
        PROVE  step[<<F0[x \ {pick[x]}], order[pick[x]]>>] = Op(F0[x \ {Max(x)}], order[Max(x)])
    <3>1. pick[x] = Max(x) /\ Max(x) \in 1..n /\ x \ {Max(x)} \in SUBSET (1..n)
      BY <1>2, <2>1
    <3>2. F0[x \ {Max(x)}] \in A /\ order[Max(x)] \in Names
      BY <1>0, <3>1
    <3> QED
      BY <1>4, <3>1, <3>2
  <2> QED
    BY <1>5, <2>1 DEF Iterates
<1>7. PICK F : end = F[1..n] /\ Is(F)
  <2> HIDE DEF Is
  <2> QED
    BY <1>3, <1>6
<1>8. Follows(F, n, r, A, step, order)
  <2>1. F[{}] = r
    <3>1. {} \in SUBSET (1..n)
      OBVIOUS
    <3> QED
      BY <1>7, <3>1
  <2>2. ASSUME NEW x \in SUBSET (1..n), x # {}, F[x \ {Max(x)}] \in A
        PROVE  F[x] = step[<<F[x \ {Max(x)}], order[Max(x)]>>]
    <3>1. F[x] = Op(F[x \ {Max(x)}], order[Max(x)])
      BY <1>7, <2>2
    <3>2. order[Max(x)] \in Names
      BY <1>0, <1>2, <2>2
    <3> QED
      BY <1>4, <2>2, <3>1, <3>2
  <2> QED
    BY <2>1, <2>2 DEF Follows
<1>9. PICK g : Run(g, n, r, A, step, order, F[1..n])
  BY <1>0, <1>4, <1>8, FoldRuns
<1>10. \A k \in 1..n : g[k] = Op(g[k - 1], order[k])
  <2> TAKE k \in 1..n
  <2>1. k - 1 \in 0..n
    BY <1>0
  <2>2. g[k - 1] \in A /\ order[k] \in Names /\ g[k] = step[<<g[k - 1], order[k]>>]
    BY <1>0, <1>9, <2>1 DEF Run
  <2> QED
    BY <1>4, <2>2
<1>11. ZoneRun(r, z, copy, order, g)
  <2> HIDE DEF Is
  <2>1. g \in [0..n -> A] /\ g[0] = r /\ g[n] = end
    BY <1>7, <1>9 DEF Run
  <2> QED
    BY <1>10, <2>1 DEF ZoneRun, Op, A, n, end
<1> QED
  BY <1>11

\* Unloading a zone leaves a registry.
LEMMA ZoneType ==
    ASSUME NEW r \in AnyRegistry, NEW z, NEW copy \in BOOLEAN, NEW order \in Seq(Names)
    PROVE  UnloadZoneAssets(r, z, copy, order) \in AnyRegistry
<1>1. PICK g : ZoneRun(r, z, copy, order, g)
  BY ZoneSteps
<1>2. Len(order) \in 0..Len(order)
  OBVIOUS
<1> QED
  BY <1>1, <1>2 DEF ZoneRun

\* The same for a fold that takes the least number first, from the end of q.
FollowsBack(F, n, a, A, step, q) ==
    /\ F[{}] = a
    /\ \A x \in SUBSET (1..n) : x # {} /\ F[x \ {Min(x)}] \in A =>
           F[x] = step[<<F[x \ {Min(x)}], q[Min(x)]>>]

RunBack(g, n, a, A, step, q, b) ==
    /\ g \in [0..n -> A] /\ g[0] = a /\ g[n] = b
    /\ \A k \in 1..n : g[k] = step[<<g[k - 1], q[n + 1 - k]>>]

\* The same for a fold from the right.
LEMMA FoldRunsBack ==
    ASSUME NEW A, NEW B, NEW step \in [A \X B -> A], NEW a \in A, NEW n \in Nat,
           NEW q \in [1..n -> B], NEW F, FollowsBack(F, n, a, A, step, q)
    PROVE  \E g : RunBack(g, n, a, A, step, q, F[1..n])
<1> DEFINE g == [k \in 0..n |-> F[(n + 1 - k)..n]]
           K == {k \in 0..n : g[k] \in A}
<1>1. g[0] = a /\ g[n] = F[1..n]
  <2>1. (n + 1 - 0)..n = {} /\ 0 \in 0..n /\ n \in 0..n /\ n + 1 - n = 1
    OBVIOUS
  <2>2. F[{}] = a
    BY DEF FollowsBack
  <2>3. g[0] = F[(n + 1 - 0)..n] /\ g[n] = F[(n + 1 - n)..n]
    BY <2>1
  <2> HIDE DEF g
  <2> QED
    BY <2>1, <2>2, <2>3
<1>2. ASSUME NEW k \in 1..n, g[k - 1] \in A PROVE g[k] = step[<<g[k - 1], q[n + 1 - k]>>]
  <2> DEFINE j == n + 1 - k
  <2>1. j \in 1..n /\ k \in 0..n /\ k - 1 \in 0..n /\ n + 1 - (k - 1) = j + 1
    OBVIOUS
  <2>2. g[k] = F[j..n] /\ g[k - 1] = F[(j + 1)..n]
    BY <2>1
  <2> HIDE DEF j, g
  <2>3. j..n \in SUBSET (1..n) /\ j..n # {} /\ Min(j..n) = j /\ (j..n) \ {j} = (j + 1)..n
    BY <2>1, MinOf
  <2>4. F[(j..n) \ {Min(j..n)}] \in A
    BY <1>2, <2>2, <2>3
  <2>5. F[j..n] = step[<<F[(j..n) \ {Min(j..n)}], q[Min(j..n)]>>]
    BY <2>3, <2>4 DEF FollowsBack
  <2>6. g[k] = step[<<g[k - 1], q[j]>>]
    BY <2>2, <2>3, <2>5
  <2> QED
    BY <2>6 DEF j
<1>3. \A k \in 0..n : g[k] \in A
  <2>1. 0 \in K
    BY <1>1
  <2>2. ASSUME NEW k \in 0..(n - 1), k \in K PROVE k + 1 \in K
    <3>1. k + 1 \in 1..n /\ (k + 1) - 1 = k /\ k + 1 \in 0..n /\ g[k] \in A /\ n + 1 - (k + 1) \in 1..n
      BY <2>2
    <3>2. g[k + 1] = step[<<g[k], q[n + 1 - (k + 1)]>>]
      <4> HIDE DEF g
      <4> QED
        BY <1>2, <3>1
    <3>3. q[n + 1 - (k + 1)] \in B
      BY <3>1
    <3>4. g[k + 1] \in A
      <4> HIDE DEF g
      <4> QED
        BY <3>1, <3>2, <3>3
    <3> QED
      BY <3>1, <3>4
  <2>3. \A k \in 0..n : k \in K
    <3> HIDE DEF K
    <3> QED
      BY <2>1, <2>2, CountUp
  <2> QED
    BY <2>3
<1>4. \A k \in 1..n : k - 1 \in 0..n
  OBVIOUS
<1>5. g \in [0..n -> A]
  BY <1>3
<1> HIDE DEF g
<1> QED
  BY <1>1, <1>2, <1>3, <1>4, <1>5 DEF RunBack

\* One zone of the table, unloaded if it is in zs.
UnloadOne(r, z, zs, copy, order) ==
    IF z \in zs THEN UnloadZoneAssets(r, z, copy, order) ELSE r

\* The loop over the table of zones, from its end.
ZonesRun(r, zs, copy, order, g) ==
    /\ g \in [0..Len(zones) -> AnyRegistry] /\ g[0] = r
    /\ g[Len(zones)] = UnloadZones(r, zs, copy, order)
    /\ \A k \in 1..Len(zones) :
           g[k] = UnloadOne(g[k - 1], zones[Len(zones) + 1 - k], zs, copy, order)

\* The registries the unload of several zones goes through, last loaded first.
LEMMA ZonesSteps ==
    ASSUME NEW r \in AnyRegistry, NEW zs, NEW copy \in BOOLEAN, NEW order \in Seq(Names),
           zones \in Seq(Zones)
    PROVE  \E g : ZonesRun(r, zs, copy, order, g)
<1> DEFINE A == AnyRegistry
           n == Len(zones)
           Op(t, x) == UnloadOne(t, x, zs, copy, order)
           step == [p \in A \X Zones |-> Op(p[1], p[2])]
           pick == [x \in SUBSET (1..n) |-> Min(x)]
           Is(F) == F = [x \in SUBSET (1..n) |->
                           IF x = {} THEN r ELSE Op(F[x \ {Min(x)}], zones[Min(x)])]
           end == UnloadZones(r, zs, copy, order)
<1>0. n \in Nat /\ DOMAIN zones = 1..n /\ (\A i \in 1..n : zones[i] \in Zones) /\ r \in A
      /\ zones \in [1..n -> Zones]
  OBVIOUS
<1>1. ASSUME NEW t \in A, NEW x \in Zones PROVE Op(t, x) \in A
  BY ZoneType DEF UnloadOne
<1>2. \A x \in SUBSET (1..n) : x # {} => pick[x] \in x /\ pick[x] = Min(x)
  BY <1>0, MinOf
<1>3. end = (CHOOSE F : Is(F))[1..n]
  BY <1>0 DEF UnloadZones, UnloadOne, FoldRight, MapThenFoldSet
<1> HIDE DEF A, n, Op, pick, end
<1>4. step \in [A \X Zones -> A] /\ \A t \in A, x \in Zones : step[<<t, x>>] = Op(t, x)
  BY <1>1
<1> HIDE DEF step
<1>5. PICK F0 \in [SUBSET (1..n) -> A] : Iterates(F0, n, r, step, zones, pick)
  <2>1. Picks(pick, n)
    BY <1>2 DEF Picks
  <2> QED
    BY <1>0, <1>4, <2>1, FoldExists
<1>6. Is(F0)
  <2>1. ASSUME NEW x \in SUBSET (1..n), x # {}
        PROVE  step[<<F0[x \ {pick[x]}], zones[pick[x]]>>] = Op(F0[x \ {Min(x)}], zones[Min(x)])
    <3>1. pick[x] = Min(x) /\ Min(x) \in 1..n /\ x \ {Min(x)} \in SUBSET (1..n)
      BY <1>2, <2>1
    <3>2. F0[x \ {Min(x)}] \in A /\ zones[Min(x)] \in Zones
      BY <1>0, <3>1
    <3> QED
      BY <1>4, <3>1, <3>2
  <2> QED
    BY <1>5, <2>1 DEF Iterates
<1>7. PICK F : end = F[1..n] /\ Is(F)
  <2> HIDE DEF Is
  <2> QED
    BY <1>3, <1>6
<1>8. FollowsBack(F, n, r, A, step, zones)
  <2>1. F[{}] = r
    <3>1. {} \in SUBSET (1..n)
      OBVIOUS
    <3> QED
      BY <1>7, <3>1
  <2>2. ASSUME NEW x \in SUBSET (1..n), x # {}, F[x \ {Min(x)}] \in A
        PROVE  F[x] = step[<<F[x \ {Min(x)}], zones[Min(x)]>>]
    <3>1. F[x] = Op(F[x \ {Min(x)}], zones[Min(x)])
      BY <1>7, <2>2
    <3>2. zones[Min(x)] \in Zones
      BY <1>0, <1>2, <2>2
    <3> QED
      BY <1>4, <2>2, <3>1, <3>2
  <2> QED
    BY <2>1, <2>2 DEF FollowsBack
<1>9. PICK g : RunBack(g, n, r, A, step, zones, F[1..n])
  BY <1>0, <1>4, <1>8, FoldRunsBack
<1>10. \A k \in 1..n : g[k] = Op(g[k - 1], zones[n + 1 - k])
  <2> TAKE k \in 1..n
  <2>1. k - 1 \in 0..n /\ n + 1 - k \in 1..n
    BY <1>0
  <2>2. g[k - 1] \in A /\ zones[n + 1 - k] \in Zones /\ g[k] = step[<<g[k - 1], zones[n + 1 - k]>>]
    BY <1>0, <1>9, <2>1 DEF RunBack
  <2> QED
    BY <1>4, <2>2
<1>11. ZonesRun(r, zs, copy, order, g)
  <2> HIDE DEF Is
  <2>1. g \in [0..n -> A] /\ g[0] = r /\ g[n] = end
    BY <1>7, <1>9 DEF RunBack
  <2> QED
    BY <1>10, <2>1 DEF ZonesRun, Op, A, n, end
<1> QED
  BY <1>11

-----------------------------------------------------------------------------
(* Linking what is deferred *)

\* Each entry in one place, each chain in order.
Sound(r, X, zs) ==
    /\ r \in AnyRegistry /\ X \subseteq Entries /\ Apart(r, X)
    /\ zs \in Seq(Zones) /\ Once(zs)
    /\ \A n \in Names : Ordered(Line(r, n), zs)

\* No entry is missing, and the references are counted, but for d of them.
Fine(r, X, zs, d) == Sound(r, X, zs) /\ Cover(r, X) /\ d \in Nat /\ Refs(r, d)

Counts(r, s, n) ==
    s.refs = r.refs + (IF IsCopy(s, n) THEN 1 ELSE 0) - (IF IsCopy(r, n) THEN 1 ELSE 0)

\* A step on one chain that leaves it ordered leaves the registry sound.
LEMMA SoundStep ==
    ASSUME NEW r, NEW s, NEW n \in Names, NEW X, NEW Y, NEW zs,
           Sound(r, X, zs), Shape(r, s, n, X, Y), Ordered(Line(s, n), zs)
    PROVE  Sound(s, X \ Y, zs)
<1>1. Apart(s, X \ Y) /\ \A m \in Names \ {n} : SameAt(r, s, m)
  BY ShapeKeeps
<1>2. \A m \in Names \ {n} : Line(s, m) = Line(r, m)
  BY <1>1 DEF SameAt
<1>3. s \in AnyRegistry
  BY DEF Shape
<1> QED
  BY <1>1, <1>2, <1>3 DEF Sound

\* With the count it keeps, it leaves it fine.
LEMMA FineStep ==
    ASSUME NEW r, NEW s, NEW n \in Names, NEW X, NEW Y, NEW zs, NEW d,
           Fine(r, X, zs, d), Shape(r, s, n, X, Y), Ordered(Line(s, n), zs), Counts(r, s, n)
    PROVE  Fine(s, X \ Y, zs, d) /\ s.lost = r.lost
<1>1. Sound(r, X, zs) /\ Cover(r, X) /\ d \in Nat /\ Refs(r, d)
  BY DEF Fine
<1>2. Sound(s, X \ Y, zs)
  BY <1>1, SoundStep
<1>3. Cover(s, X \ Y)
  BY <1>1, ShapeKeeps
<1>4. s.refs = r.refs + (IF IsCopy(s, n) THEN 1 ELSE 0) - (IF IsCopy(r, n) THEN 1 ELSE 0)
  BY DEF Counts
<1>5. Refs(s, d)
  BY <1>1, <1>4, ShapeRefs
<1>6. s.lost = r.lost
  BY DEF Shape, Within
<1> QED
  BY <1>1, <1>2, <1>3, <1>5, <1>6 DEF Fine

\* The entries and the zones of the links that wait after the first k of q.
Wait(q, k) == {q[j].entry : j \in (k + 1)..Len(q)}

Waits(r, q, k, n, z) == \E j \in (k + 1)..Len(q) : q[j].name = n /\ r.zone[q[j].entry] = z

\* A chain is there for each, with no zone of its priority that is newer; and links of
\* one name wait in the order in which their zones were loaded.
Pending(r, q, k, zs) ==
    /\ \A j \in (k + 1)..Len(q) : /\ r.chain[q[j].name] # <<>>
                                  /\ r.zone[q[j].entry] \in ToSet(zs)
                                  /\ Newest(r, q[j].name, r.zone[q[j].entry], zs)
    /\ \A i, j \in (k + 1)..Len(q) : i < j /\ q[i].name = q[j].name =>
           Later(zs, r.zone[q[j].entry], r.zone[q[i].entry])

\* The pairs of W are the names and the zones that have an asset, in a chain or waiting.
Owned(r, q, k, W) ==
    \A n \in Names, z \in Zones : (z \in Zoned(r, n) \/ Waits(r, q, k, n, z)) <=> <<n, z>> \in W

Spread(q) == q \in Seq(Links) /\ \A i, j \in 1..Len(q) : q[i].entry = q[j].entry => i = j

Flowing(r, q, k, zs, W, d) ==
    /\ Spread(q) /\ Fine(r, Wait(q, k), zs, d) /\ Pending(r, q, k, zs) /\ Owned(r, q, k, W)

\* No chain that is there goes, nor its head; and what the heads lose is told.
KeptUp(r, s) ==
    /\ r.told \subseteq s.told
    /\ \A n \in Names : r.chain[n] # <<>> => s.chain[n] # <<>> /\ HeadStays(r, s, n)

\* The queue of deferred links without its first.
LEMMA WaitLess ==
    ASSUME NEW q, Spread(q), NEW k \in 0..(Len(q) - 1)
    PROVE  /\ k + 1 \in 1..Len(q) /\ q[k + 1].entry \in Wait(q, k)
           /\ q[k + 1].name \in Names /\ q[k + 1].entry \in Entries
           /\ Wait(q, k + 1) = Wait(q, k) \ {q[k + 1].entry}
           /\ k + 1 \in (k + 1)..Len(q)
           /\ \A j \in (k + 1 + 1)..Len(q) : /\ j \in (k + 1)..Len(q) /\ k + 1 < j
                                             /\ q[j].name \in Names /\ q[j].entry \in Entries
                                             /\ q[j].entry \in Wait(q, k) \ {q[k + 1].entry}
           /\ \A j \in (k + 1)..Len(q) : j = k + 1 \/ j \in (k + 1 + 1)..Len(q)
<1>1. q \in Seq(Links) /\ Len(q) \in Nat /\ \A i \in 1..Len(q) : q[i] \in Links
  BY DEF Spread
<1>2. \A i \in 1..Len(q) : q[i].name \in Names /\ q[i].entry \in Entries
  BY <1>1 DEF Links
<1>3. k + 1 \in 1..Len(q) /\ k + 1 \in (k + 1)..Len(q)
  BY <1>1
<1>4. \A j \in (k + 1 + 1)..Len(q) : j \in (k + 1)..Len(q) /\ k + 1 < j /\ j \in 1..Len(q) /\ j # k + 1
  BY <1>1
<1>5. \A j \in (k + 1)..Len(q) : j = k + 1 \/ j \in (k + 1 + 1)..Len(q)
  BY <1>1
<1>6. \A j \in (k + 1 + 1)..Len(q) : q[j].entry # q[k + 1].entry
  BY <1>3, <1>4 DEF Spread
<1>7. Wait(q, k + 1) = Wait(q, k) \ {q[k + 1].entry}
  BY <1>4, <1>5, <1>6 DEF Wait
<1>8. \A j \in (k + 1 + 1)..Len(q) : q[j].entry \in Wait(q, k)
  BY <1>4 DEF Wait
<1>9. q[k + 1].entry \in Wait(q, k)
  BY <1>3 DEF Wait
<1> QED
  BY <1>2, <1>3, <1>4, <1>5, <1>6, <1>7, <1>8, <1>9

\* What one link leaves, when it is linked as ArbitrateTakes says.
LEMMA FlushReady ==
    ASSUME NEW r, NEW q, NEW k \in 0..(Len(q) - 1), NEW zs, NEW W, NEW d,
           Flowing(r, q, k, zs, W, d)
    PROVE  Ready(r, q[k + 1].name, Wait(q, k), q[k + 1].entry, zs)
<1>1. /\ Spread(q) /\ Sound(r, Wait(q, k), zs) /\ Pending(r, q, k, zs)
  BY DEF Flowing, Fine
<1>2. q[k + 1].entry \in Wait(q, k) /\ q[k + 1].name \in Names /\ k + 1 \in (k + 1)..Len(q)
  BY <1>1, WaitLess
<1> QED
  BY <1>1, <1>2 DEF Ready, Sound, Pending

\* Applying the first of the deferred links.
LEMMA FlushStep ==
    ASSUME NEW r, NEW q, NEW k \in 0..(Len(q) - 1), NEW zs, NEW W, NEW d,
           Flowing(r, q, k, zs, W, d)
    PROVE  LET s == Arbitrate(r, q[k + 1].name, q[k + 1].entry)
           IN  Flowing(s, q, k + 1, zs, W, d) /\ KeptUp(r, s) /\ s.lost = r.lost
<1> DEFINE n == q[k + 1].name
           e == q[k + 1].entry
           X == Wait(q, k)
           s == Arbitrate(r, n, e)
           z == r.zone[e]
<1>1. Spread(q) /\ Fine(r, X, zs, d) /\ Pending(r, q, k, zs) /\ Owned(r, q, k, W)
  BY DEF Flowing
<1>2. /\ e \in X /\ n \in Names /\ e \in Entries
      /\ Wait(q, k + 1) = X \ {e} /\ k + 1 \in (k + 1)..Len(q)
      /\ \A j \in (k + 1 + 1)..Len(q) : /\ j \in (k + 1)..Len(q) /\ k + 1 < j
                                        /\ q[j].name \in Names /\ q[j].entry \in Entries
                                        /\ q[j].entry \in X \ {e}
      /\ \A j \in (k + 1)..Len(q) : j = k + 1 \/ j \in (k + 1 + 1)..Len(q)
  BY <1>1, WaitLess
<1>3. Ready(r, n, X, e, zs)
  BY FlushReady
<1> HIDE DEF n, e, X
<1>4. Shape(r, s, n, X, {e}) /\ Took(r, s, n, e) /\ Ordered(Line(s, n), zs)
  BY <1>2, <1>3, ArbitrateTakes
<1> HIDE DEF s
<1>5. Counts(r, s, n)
  BY <1>4 DEF Took, Counts
<1>6. Fine(s, X \ {e}, zs, d) /\ s.lost = r.lost
  BY <1>1, <1>2, <1>4, <1>5, FineStep
<1>7. /\ \A m \in Names \ {n} : SameAt(r, s, m)
      /\ \A x \in X \ {e} : s.zone[x] = r.zone[x] /\ s.data[x] = r.data[x]
  <2>1. n \in Names
    BY <1>2
  <2> DEFINE Y == {e}
  <2>2. Shape(r, s, n, X, Y)
    BY <1>4
  <2> HIDE DEF z, Y
  <2>3. \A m \in Names \ {n} : SameAt(r, s, m)
    BY <2>1, <2>2, ShapeKeeps
  <2>4. \A x \in X \ Y : x \in Entries \ (Of(r, n) \cup Y)
    <3>1. Of(r, n) \subseteq InChains(r) /\ X \subseteq Entries /\ InChains(r) \cap X = {}
      BY <1>3, <2>1, OfBasics DEF Ready, Apart
    <3> QED
      BY <3>1
  <2>5. \A x \in X \ Y : s.zone[x] = r.zone[x] /\ s.data[x] = r.data[x]
    BY <2>2, <2>4 DEF Shape, Within
  <2> QED
    BY <2>3, <2>5 DEF Y
<1>8. \A m \in Names \ {n} : Zoned(s, m) = Zoned(r, m) /\ s.chain[m] = r.chain[m]
  BY <1>7 DEF SameAt
<1>9. /\ s.chain[n] # <<>> /\ Zoned(s, n) = (Zoned(r, n) \ {0}) \cup {z}
      /\ r.told \subseteq s.told
      /\ r.chain[n] # <<>> => HeadStays(r, s, n)
  BY <1>4 DEF Took
<1>10. z \in Zones /\ z # 0
  BY <1>2, <1>3, ReadyBasics
<1>11. q[k + 1].name = n /\ q[k + 1].entry = e /\ r.zone[e] = z
  BY DEF n, e
<1> HIDE DEF z
<1>12. \A j \in (k + 1 + 1)..Len(q) : s.zone[q[j].entry] = r.zone[q[j].entry]
  BY <1>2, <1>7
<1>13. Pending(s, q, k + 1, zs)
  <2>1. ASSUME NEW j \in (k + 1 + 1)..Len(q)
        PROVE  /\ s.chain[q[j].name] # <<>> /\ s.zone[q[j].entry] \in ToSet(zs)
               /\ Newest(s, q[j].name, s.zone[q[j].entry], zs)
    <3>1. /\ r.chain[q[j].name] # <<>> /\ r.zone[q[j].entry] \in ToSet(zs)
          /\ Newest(r, q[j].name, r.zone[q[j].entry], zs)
          /\ q[k + 1].name = q[j].name => Later(zs, r.zone[q[j].entry], r.zone[q[k + 1].entry])
          /\ q[j].name \in Names /\ s.zone[q[j].entry] = r.zone[q[j].entry]
      BY <1>1, <1>2, <1>12 DEF Pending
    <3>2. CASE q[j].name # n
      BY <1>8, <3>1, <3>2 DEF Newest
    <3>3. CASE q[j].name = n
      <4>1. Newest(r, n, r.zone[q[j].entry], zs) /\ Later(zs, r.zone[q[j].entry], z)
        BY <1>11, <3>1, <3>3
      <4>2. Newest(s, n, r.zone[q[j].entry], zs)
        BY <1>9, <4>1 DEF Newest
      <4> QED
        BY <1>9, <3>1, <3>3, <4>2
    <3> QED
      BY <3>2, <3>3
  <2>2. ASSUME NEW i \in (k + 1 + 1)..Len(q), NEW j \in (k + 1 + 1)..Len(q),
               i < j, q[i].name = q[j].name
        PROVE  Later(zs, s.zone[q[j].entry], s.zone[q[i].entry])
    BY <1>1, <1>2, <1>12, <2>2 DEF Pending
  <2> QED
    BY <2>1, <2>2 DEF Pending
<1>14. Owned(s, q, k + 1, W)
  <2>1. ASSUME NEW m \in Names, NEW y \in Zones
        PROVE  (y \in Zoned(s, m) \/ Waits(s, q, k + 1, m, y))
               <=> (y \in Zoned(r, m) \/ Waits(r, q, k, m, y))
    <3>1. Waits(r, q, k, m, y) <=> (m = n /\ y = z) \/ Waits(s, q, k + 1, m, y)
      <4>1. Waits(s, q, k + 1, m, y) => Waits(r, q, k, m, y)
        BY <1>2, <1>12 DEF Waits
      <4>2. m = n /\ y = z => Waits(r, q, k, m, y)
        BY <1>2, <1>11 DEF Waits
      <4>3. Waits(r, q, k, m, y) => (m = n /\ y = z) \/ Waits(s, q, k + 1, m, y)
        BY <1>2, <1>11, <1>12 DEF Waits
      <4> QED
        BY <4>1, <4>2, <4>3
    <3>2. y # 0
      BY RegistryAssumption
    <3>3. CASE m # n
      BY <1>8, <3>1, <3>3
    <3>4. CASE m = n
      BY <1>9, <3>1, <3>2, <3>4
    <3> QED
      BY <3>3, <3>4
  <2> QED
    BY <1>1, <2>1 DEF Owned
<1>15. KeptUp(r, s)
  <2>1. ASSUME NEW m \in Names \ {n}, r.chain[m] # <<>> PROVE s.chain[m] # <<>> /\ HeadStays(r, s, m)
    <3>1. HeadOf(r, m) \in Of(r, m)
      BY <1>3, <2>1, OfBasics DEF Ready
    <3> QED
      BY <1>7, <2>1, <3>1 DEF SameAt, HeadStays
  <2> QED
    BY <1>9, <2>1 DEF KeptUp
<1>16. Flowing(s, q, k + 1, zs, W, d)
  BY <1>1, <1>2, <1>6, <1>13, <1>14 DEF Flowing
<1> QED
  BY <1>6, <1>15, <1>16 DEF s, n, e

\* Two steps after which no head is gone, one after the other.
LEMMA KeptUpJoins ==
    ASSUME NEW r, NEW s, NEW t, KeptUp(r, s), KeptUp(s, t)
    PROVE  KeptUp(r, t)
<1>1. r.told \subseteq s.told /\ s.told \subseteq t.told
  BY DEF KeptUp
<1>2. ASSUME NEW n \in Names, r.chain[n] # <<>> PROVE t.chain[n] # <<>> /\ HeadStays(r, t, n)
  <2>1. s.chain[n] # <<>> /\ HeadStays(r, s, n)
    BY <1>2 DEF KeptUp
  <2>2. t.chain[n] # <<>> /\ HeadStays(s, t, n)
    BY <2>1 DEF KeptUp
  <2> QED
    BY <1>1, <2>1, <2>2 DEF HeadStays
<1> QED
  BY <1>1, <1>2 DEF KeptUp

\* A step that changes nothing.
LEMMA KeptUpSelf ==
    ASSUME NEW r PROVE KeptUp(r, r)
<1> QED
  BY DEF KeptUp, HeadStays

\* DB_FlushCopyInfoQueue as a whole.
LEMMA FlushFlows ==
    ASSUME NEW r, NEW q, NEW zs, NEW W, NEW d, Flowing(r, q, 0, zs, W, d)
    PROVE  LET s == FlushAll(r, q)
           IN  Flowing(s, q, Len(q), zs, W, d) /\ KeptUp(r, s) /\ s.lost = r.lost
<1>1. r \in AnyRegistry /\ q \in Seq(Links) /\ Len(q) \in Nat
  BY DEF Flowing, Fine, Sound, Spread
<1>2. PICK g : FlushRun(r, q, g)
  BY <1>1, FlushSteps
<1> DEFINE n == Len(q)
           K == {k \in 0..n : Flowing(g[k], q, k, zs, W, d) /\ KeptUp(r, g[k]) /\ g[k].lost = r.lost}
<1>3. 0 \in K
  <2>1. g[0] = r /\ 0 \in 0..n
    BY <1>1, <1>2 DEF FlushRun
  <2> QED
    BY <2>1, KeptUpSelf
<1>4. ASSUME NEW k \in 0..(n - 1), k \in K PROVE k + 1 \in K
  <2>1. k + 1 \in 1..n /\ k + 1 \in 0..n /\ (k + 1) - 1 = k /\ k \in 0..(Len(q) - 1)
    BY <1>1
  <2>2. Flowing(g[k], q, k, zs, W, d) /\ KeptUp(r, g[k]) /\ g[k].lost = r.lost
    BY <1>4
  <2>3. g[k + 1] = Arbitrate(g[k], q[k + 1].name, q[k + 1].entry)
    BY <1>2, <2>1 DEF FlushRun
  <2> HIDE DEF K, n
  <2>4. LET s == Arbitrate(g[k], q[k + 1].name, q[k + 1].entry)
        IN  Flowing(s, q, k + 1, zs, W, d) /\ KeptUp(g[k], s) /\ s.lost = g[k].lost
    BY <2>1, <2>2, FlushStep
  <2>5. KeptUp(r, g[k + 1])
    BY <2>2, <2>3, <2>4, KeptUpJoins
  <2> QED
    BY <2>1, <2>2, <2>3, <2>4, <2>5 DEF K
<1>5. \A k \in 0..n : k \in K
  <2> HIDE DEF K
  <2> QED
    BY <1>1, <1>3, <1>4, CountUp
<1>6. n \in K /\ g[n] = FlushAll(r, q)
  <2>1. n \in 0..n
    BY <1>1
  <2> QED
    BY <1>2, <1>5, <2>1 DEF FlushRun
<1> QED
  BY <1>6

-----------------------------------------------------------------------------
(* Unloading zones *)

\* The chains of the names in N have lost the zones in Z.
Purged(r, s, N, Z) ==
    \A n \in Names : Zoned(s, n) \ {0} = (Zoned(r, n) \ {0}) \ (IF n \in N THEN Z ELSE {})

\* No head is put into a chain; and what a head that stays loses is told.
KeptDown(r, s) ==
    /\ r.told \subseteq s.told
    /\ \A n \in Names : s.chain[n] # <<>> => r.chain[n] # <<>> /\ HeadStays(r, s, n)

\* Two steps of an unload, one after the other.
LEMMA KeptDownJoins ==
    ASSUME NEW r, NEW s, NEW t, KeptDown(r, s), KeptDown(s, t)
    PROVE  KeptDown(r, t)
<1>1. r.told \subseteq s.told /\ s.told \subseteq t.told
  BY DEF KeptDown
<1>2. ASSUME NEW n \in Names, t.chain[n] # <<>> PROVE r.chain[n] # <<>> /\ HeadStays(r, t, n)
  <2>1. s.chain[n] # <<>> /\ HeadStays(s, t, n)
    BY <1>2 DEF KeptDown
  <2>2. r.chain[n] # <<>> /\ HeadStays(r, s, n)
    BY <2>1 DEF KeptDown
  <2> QED
    BY <1>1, <2>1, <2>2 DEF HeadStays
<1> QED
  BY <1>1, <1>2 DEF KeptDown

\* A step that changes nothing.
LEMMA KeptDownSelf ==
    ASSUME NEW r PROVE KeptDown(r, r)
<1> QED
  BY DEF KeptDown, HeadStays

\* One name of one zone.
LEMMA UnloadStep ==
    ASSUME NEW r, NEW n \in Names, NEW zs, NEW d, Fine(r, {}, zs, d), NEW z \in Zones,
           NEW copy \in BOOLEAN
    PROVE  LET s == UnloadName(r, n, z, copy)
           IN  /\ Fine(s, {}, zs, d) /\ s.lost = r.lost /\ Purged(r, s, {n}, {z})
               /\ copy => KeptDown(r, s)
<1> DEFINE s == UnloadName(r, n, z, copy)
           X == {}
<1>0. Fine(r, X, zs, d)
  OBVIOUS
<1> HIDE DEF X
<1>1. Whole(r, n, X, zs)
  BY <1>0 DEF Fine, Sound, Whole
<1>2. Shape(r, s, n, X, {}) /\ Rid(r, s, n, z, copy) /\ Ordered(Line(s, n), zs)
  BY <1>1, UnloadRids
<1> HIDE DEF s
<1>3. Counts(r, s, n)
  BY <1>2 DEF Rid, Counts
<1>4. Fine(s, X \ {}, zs, d) /\ s.lost = r.lost
  <2> DEFINE Y == {}
  <2>1. Shape(r, s, n, X, Y) /\ Ordered(Line(s, n), zs)
    BY <1>2
  <2> HIDE DEF Y
  <2>2. Fine(s, X \ Y, zs, d) /\ s.lost = r.lost
    BY <1>0, <1>3, <2>1, FineStep
  <2> QED
    BY <2>2 DEF Y
<1>5. \A m \in Names \ {n} : SameAt(r, s, m)
  <2> DEFINE Y == {}
  <2>1. Shape(r, s, n, X, Y)
    BY <1>2
  <2> HIDE DEF Y
  <2> QED
    BY <2>1, ShapeKeeps
<1>6. Purged(r, s, {n}, {z})
  <2>1. \A m \in Names \ {n} : Zoned(s, m) = Zoned(r, m)
    BY <1>5 DEF SameAt
  <2>2. Zoned(s, n) \ {0} = (Zoned(r, n) \ {0}) \ {z}
    BY <1>2 DEF Rid
  <2> QED
    BY <2>1, <2>2 DEF Purged
<1>7. ASSUME copy PROVE KeptDown(r, s)
  <2>1. ASSUME NEW m \in Names \ {n}, s.chain[m] # <<>> PROVE r.chain[m] # <<>> /\ HeadStays(r, s, m)
    <3>1. SameAt(r, s, m) /\ r \in AnyRegistry
      BY <1>1, <1>5 DEF Whole
    <3>2. r.chain[m] # <<>> /\ HeadOf(r, m) \in Of(r, m)
      BY <2>1, <3>1, OfBasics DEF SameAt
    <3> QED
      BY <3>1, <3>2 DEF SameAt, HeadStays
  <2>2. /\ r.told \subseteq s.told
        /\ s.chain[n] # <<>> => r.chain[n] # <<>> /\ HeadStays(r, s, n)
    BY <1>2, <1>7 DEF Rid
  <2> QED
    BY <2>1, <2>2 DEF KeptDown
<1> QED
  BY <1>4, <1>6, <1>7 DEF s, X

\* The same zones taken from more names.
LEMMA PurgedJoins ==
    ASSUME NEW r, NEW s, NEW t, NEW M, NEW N, NEW Z, Purged(r, s, M, Z), Purged(s, t, N, Z)
    PROVE  Purged(r, t, M \cup N, Z)
<1>1. ASSUME NEW n \in Names
      PROVE  Zoned(t, n) \ {0} = (Zoned(r, n) \ {0}) \ (IF n \in M \cup N THEN Z ELSE {})
  <2>1. Zoned(s, n) \ {0} = (Zoned(r, n) \ {0}) \ (IF n \in M THEN Z ELSE {})
    BY DEF Purged
  <2>2. Zoned(t, n) \ {0} = (Zoned(s, n) \ {0}) \ (IF n \in N THEN Z ELSE {})
    BY DEF Purged
  <2>3. CASE n \in M
    BY <2>1, <2>2, <2>3
  <2>4. CASE n \notin M
    BY <2>1, <2>2, <2>4
  <2> QED
    BY <2>3, <2>4
<1> QED
  BY <1>1 DEF Purged

\* More zones taken from all names.
LEMMA PurgedUnites ==
    ASSUME NEW r, NEW s, NEW t, NEW Y, NEW Z, Purged(r, s, Names, Y), Purged(s, t, Names, Z)
    PROVE  Purged(r, t, Names, Y \cup Z)
<1>1. ASSUME NEW n \in Names
      PROVE  Zoned(t, n) \ {0} = (Zoned(r, n) \ {0}) \ (Y \cup Z)
  <2>1. Zoned(s, n) \ {0} = (Zoned(r, n) \ {0}) \ Y
    BY DEF Purged
  <2>2. Zoned(t, n) \ {0} = (Zoned(s, n) \ {0}) \ Z
    BY DEF Purged
  <2> QED
    BY <2>1, <2>2
<1> QED
  BY <1>1 DEF Purged

\* Nothing taken.
LEMMA PurgedSelf ==
    ASSUME NEW r, NEW N PROVE Purged(r, r, N, {})
<1> QED
  BY DEF Purged

\* An order of the names leaves none of them out.
LEMMA OrderCovers ==
    ASSUME NEW order \in SetToSeqs(Names)
    PROVE  order \in Seq(Names) /\ Elems(order) = Names
<1>1. IsFiniteSet(Names) /\ Cardinality(Names) \in Nat
  BY RegistryAssumption, FS_CardinalityType
<1> DEFINE n == Cardinality(Names)
<1>2. order \in [1..n -> Names] /\ \A i, j \in 1..n : order[i] = order[j] => i = j
  BY DEF SetToSeqs, IsInjective
<1> HIDE DEF n
<1>3. n \in Nat /\ n = Cardinality(Names)
  BY <1>1 DEF n
<1>4. order \in Seq(Names) /\ Len(order) = n
  BY <1>2, <1>3
<1>5. IsFiniteSet(1..n) /\ Cardinality(1..n) = n
  BY <1>3, FS_Interval
<1>6. order \in Injection(1..n, Names)
  BY <1>2 DEF Injection, IsInjective
<1>7. \A x \in Names : \E i \in 1..n : order[i] = x
  <2> SUFFICES ASSUME NEW x \in Names, \A i \in 1..n : order[i] # x
               PROVE FALSE
    OBVIOUS
  <2> DEFINE T == Names \ {x}
  <2>1. IsFiniteSet(T) /\ Cardinality(T) = n - 1
    BY <1>1, <1>3, FS_RemoveElement
  <2>2. order \in [1..n -> T]
    BY <1>2
  <2>3. Cardinality(1..n) > Cardinality(T)
    BY <1>3, <1>5, <2>1
  <2> HIDE DEF T
  <2>4. \E i, j \in 1..n : i # j /\ order[i] = order[j]
    BY <1>5, <2>1, <2>2, <2>3, FS_PigeonHole
  <2> QED
    BY <1>2, <2>4
<1> QED
  BY <1>2, <1>4, <1>7 DEF Elems

\* DB_UnloadZoneAssets and the loop of DB_UnloadXAssetZones, as wholes.
LEMMA UnloadZone ==
    ASSUME NEW r, NEW zs, NEW d, Fine(r, {}, zs, d), NEW z \in Zones,
           NEW copy \in BOOLEAN, NEW order \in SetToSeqs(Names)
    PROVE  LET s == UnloadZoneAssets(r, z, copy, order)
           IN  /\ Fine(s, {}, zs, d) /\ s.lost = r.lost /\ Purged(r, s, Names, {z})
               /\ copy => KeptDown(r, s)
<1>1. order \in Seq(Names) /\ Elems(order) = Names /\ Len(order) \in Nat
  BY OrderCovers
<1>2. r \in AnyRegistry
  BY DEF Fine, Sound
<1>3. PICK g : ZoneRun(r, z, copy, order, g)
  BY <1>1, <1>2, ZoneSteps
<1> DEFINE n == Len(order)
           N(k) == {order[i] : i \in 1..k}
           Z == {z}
           K == {k \in 0..n : /\ Fine(g[k], {}, zs, d) /\ g[k].lost = r.lost
                              /\ Purged(r, g[k], N(k), Z)
                              /\ copy => KeptDown(r, g[k])}
<1>4. 0 \in K
  <2>1. g[0] = r /\ 0 \in 0..n
    BY <1>1, <1>3 DEF ZoneRun
  <2>2. N(0) = {}
    OBVIOUS
  <2>3. Purged(r, r, {}, Z)
    BY DEF Purged
  <2>4. KeptDown(r, r)
    BY KeptDownSelf
  <2> HIDE DEF N, Z
  <2> QED
    BY <2>1, <2>2, <2>3, <2>4
<1>5. ASSUME NEW k \in 0..(n - 1), k \in K PROVE k + 1 \in K
  <2> DEFINE t == g[k]
             m == order[k + 1]
             s == UnloadName(t, m, z, copy)
  <2>1. k + 1 \in 1..n /\ k + 1 \in 0..n /\ (k + 1) - 1 = k
    BY <1>1
  <2>2. /\ Fine(t, {}, zs, d) /\ t.lost = r.lost /\ Purged(r, t, N(k), Z)
        /\ copy => KeptDown(r, t)
    BY <1>5
  <2>3. m \in Names
    BY <1>1, <2>1
  <2>4. g[k + 1] = s
    <3>1. g[k + 1] = UnloadName(g[(k + 1) - 1], order[k + 1], z, copy)
      BY <1>3, <2>1 DEF ZoneRun
    <3> QED
      BY <2>1, <3>1
  <2>5. N(k + 1) = N(k) \cup {m}
    <3>1. 1..(k + 1) = (1..k) \cup {k + 1}
      BY <2>1
    <3> QED
      BY <3>1
  <2> HIDE DEF K, n, N, t, m
  <2>6. /\ Fine(s, {}, zs, d) /\ s.lost = t.lost /\ Purged(t, s, {m}, {z})
        /\ copy => KeptDown(t, s)
    BY <2>2, <2>3, UnloadStep
  <2> HIDE DEF s
  <2>7. Purged(r, s, N(k) \cup {m}, Z)
    <3> DEFINE M == N(k)
               O == {m}
    <3>1. Purged(r, t, M, Z) /\ Purged(t, s, O, Z)
      BY <2>2, <2>6
    <3> HIDE DEF M, O, Z
    <3>2. Purged(r, s, M \cup O, Z)
      BY <3>1, PurgedJoins
    <3> QED
      BY <3>2 DEF M, O
  <2>8. copy => KeptDown(r, s)
    BY <2>2, <2>6, KeptDownJoins
  <2> QED
    BY <2>1, <2>2, <2>4, <2>5, <2>6, <2>7, <2>8 DEF K
<1>6. \A k \in 0..n : k \in K
  <2> HIDE DEF K
  <2> QED
    BY <1>1, <1>4, <1>5, CountUp
<1>7. n \in K /\ g[n] = UnloadZoneAssets(r, z, copy, order)
  <2>1. n \in 0..n
    BY <1>1
  <2> QED
    BY <1>3, <1>6, <2>1 DEF ZoneRun
<1>8. N(n) = Names
  BY <1>1 DEF Elems
<1> QED
  BY <1>7, <1>8

\* Unloading several zones: the accounts hold, and the zones are gone.
LEMMA UnloadMany ==
    ASSUME NEW r, NEW d, Fine(r, {}, zones, d), NEW zs, NEW copy \in BOOLEAN,
           NEW order \in SetToSeqs(Names)
    PROVE  LET s == UnloadZones(r, zs, copy, order)
           IN  /\ Fine(s, {}, zones, d) /\ s.lost = r.lost
               /\ Purged(r, s, Names, Elems(zones) \cap zs)
               /\ copy => KeptDown(r, s)
<1>1. order \in Seq(Names)
  BY OrderCovers
<1>2. r \in AnyRegistry /\ zones \in Seq(Zones) /\ Len(zones) \in Nat
  BY DEF Fine, Sound
<1>3. PICK g : ZonesRun(r, zs, copy, order, g)
  BY <1>1, <1>2, ZonesSteps
<1> DEFINE n == Len(zones)
           Z(k) == {zones[i] : i \in (n + 1 - k)..n} \cap zs
           K == {k \in 0..n : /\ Fine(g[k], {}, zones, d) /\ g[k].lost = r.lost
                              /\ Purged(r, g[k], Names, Z(k))
                              /\ copy => KeptDown(r, g[k])}
<1>4. 0 \in K
  <2>1. g[0] = r /\ 0 \in 0..n
    BY <1>2, <1>3 DEF ZonesRun
  <2>2. Z(0) = {}
    <3>1. (n + 1 - 0)..n = {}
      BY <1>2
    <3> QED
      BY <3>1
  <2>3. Purged(r, r, Names, {})
    BY PurgedSelf
  <2>4. KeptDown(r, r)
    BY KeptDownSelf
  <2> HIDE DEF Z, n
  <2> QED
    BY <2>1, <2>2, <2>3, <2>4
<1>5. ASSUME NEW k \in 0..(n - 1), k \in K PROVE k + 1 \in K
  <2> DEFINE t == g[k]
             z == zones[n - k]
             s == UnloadOne(t, z, zs, copy, order)
             V == {z} \cap zs
  <2>1. /\ k + 1 \in 1..n /\ k + 1 \in 0..n /\ (k + 1) - 1 = k /\ n + 1 - (k + 1) = n - k
        /\ n - k \in 1..n /\ (n + 1 - (k + 1))..n = ((n + 1 - k)..n) \cup {n - k}
    BY <1>2
  <2>2. /\ Fine(t, {}, zones, d) /\ t.lost = r.lost /\ Purged(r, t, Names, Z(k))
        /\ copy => KeptDown(r, t)
    BY <1>5
  <2>3. z \in Zones
    BY <1>2, <2>1
  <2>4. g[k + 1] = s
    <3>1. g[k + 1] = UnloadOne(g[(k + 1) - 1], zones[Len(zones) + 1 - (k + 1)], zs, copy, order)
      BY <1>3, <2>1 DEF ZonesRun
    <3> QED
      BY <2>1, <3>1
  <2>5. Z(k + 1) = Z(k) \cup V
    BY <2>1
  <2> HIDE DEF K, n, Z, t, z
  <2>6. /\ Fine(s, {}, zones, d) /\ s.lost = t.lost /\ Purged(t, s, Names, V)
        /\ copy => KeptDown(t, s)
    <3>1. CASE z \in zs
      <4>1. s = UnloadZoneAssets(t, z, copy, order) /\ V = {z}
        BY <3>1 DEF UnloadOne
      <4> HIDE DEF s, V
      <4>2. LET u == UnloadZoneAssets(t, z, copy, order)
            IN  /\ Fine(u, {}, zones, d) /\ u.lost = t.lost /\ Purged(t, u, Names, {z})
                /\ copy => KeptDown(t, u)
        BY <2>2, <2>3, UnloadZone
      <4> QED
        BY <4>1, <4>2
    <3>2. CASE z \notin zs
      <4>1. s = t /\ V = {}
        BY <3>2 DEF UnloadOne
      <4> HIDE DEF s, V
      <4>2. Purged(t, t, Names, {}) /\ KeptDown(t, t)
        BY PurgedSelf, KeptDownSelf
      <4> QED
        BY <2>2, <4>1, <4>2
    <3> QED
      BY <3>1, <3>2
  <2> HIDE DEF s, V
  <2>7. Purged(r, s, Names, Z(k) \cup V)
    BY <2>2, <2>6, PurgedUnites
  <2>8. copy => KeptDown(r, s)
    BY <2>2, <2>6, KeptDownJoins
  <2> QED
    BY <2>1, <2>2, <2>4, <2>5, <2>6, <2>7, <2>8 DEF K
<1>6. \A k \in 0..n : k \in K
  <2> HIDE DEF K
  <2> QED
    BY <1>2, <1>4, <1>5, CountUp
<1>7. n \in K /\ g[n] = UnloadZones(r, zs, copy, order)
  <2>1. n \in 0..n
    BY <1>2
  <2> QED
    BY <1>3, <1>6, <2>1 DEF ZonesRun
<1>8. Z(n) = Elems(zones) \cap zs
  <2>1. n + 1 - n = 1
    BY <1>2
  <2> QED
    BY <2>1 DEF Elems
<1> QED
  BY <1>7, <1>8

\* Two registries that differ in what has been told.
Retold(r, u) ==
    /\ u \in AnyRegistry
    /\ u.chain = r.chain /\ u.zone = r.zone /\ u.data = r.data /\ u.inuse = r.inuse
    /\ u.free = r.free /\ u.lost = r.lost /\ u.refs = r.refs

\* Nothing changes with what was told.
LEMMA RetoldSame ==
    ASSUME NEW r, NEW u, Retold(r, u)
    PROVE  /\ \A n : /\ Of(u, n) = Of(r, n) /\ Line(u, n) = Line(r, n) /\ Zoned(u, n) = Zoned(r, n)
                     /\ HeadOf(u, n) = HeadOf(r, n) /\ (IsCopy(u, n) <=> IsCopy(r, n))
           /\ InChains(u) = InChains(r) /\ Heads(u) = Heads(r) /\ Copies(u) = Copies(r)
           /\ \A X : /\ Apart(r, X) => Apart(u, X)
                     /\ Cover(r, X) => Cover(u, X)
           /\ \A d : Refs(r, d) => Refs(u, d)
<1>1. \A n : /\ Of(u, n) = Of(r, n) /\ Line(u, n) = Line(r, n)
             /\ HeadOf(u, n) = HeadOf(r, n)
  BY DEF Retold, Of, Line, HeadOf
<1>2. \A n : Zoned(u, n) = Zoned(r, n) /\ (IsCopy(u, n) <=> IsCopy(r, n))
  BY <1>1 DEF Retold, Zoned, IsCopy
<1>3. InChains(u) = InChains(r) /\ Heads(u) = Heads(r)
  BY <1>1 DEF Retold, InChains, Heads
<1>4. Copies(u) = Copies(r)
  BY <1>3 DEF Retold, Copies
<1>5. \A X : Apart(r, X) => Apart(u, X)
  <2>1. u.chain = r.chain /\ u.free = r.free /\ u.lost = r.lost
    BY DEF Retold
  <2> QED
    BY <1>1, <1>3, <2>1 DEF Apart
<1>6. \A X : Cover(r, X) => Cover(u, X)
  BY <1>3 DEF Retold, Cover
<1>7. \A d : Refs(r, d) => Refs(u, d)
  BY <1>4 DEF Retold, Refs
<1> QED
  BY <1>1, <1>2, <1>3, <1>4, <1>5, <1>6, <1>7

\* So the registry is as sound,
LEMMA RetoldSound ==
    ASSUME NEW r, NEW u, NEW X, NEW zs, Retold(r, u), Sound(r, X, zs)
    PROVE  Sound(u, X, zs)
<1>1. Apart(r, X)
  BY DEF Sound
<1>2. Apart(u, X)
  BY <1>1, RetoldSame
<1>3. \A n : Line(u, n) = Line(r, n)
  BY RetoldSame
<1> QED
  BY <1>2, <1>3 DEF Sound, Retold

\* and its accounts are as fine.
LEMMA RetoldFine ==
    ASSUME NEW r, NEW u, NEW X, NEW zs, NEW d, Retold(r, u), Fine(r, X, zs, d)
    PROVE  Fine(u, X, zs, d)
<1>1. Sound(r, X, zs) /\ Cover(r, X) /\ d \in Nat /\ Refs(r, d)
  BY DEF Fine
<1>2. Sound(u, X, zs)
  BY <1>1, RetoldSound
<1>3. Cover(u, X) /\ Refs(u, d)
  BY <1>1, RetoldSame
<1> QED
  BY <1>1, <1>2, <1>3 DEF Fine

-----------------------------------------------------------------------------
(* The sweeps over the heads *)

\* What unlinking a set of heads changes.
LEMMA DropGives ==
    ASSUME NEW r \in AnyRegistry, NEW S, S \subseteq Entries, Cardinality(S) \in Nat
    PROVE  LET s == Drop(r, S)
           IN  /\ s \in AnyRegistry
               /\ \A n \in Names : s.chain[n] = IF HeadOf(r, n) \in S THEN <<>> ELSE r.chain[n]
               /\ s.refs = r.refs - Cardinality(S)
               /\ s.inuse = r.inuse \ S /\ s.free = r.free \cup S
               /\ s.lost = r.lost /\ s.told = r.told
               /\ \A x \in Entries \ S : s.zone[x] = r.zone[x] /\ s.data[x] = r.data[x]
<1> DEFINE s == Drop(r, S)
           k == r.refs - Cardinality(S)
           chain == [n \in Names |-> IF HeadOf(r, n) \in S THEN <<>> ELSE r.chain[n]]
           t == [r EXCEPT !.refs = k, !.chain = chain]
<1>1. s = ReleaseAll(t, S)
  BY DEF Drop
<1>2. k \in Int
  BY DEF AnyRegistry
<1>3. chain \in [Names -> Seq(Entries)]
  BY DEF AnyRegistry
<1>4. \A n \in Names : chain[n] = IF HeadOf(r, n) \in S THEN <<>> ELSE r.chain[n]
  OBVIOUS
<1> HIDE DEF k, chain
<1>5. /\ t \in AnyRegistry /\ t.chain = chain /\ t.refs = k
      /\ t.zone = r.zone /\ t.data = r.data /\ t.inuse = r.inuse /\ t.free = r.free
      /\ t.lost = r.lost /\ t.told = r.told
  BY <1>2, <1>3 DEF AnyRegistry
<1> HIDE DEF s, t
<1>6. /\ ReleaseAll(t, S) \in AnyRegistry
      /\ ReleaseAll(t, S).chain = t.chain /\ ReleaseAll(t, S).refs = t.refs
      /\ ReleaseAll(t, S).inuse = t.inuse \ S /\ ReleaseAll(t, S).free = t.free \cup S
      /\ ReleaseAll(t, S).lost = t.lost /\ ReleaseAll(t, S).told = t.told
      /\ \A x \in Entries \ S : /\ ReleaseAll(t, S).zone[x] = t.zone[x]
                                /\ ReleaseAll(t, S).data[x] = t.data[x]
  BY <1>5, ReleaseIs
<1> QED
  BY <1>1, <1>4, <1>5, <1>6 DEF s, k

\* What a sweep that takes the copies in S leaves.
Swept(r, s, S) ==
    /\ \A n \in Names : s.chain[n] = IF HeadOf(r, n) \in S THEN <<>> ELSE r.chain[n]
    /\ \A n \in Names : HeadOf(r, n) \notin S =>
           \A x \in Of(r, n) : s.zone[x] = r.zone[x] /\ s.data[x] = r.data[x]
    /\ \A n \in Names : Zoned(s, n) \ {0} = Zoned(r, n) \ {0}

\* Unlinking default copies takes as many references as copies.
LEMMA Sweep ==
    ASSUME NEW r, NEW zs, NEW d, Fine(r, {}, zs, d), NEW S \in SUBSET Copies(r)
    PROVE  LET s == Drop(r, S)
           IN  Fine(s, {}, zs, d) /\ s.lost = r.lost /\ KeptDown(r, s) /\ Swept(r, s, S)
<1> DEFINE s == Drop(r, S)
<1>1. /\ r \in AnyRegistry /\ Apart(r, {}) /\ Cover(r, {}) /\ zs \in Seq(Zones) /\ Once(zs)
      /\ d \in Nat /\ Refs(r, d)
      /\ \A n \in Names : Ordered(Line(r, n), zs)
  BY DEF Fine, Sound
<1>2. IsFiniteSet(Copies(r)) /\ Cardinality(Copies(r)) \in Nat /\ Copies(r) \subseteq InChains(r)
  BY <1>1, CopiesFinite
<1>3. S \subseteq Entries /\ 0 \notin S
  <2>1. Names = {} \/ InChains(r) \subseteq Entries
    BY <1>1, OfBasics
  <2>2. Copies(r) \subseteq Entries
    BY <1>2, <2>1, CopiesAre
  <2> QED
    BY <2>2 DEF Entries
<1>4. Cardinality(S) \in Nat /\ Cardinality(Copies(r) \ S) = Cardinality(Copies(r)) - Cardinality(S)
  <2>1. IsFiniteSet(S)
    BY <1>2, FS_Subset
  <2>2. Copies(r) \cap S = S
    OBVIOUS
  <2> QED
    BY <1>2, <2>1, <2>2, FS_Difference, FS_CardinalityType
<1>5. /\ s \in AnyRegistry
      /\ \A n \in Names : s.chain[n] = IF HeadOf(r, n) \in S THEN <<>> ELSE r.chain[n]
      /\ s.refs = r.refs - Cardinality(S)
      /\ s.inuse = r.inuse \ S /\ s.free = r.free \cup S
      /\ s.lost = r.lost /\ s.told = r.told
      /\ \A x \in Entries \ S : s.zone[x] = r.zone[x] /\ s.data[x] = r.data[x]
  BY <1>1, <1>3, <1>4, DropGives
<1> HIDE DEF s
<1>6. ASSUME NEW n \in Names
      PROVE  /\ Of(r, n) \subseteq Entries /\ (r.chain[n] # <<>> => HeadOf(r, n) \in Of(r, n))
             /\ (r.chain[n] = <<>>) = (Of(r, n) = {})
             /\ (r.chain[n] = <<>> => HeadOf(r, n) = 0)
             /\ (IsCopy(r, n) => Of(r, n) = {HeadOf(r, n)} /\ Zoned(r, n) = {0})
  <2>1. /\ Of(r, n) \subseteq Entries /\ (r.chain[n] # <<>> => HeadOf(r, n) \in Of(r, n))
        /\ (r.chain[n] = <<>>) = (Of(r, n) = {})
    BY <1>1, OfBasics
  <2>2. r.chain[n] = <<>> => HeadOf(r, n) = 0
    BY DEF HeadOf, NoEntry
  <2>3. Ordered(Line(r, n), zs)
    BY <1>1
  <2>4. IsCopy(r, n) => Of(r, n) = {HeadOf(r, n)} /\ Zoned(r, n) = {0}
    BY <1>1, <2>3, CopyAlone
  <2> QED
    BY <2>1, <2>2, <2>4
<1>7. \A x \in S : \E m \in Names : IsCopy(r, m) /\ x = HeadOf(r, m)
  BY CopiesAre
<1>8. ASSUME NEW n \in Names, HeadOf(r, n) \in S PROVE IsCopy(r, n)
  <2>1. PICK m \in Names : IsCopy(r, m) /\ HeadOf(r, n) = HeadOf(r, m)
    BY <1>7, <1>8
  <2>2. r.chain[n] # <<>> /\ r.chain[m] # <<>>
    BY <1>3, <1>6, <1>8, <2>1 DEF IsCopy
  <2> QED
    BY <2>1, <2>2 DEF IsCopy
<1>9. ASSUME NEW n \in Names, HeadOf(r, n) \notin S PROVE Of(r, n) \cap S = {}
  <2>1. ASSUME NEW x \in Of(r, n), x \in S PROVE FALSE
    <3>1. PICK m \in Names : IsCopy(r, m) /\ x = HeadOf(r, m)
      BY <1>7, <2>1
    <3>2. x \in Of(r, m)
      BY <1>6, <3>1 DEF IsCopy
    <3>3. m = n
      BY <1>1, <2>1, <3>2 DEF Apart
    <3> QED
      BY <1>9, <2>1, <3>1, <3>3
  <2> QED
    BY <2>1
<1>10. ASSUME NEW n \in Names PROVE Of(s, n) = Of(r, n) \ S
  <2>1. CASE HeadOf(r, n) \in S
    <3>1. s.chain[n] = <<>> /\ Of(r, n) = {HeadOf(r, n)}
      BY <1>5, <1>6, <1>8, <2>1
    <3>2. Of(s, n) = {}
      BY <1>5, <3>1, OfBasics
    <3> QED
      BY <2>1, <3>1, <3>2
  <2>2. CASE HeadOf(r, n) \notin S
    <3>1. Of(s, n) = Of(r, n)
      BY <1>5, <2>2 DEF Of
    <3> QED
      BY <1>9, <2>2, <3>1
  <2> QED
    BY <2>1, <2>2
<1>11. ASSUME NEW n \in Names, HeadOf(r, n) \notin S
       PROVE  /\ s.chain[n] = r.chain[n] /\ HeadOf(s, n) = HeadOf(r, n)
              /\ Line(s, n) = Line(r, n) /\ Zoned(s, n) = Zoned(r, n)
              /\ \A x \in Of(r, n) : /\ s.zone[x] = r.zone[x] /\ s.data[x] = r.data[x]
                                     /\ x \in s.inuse <=> x \in r.inuse
  <2>1. s.chain[n] = r.chain[n]
    BY <1>5, <1>11
  <2>2. \A x \in Of(r, n) : x \in Entries \ S
    BY <1>6, <1>9, <1>11
  <2>3. \A x \in Of(r, n) : /\ s.zone[x] = r.zone[x] /\ s.data[x] = r.data[x]
                            /\ x \in s.inuse <=> x \in r.inuse
    BY <1>5, <2>2
  <2>4. Of(s, n) = Of(r, n) /\ HeadOf(s, n) = HeadOf(r, n)
    BY <2>1 DEF Of, HeadOf
  <2>5. Line(s, n) = Line(r, n)
    <3>1. \A i \in 1..Len(r.chain[n]) : r.chain[n][i] \in Of(r, n)
      BY DEF Of, Elems
    <3> QED
      BY <2>1, <2>3, <3>1 DEF Line
  <2>6. Zoned(s, n) = Zoned(r, n)
    BY <2>3, <2>4 DEF Zoned
  <2> QED
    BY <2>1, <2>3, <2>4, <2>5, <2>6
<1>12. ASSUME NEW n \in Names PROVE Once(s.chain[n]) /\ Ordered(Line(s, n), zs)
  <2>1. CASE HeadOf(r, n) \in S
    <3>1. s.chain[n] = <<>> /\ Len(s.chain[n]) = 0
      BY <1>5, <2>1, OfBasics
    <3>2. Len(Line(s, n)) = 0
      BY <1>5, <3>1, LineBasics
    <3> QED
      BY <3>1, <3>2 DEF Once, Ordered
  <2>2. CASE HeadOf(r, n) \notin S
    BY <1>1, <1>11, <2>2 DEF Apart
  <2> QED
    BY <2>1, <2>2
<1>13. InChains(s) = InChains(r) \ S
  BY <1>10 DEF InChains
<1>14. Apart(s, {}) /\ Cover(s, {})
  <2>1. \A m, n \in Names : m # n => Of(s, m) \cap Of(s, n) = {}
    BY <1>1, <1>10 DEF Apart
  <2>2. InChains(r) \cap r.free = {} /\ InChains(r) \cap r.lost = {} /\ r.free \cap r.lost = {}
    BY <1>1 DEF Apart
  <2>3. S \cap r.lost = {}
    BY <1>2, <2>2
  <2>4. InChains(s) \cap s.free = {} /\ InChains(s) \cap s.lost = {} /\ s.free \cap s.lost = {}
    BY <1>5, <1>13, <2>2, <2>3
  <2> QED
    BY <1>1, <1>5, <1>12, <1>13, <2>1, <2>4 DEF Apart, Cover
<1>15. ASSUME NEW n \in Names PROVE IsCopy(s, n) <=> IsCopy(r, n) /\ HeadOf(r, n) \notin S
  <2>1. CASE HeadOf(r, n) \in S
    BY <1>5, <2>1 DEF IsCopy
  <2>2. CASE HeadOf(r, n) \notin S
    BY <1>6, <1>11, <2>2 DEF IsCopy
  <2> QED
    BY <2>1, <2>2
<1>16. Copies(s) = Copies(r) \ S
  <2>1. Copies(s) = {HeadOf(s, m) : m \in {l \in Names : IsCopy(s, l)}}
    BY CopiesAre
  <2>2. Copies(r) = {HeadOf(r, m) : m \in {l \in Names : IsCopy(r, l)}}
    BY CopiesAre
  <2>3. \A m \in Names : IsCopy(s, m) => HeadOf(s, m) = HeadOf(r, m)
    BY <1>11, <1>15
  <2> QED
    BY <1>15, <2>1, <2>2, <2>3
<1>17. Refs(s, d)
  <2> DEFINE a == Cardinality(Copies(r))
             b == Cardinality(S)
  <2>1. a \in Nat /\ b \in Nat /\ r.refs = a + d /\ s.refs = r.refs - b
        /\ Cardinality(Copies(s)) = a - b
    BY <1>1, <1>2, <1>4, <1>5, <1>16 DEF Refs
  <2> HIDE DEF a, b
  <2> QED
    BY <1>1, <2>1 DEF Refs
<1>18. Fine(s, {}, zs, d)
  BY <1>1, <1>5, <1>12, <1>14, <1>17 DEF Fine, Sound
<1>19. KeptDown(r, s)
  <2>1. ASSUME NEW n \in Names, s.chain[n] # <<>> PROVE r.chain[n] # <<>> /\ HeadStays(r, s, n)
    <3>1. HeadOf(r, n) \notin S
      BY <1>5, <2>1
    <3>2. s.chain[n] = r.chain[n] /\ HeadOf(r, n) \in Of(r, n)
      BY <1>6, <1>11, <2>1, <3>1
    <3> QED
      BY <1>11, <2>1, <3>1, <3>2 DEF HeadStays
  <2> QED
    BY <1>5, <2>1 DEF KeptDown
<1>20. Swept(r, s, S)
  <2>1. ASSUME NEW n \in Names PROVE Zoned(s, n) \ {0} = Zoned(r, n) \ {0}
    <3>1. CASE HeadOf(r, n) \in S
      <4>1. Zoned(r, n) = {0} /\ Of(s, n) = {}
        BY <1>6, <1>8, <1>10, <3>1
      <4> QED
        BY <4>1 DEF Zoned
    <3>2. CASE HeadOf(r, n) \notin S
      BY <1>11, <3>2
    <3> QED
      BY <3>1, <3>2
  <2> QED
    BY <1>5, <1>11, <2>1 DEF Swept
<1> QED
  BY <1>5, <1>18, <1>19, <1>20 DEF s

\* DB_PostUnloadCleanup: some copies go, the rest stays what it is.
LEMMA CleanupKeeps ==
    ASSUME NEW r, NEW zs, NEW d, Fine(r, {}, zs, d)
    PROVE  LET s == PostUnloadCleanup(r)
           IN  /\ Fine(s, {}, zs, d) /\ s.lost = r.lost /\ KeptDown(r, s)
               /\ \E S \in SUBSET Copies(r) : Swept(r, s, S)
<1> DEFINE told == r.told \cup (Heads(r) \ Copies(r))
           u == [r EXCEPT !.told = told]
           S == Copies(r) \ r.inuse
           X == {}
<1>1. PostUnloadCleanup(r) = Drop(u, S)
  BY DEF PostUnloadCleanup
<1>2. r \in AnyRegistry
  BY DEF Fine, Sound
<1>3. told \subseteq Entries /\ r.told \subseteq told
  <2>1. \A n \in Names : r.chain[n] # <<>> => HeadOf(r, n) \in Entries
    BY <1>2, OfBasics
  <2>2. Heads(r) \subseteq Entries
    BY <2>1 DEF Heads
  <2> QED
    BY <1>2, <2>2 DEF AnyRegistry
<1> HIDE DEF told
<1>4. Retold(r, u) /\ u.told = told
  BY <1>2, <1>3 DEF Retold, AnyRegistry
<1>5. Fine(r, X, zs, d)
  OBVIOUS
<1> HIDE DEF X, u
<1>6. Fine(u, X, zs, d)
  BY <1>4, <1>5, RetoldFine
<1>7. /\ \A n : Of(u, n) = Of(r, n) /\ Zoned(u, n) = Zoned(r, n) /\ HeadOf(u, n) = HeadOf(r, n)
      /\ Copies(u) = Copies(r)
  BY <1>4, RetoldSame
<1>8. Fine(u, {}, zs, d) /\ S \in SUBSET Copies(u) /\ S \in SUBSET Copies(r)
  BY <1>6, <1>7 DEF X
<1> HIDE DEF S
<1>9. LET s == Drop(u, S)
      IN  Fine(s, {}, zs, d) /\ s.lost = u.lost /\ KeptDown(u, s) /\ Swept(u, s, S)
  BY <1>8, Sweep
<1>10. KeptDown(r, u)
  BY <1>3, <1>4, <1>7 DEF Retold, KeptDown, HeadStays
<1> DEFINE s == Drop(u, S)
<1>11. Fine(s, {}, zs, d) /\ s.lost = u.lost /\ KeptDown(u, s) /\ Swept(u, s, S)
  BY <1>9
<1> HIDE DEF s
<1>12. u.chain = r.chain /\ u.zone = r.zone /\ u.data = r.data /\ u.lost = r.lost
  BY <1>4 DEF Retold
<1>13. Swept(r, s, S)
  BY <1>7, <1>11, <1>12 DEF Swept
<1>14. KeptDown(r, s)
  BY <1>10, <1>11, KeptDownJoins
<1> QED
  BY <1>1, <1>8, <1>11, <1>12, <1>13, <1>14 DEF s

\* DB_CleanupAssetRefs when nothing but copies is left.
LEMMA RefsCleanup ==
    ASSUME NEW r, NEW zs, NEW d, Fine(r, {}, zs, d), \A n \in Names : Zoned(r, n) \ {0} = {}
    PROVE  LET s == CleanupAssetRefs(r)
           IN  Fine(s, {}, zs, d) /\ s.lost = r.lost /\ \A n \in Names : s.chain[n] = <<>>
<1>1. r \in AnyRegistry
  BY DEF Fine, Sound
<1>2. \A n \in Names : r.chain[n] # <<>> => HeadOf(r, n) \in Of(r, n) /\ r.zone[HeadOf(r, n)] = 0
  <2> TAKE n \in Names
  <2>1. r.chain[n] # <<>> => HeadOf(r, n) \in Of(r, n)
    BY <1>1, OfBasics
  <2>2. HeadOf(r, n) \in Of(r, n) => r.zone[HeadOf(r, n)] \in Zoned(r, n)
    BY DEF Zoned
  <2> QED
    BY <2>1, <2>2
<1>3. Heads(r) = Copies(r)
  BY <1>2 DEF Heads, Copies
<1> DEFINE S == Copies(r)
           s == Drop(r, S)
<1>4. CleanupAssetRefs(r) = s
  BY <1>3 DEF CleanupAssetRefs
<1>5. S \in SUBSET Copies(r)
  OBVIOUS
<1> HIDE DEF S
<1>6. LET t == Drop(r, S)
      IN  Fine(t, {}, zs, d) /\ t.lost = r.lost /\ KeptDown(r, t) /\ Swept(r, t, S)
  BY <1>5, Sweep
<1>7. Fine(s, {}, zs, d) /\ s.lost = r.lost /\ Swept(r, s, S)
  BY <1>6
<1> HIDE DEF s
<1>8. ASSUME NEW n \in Names PROVE s.chain[n] = <<>>
  <2>1. s.chain[n] = IF HeadOf(r, n) \in S THEN <<>> ELSE r.chain[n]
    BY <1>7 DEF Swept
  <2>2. r.chain[n] # <<>> => HeadOf(r, n) \in S
    BY <1>3 DEF S, Heads
  <2> QED
    BY <2>1, <2>2
<1> QED
  BY <1>4, <1>7, <1>8

\* DB_UnloadAllZones from the flush on: nothing is left, but what was lost.
LEMMA UnloadAllLeaves ==
    ASSUME NEW r, NEW d, Fine(r, {}, zones, d), NEW order \in SetToSeqs(Names),
           \A n \in Names : Ordered(Line(r, n), zones)
    PROVE  LET s == PostUnloadCleanup(CleanupAssetRefs(UnloadZones(r, ToSet(zones), FALSE, order)))
           IN  Fine(s, {}, zones, d) /\ s.lost = r.lost /\ \A n \in Names : s.chain[n] = <<>>
<1> DEFINE t == UnloadZones(r, ToSet(zones), FALSE, order)
           u == CleanupAssetRefs(t)
           s == PostUnloadCleanup(u)
           zs == ToSet(zones)
           copy == FALSE
<1>1. Fine(t, {}, zones, d) /\ t.lost = r.lost /\ Purged(r, t, Names, Elems(zones) \cap zs)
  <2>1. copy \in BOOLEAN
    OBVIOUS
  <2> HIDE DEF zs, copy
  <2>2. LET x == UnloadZones(r, zs, copy, order)
        IN  /\ Fine(x, {}, zones, d) /\ x.lost = r.lost
            /\ Purged(r, x, Names, Elems(zones) \cap zs)
            /\ copy => KeptDown(r, x)
    BY <2>1, UnloadMany
  <2> QED
    BY <2>2 DEF zs, copy
<1> HIDE DEF t
<1>2. r \in AnyRegistry /\ zones \in Seq(Zones)
  BY DEF Fine, Sound
<1>3. Elems(zones) \cap zs = ToSet(zones)
  BY <1>2 DEF Elems, ToSet
<1>4. \A n \in Names : Zoned(t, n) \ {0} = {}
  <2> TAKE n \in Names
  <2>1. Zoned(r, n) \subseteq ToSet(zones) \cup {0}
    BY <1>2, CopyAlone
  <2>2. Zoned(t, n) \ {0} = (Zoned(r, n) \ {0}) \ ToSet(zones)
    BY <1>1, <1>3 DEF Purged
  <2> QED
    BY <2>1, <2>2
<1>5. Fine(u, {}, zones, d) /\ u.lost = t.lost /\ \A n \in Names : u.chain[n] = <<>>
  BY <1>1, <1>4, RefsCleanup
<1> HIDE DEF u
<1>6. /\ Fine(s, {}, zones, d) /\ s.lost = u.lost
      /\ \E S \in SUBSET Copies(u) : Swept(u, s, S)
  BY <1>5, CleanupKeeps
<1> HIDE DEF s
<1>7. \A n \in Names : s.chain[n] = <<>>
  BY <1>5, <1>6 DEF Swept
<1> QED
  BY <1>1, <1>5, <1>6, <1>7 DEF s, u, t

\* The zones an Unload takes out of the chains, in the two passes of its loop.
LEMMA UnloadTwice ==
    ASSUME NEW r, NEW d, Fine(r, {}, zones, d), NEW ys, NEW zs,
           NEW order \in SetToSeqs(Names)
    PROVE  LET s == UnloadZones(UnloadZones(r, ys, TRUE, order), zs, TRUE, order)
           IN  /\ Fine(s, {}, zones, d) /\ s.lost = r.lost /\ KeptDown(r, s)
               /\ Purged(r, s, Names, Elems(zones) \cap (ys \cup zs))
<1> DEFINE copy == TRUE
           t == UnloadZones(r, ys, copy, order)
           s == UnloadZones(t, zs, copy, order)
           Y == Elems(zones) \cap ys
           Z == Elems(zones) \cap zs
<1>1. copy \in BOOLEAN /\ copy
  OBVIOUS
<1>2. s = UnloadZones(UnloadZones(r, ys, TRUE, order), zs, TRUE, order)
  OBVIOUS
<1> HIDE DEF copy
<1>3. /\ Fine(t, {}, zones, d) /\ t.lost = r.lost /\ Purged(r, t, Names, Elems(zones) \cap ys)
      /\ copy => KeptDown(r, t)
  BY <1>1, UnloadMany
<1> HIDE DEF t
<1>4. /\ Fine(s, {}, zones, d) /\ s.lost = t.lost /\ Purged(t, s, Names, Elems(zones) \cap zs)
      /\ copy => KeptDown(t, s)
  BY <1>1, <1>3, UnloadMany, ZenonT(60)
<1> HIDE DEF s
<1>5. Purged(r, t, Names, Y) /\ Purged(t, s, Names, Z)
  BY <1>3, <1>4
<1>6. Elems(zones) \cap (ys \cup zs) = Y \cup Z
  OBVIOUS
<1> HIDE DEF Y, Z
<1>7. Purged(r, s, Names, Y \cup Z)
  BY <1>5, PurgedUnites
<1>8. KeptDown(r, s)
  BY <1>1, <1>3, <1>4, KeptDownJoins
<1> QED
  BY <1>2, <1>3, <1>4, <1>6, <1>7, <1>8

-----------------------------------------------------------------------------
(* Allocating an entry *)

\* The entry handed out is a free one.
LEMMA NextFreeIs ==
    ASSUME NEW r \in AnyRegistry, r.free # {}
    PROVE  NextFree(r) \in r.free /\ NextFree(r) \in Entries
<1> DEFINE T == r.free
<1>1. T \in SUBSET Nat /\ T # {} /\ T \subseteq Entries
  BY DEF AnyRegistry, Entries
<1>2. NextFree(r) = CHOOSE e \in T : \A f \in T : e <= f
  BY DEF NextFree
<1> HIDE DEF T
<1>3. \E e \in T : \A f \in T : e <= f
  BY <1>1, LeastOf
<1>4. NextFree(r) \in T
  BY <1>2, <1>3
<1> QED
  BY <1>1, <1>4 DEF T

\* What is the same of the chains, and of the entries of X, when an entry is popped.
Aside(r, s, X) ==
    /\ s \in AnyRegistry /\ s.chain = r.chain
    /\ \A n \in Names : /\ Of(s, n) = Of(r, n) /\ Line(s, n) = Line(r, n)
                        /\ Zoned(s, n) = Zoned(r, n) /\ HeadOf(s, n) = HeadOf(r, n)
                        /\ IsCopy(s, n) <=> IsCopy(r, n)
                        /\ \A x \in Of(r, n) : /\ s.zone[x] = r.zone[x] /\ s.data[x] = r.data[x]
                                               /\ x \in s.inuse <=> x \in r.inuse
    /\ \A x \in X : s.zone[x] = r.zone[x] /\ s.data[x] = r.data[x]
    /\ InChains(s) = InChains(r) /\ Copies(s) = Copies(r) /\ s.told = r.told

\* Changes of a free entry touch no chain.
LEMMA AsideFrom ==
    ASSUME NEW r, NEW s \in AnyRegistry, NEW X, NEW e, r \in AnyRegistry, Apart(r, X),
           X \subseteq Entries, e \in r.free, s.chain = r.chain, s.told = r.told,
           \A x \in Entries \ {e} : /\ s.zone[x] = r.zone[x] /\ s.data[x] = r.data[x]
                                    /\ x \in s.inuse <=> x \in r.inuse
    PROVE  Aside(r, s, X)
<1>1. InChains(r) \cap r.free = {} /\ X \cap r.free = {}
  BY DEF Apart
<1>2. ASSUME NEW n \in Names
      PROVE  /\ Of(s, n) = Of(r, n) /\ Line(s, n) = Line(r, n)
             /\ Zoned(s, n) = Zoned(r, n) /\ HeadOf(s, n) = HeadOf(r, n)
             /\ IsCopy(s, n) <=> IsCopy(r, n)
             /\ \A x \in Of(r, n) : /\ s.zone[x] = r.zone[x] /\ s.data[x] = r.data[x]
                                    /\ x \in s.inuse <=> x \in r.inuse
  <2>1. /\ Of(r, n) \subseteq InChains(r) /\ InChains(r) \subseteq Entries
        /\ r.chain[n] # <<>> => HeadOf(r, n) \in Of(r, n)
    BY <1>2, OfBasics
  <2>2. \A x \in Of(r, n) : x \in Entries \ {e}
    BY <1>1, <2>1
  <2>3. \A x \in Of(r, n) : /\ s.zone[x] = r.zone[x] /\ s.data[x] = r.data[x]
                            /\ x \in s.inuse <=> x \in r.inuse
    BY <2>2
  <2>4. Of(s, n) = Of(r, n) /\ HeadOf(s, n) = HeadOf(r, n) /\ s.chain[n] = r.chain[n]
    BY DEF Of, HeadOf
  <2>5. Line(s, n) = Line(r, n)
    <3>1. \A i \in 1..Len(r.chain[n]) : r.chain[n][i] \in Of(r, n)
      BY DEF Of, Elems
    <3> QED
      BY <2>3, <2>4, <3>1 DEF Line
  <2>6. Zoned(s, n) = Zoned(r, n)
    BY <2>3, <2>4 DEF Zoned
  <2>7. IsCopy(s, n) <=> IsCopy(r, n)
    BY <2>1, <2>3, <2>4 DEF IsCopy
  <2> QED
    BY <2>3, <2>4, <2>5, <2>6, <2>7
<1>3. \A x \in X : s.zone[x] = r.zone[x] /\ s.data[x] = r.data[x]
  BY <1>1
<1>4. InChains(s) = InChains(r)
  BY <1>2 DEF InChains
<1>5. Copies(s) = Copies(r)
  <2>1. Copies(s) = {HeadOf(s, m) : m \in {l \in Names : IsCopy(s, l)}}
    BY CopiesAre
  <2>2. Copies(r) = {HeadOf(r, m) : m \in {l \in Names : IsCopy(r, l)}}
    BY CopiesAre
  <2> QED
    BY <1>2, <2>1, <2>2
<1> QED
  BY <1>2, <1>3, <1>4, <1>5 DEF Aside

\* Alloc hands out an entry that is of the zone asked for.
LEMMA AllocHands ==
    ASSUME NEW r, NEW X, NEW zs, Sound(r, X, zs), r.free # {},
           NEW z \in Zones \cup {0}, NEW k \in Zones \cup {0}
    PROVE  LET e == NextFree(r)
               s == Alloc(r, z, k)
           IN  /\ e \in Entries /\ e \in r.free /\ e \notin X /\ e \notin InChains(r)
               /\ Sound(s, X \cup {e}, zs) /\ Aside(r, s, X)
               /\ s.zone[e] = z /\ s.data[e] = k /\ s.lost = r.lost /\ s.refs = r.refs
               /\ s.free = r.free \ {e}
               /\ \A d : Fine(r, X, zs, d) => Fine(s, X \cup {e}, zs, d)
<1> DEFINE e == NextFree(r)
           s == Alloc(r, z, k)
           zone == [r.zone EXCEPT ![e] = z]
           data == [r.data EXCEPT ![e] = k]
<1>1. /\ r \in AnyRegistry /\ X \subseteq Entries /\ Apart(r, X) /\ zs \in Seq(Zones) /\ Once(zs)
      /\ \A n \in Names : Ordered(Line(r, n), zs)
  BY DEF Sound
<1>2. e \in r.free /\ e \in Entries
  BY <1>1, NextFreeIs
<1>3. s = [r EXCEPT !.free = r.free \ {e}, !.inuse = r.inuse \ {e}, !.zone = zone, !.data = data]
  BY DEF Alloc
<1> HIDE DEF e
<1>4. /\ zone \in [Entries -> Zones \cup {0}] /\ data \in [Entries -> Zones \cup {0}]
      /\ zone[e] = z /\ data[e] = k
      /\ \A x \in Entries \ {e} : zone[x] = r.zone[x] /\ data[x] = r.data[x]
  BY <1>1, <1>2 DEF AnyRegistry
<1> HIDE DEF s, zone, data
<1>5. /\ s \in AnyRegistry /\ s.chain = r.chain /\ s.zone = zone /\ s.data = data
      /\ s.inuse = r.inuse \ {e} /\ s.free = r.free \ {e}
      /\ s.lost = r.lost /\ s.refs = r.refs /\ s.told = r.told
  BY <1>1, <1>3, <1>4 DEF AnyRegistry
<1>6. Aside(r, s, X)
  <2>1. \A x \in Entries \ {e} : /\ s.zone[x] = r.zone[x] /\ s.data[x] = r.data[x]
                                 /\ x \in s.inuse <=> x \in r.inuse
    BY <1>4, <1>5
  <2>2. s \in AnyRegistry /\ s.chain = r.chain /\ s.told = r.told
    BY <1>5
  <2> QED
    BY <1>1, <1>2, <2>1, <2>2, AsideFrom
<1>7. /\ InChains(r) \cap X = {} /\ InChains(r) \cap r.free = {} /\ InChains(r) \cap r.lost = {}
      /\ X \cap r.free = {} /\ X \cap r.lost = {} /\ r.free \cap r.lost = {}
  BY <1>1 DEF Apart
<1>8. e \notin X /\ e \notin InChains(r)
  BY <1>2, <1>7
<1>9. Apart(s, X \cup {e})
  <2>1. /\ \A n \in Names : Once(s.chain[n])
        /\ \A m, n \in Names : m # n => Of(s, m) \cap Of(s, n) = {}
    BY <1>1, <1>5, <1>6 DEF Apart, Aside
  <2>2. InChains(s) = InChains(r)
    BY <1>6 DEF Aside
  <2> DEFINE Y == X \cup {e}
  <2>3. /\ InChains(s) \cap Y = {} /\ InChains(s) \cap s.free = {} /\ InChains(s) \cap s.lost = {}
        /\ Y \cap s.free = {} /\ Y \cap s.lost = {} /\ s.free \cap s.lost = {}
    BY <1>2, <1>5, <1>7, <1>8, <2>2
  <2> HIDE DEF Y
  <2>4. Apart(s, Y)
    BY <2>1, <2>3 DEF Apart
  <2> QED
    BY <2>4 DEF Y
<1>10. Sound(s, X \cup {e}, zs)
  <2>1. \A n \in Names : Ordered(Line(s, n), zs)
    BY <1>1, <1>6 DEF Aside
  <2> QED
    BY <1>1, <1>2, <1>5, <1>9, <2>1 DEF Sound
<1>11. ASSUME NEW d, Fine(r, X, zs, d) PROVE Fine(s, X \cup {e}, zs, d)
  <2>1. Cover(r, X) /\ d \in Nat /\ Refs(r, d)
    BY <1>11 DEF Fine
  <2>2. InChains(s) = InChains(r) /\ Copies(s) = Copies(r)
    BY <1>6 DEF Aside
  <2>3. Cover(s, X \cup {e})
    BY <1>5, <2>1, <2>2 DEF Cover
  <2>4. Refs(s, d)
    BY <1>5, <2>1, <2>2 DEF Refs
  <2> QED
    BY <1>10, <2>1, <2>3, <2>4 DEF Fine
<1> QED
  BY <1>2, <1>4, <1>5, <1>6, <1>8, <1>10, <1>11 DEF e, s

\* An allocation that fails takes one entry away, at most.
LEMMA AllocFails ==
    ASSUME NEW r, NEW X, NEW zs, Sound(r, X, zs)
    PROVE  LET s == AllocFailed(r)
           IN  /\ Sound(s, X, zs) /\ Aside(r, s, X) /\ s.refs = r.refs
               /\ \A d : Fine(r, X, zs, d) => Fine(s, X, zs, d)
               /\ s.lost = r.lost \/ \E e \in Entries : s.lost = r.lost \cup {e}
<1> DEFINE e == NextFree(r)
           s == AllocFailed(r)
<1>1. /\ r \in AnyRegistry /\ X \subseteq Entries /\ Apart(r, X) /\ zs \in Seq(Zones) /\ Once(zs)
      /\ \A n \in Names : Ordered(Line(r, n), zs)
  BY DEF Sound
<1>2. CASE r.free = {}
  <2>1. s = r
    BY <1>2 DEF AllocFailed
  <2>2. Aside(r, r, X)
    BY <1>1 DEF Aside
  <2> HIDE DEF s
  <2> QED
    BY <2>1, <2>2 DEF s
<1>3. CASE r.free # {}
  <2>1. e \in r.free /\ e \in Entries
    BY <1>1, <1>3, NextFreeIs
  <2>2. s = [r EXCEPT !.free = r.free \ {e}, !.lost = r.lost \cup {e}]
    BY <1>3 DEF AllocFailed
  <2> HIDE DEF e, s
  <2>3. /\ s \in AnyRegistry /\ s.chain = r.chain /\ s.zone = r.zone /\ s.data = r.data
        /\ s.inuse = r.inuse /\ s.free = r.free \ {e}
        /\ s.lost = r.lost \cup {e} /\ s.refs = r.refs /\ s.told = r.told
    BY <1>1, <2>1, <2>2 DEF AnyRegistry
  <2>4. Aside(r, s, X)
    <3>1. \A x \in Entries \ {e} : /\ s.zone[x] = r.zone[x] /\ s.data[x] = r.data[x]
                                   /\ x \in s.inuse <=> x \in r.inuse
      BY <2>3
    <3>2. s \in AnyRegistry /\ s.chain = r.chain /\ s.told = r.told
      BY <2>3
    <3> QED
      BY <1>1, <2>1, <3>1, <3>2, AsideFrom
  <2>5. /\ InChains(r) \cap X = {} /\ InChains(r) \cap r.free = {} /\ InChains(r) \cap r.lost = {}
        /\ X \cap r.free = {} /\ X \cap r.lost = {} /\ r.free \cap r.lost = {}
    BY <1>1 DEF Apart
  <2>6. InChains(s) = InChains(r) /\ Copies(s) = Copies(r)
    BY <2>4 DEF Aside
  <2>7. Apart(s, X)
    <3>1. /\ \A n \in Names : Once(s.chain[n])
          /\ \A m, n \in Names : m # n => Of(s, m) \cap Of(s, n) = {}
      BY <1>1, <2>3, <2>4 DEF Apart, Aside
    <3>2. /\ InChains(s) \cap X = {} /\ InChains(s) \cap s.free = {} /\ InChains(s) \cap s.lost = {}
          /\ X \cap s.free = {} /\ X \cap s.lost = {} /\ s.free \cap s.lost = {}
      BY <2>1, <2>3, <2>5, <2>6
    <3> QED
      BY <3>1, <3>2 DEF Apart
  <2>8. Sound(s, X, zs)
    <3>1. \A n \in Names : Ordered(Line(s, n), zs)
      BY <1>1, <2>4 DEF Aside
    <3> QED
      BY <1>1, <2>3, <2>7, <3>1 DEF Sound
  <2>9. ASSUME NEW d, Fine(r, X, zs, d) PROVE Fine(s, X, zs, d)
    <3>1. Cover(r, X) /\ d \in Nat /\ Refs(r, d)
      BY <2>9 DEF Fine
    <3>2. Cover(s, X)
      BY <2>3, <2>6, <3>1 DEF Cover
    <3>3. Refs(s, d)
      BY <2>3, <2>6, <3>1 DEF Refs
    <3> QED
      BY <2>8, <3>1, <3>2, <3>3 DEF Fine
  <2> QED
    BY <2>1, <2>3, <2>4, <2>8, <2>9 DEF s
<1> QED
  BY <1>2, <1>3

\* A default copy for a name that has nothing.
LEMMA DefaultLinks ==
    ASSUME NEW r, NEW n \in Names, NEW X, NEW zs, NEW d, Fine(r, X, zs, d), r.free # {},
           Unlinked(r, n), FindDefaultAsset(r) # NoEntry
    PROVE  LET s == LinkDefault(r, n)
               e == NextFree(r)
           IN  /\ Fine(s, X, zs, d) /\ s.lost = r.lost /\ s.told = r.told
               /\ \A m \in Names \ {n} : SameAt(r, s, m)
               /\ \A x \in X : s.zone[x] = r.zone[x] /\ s.data[x] = r.data[x]
               /\ s.chain[n] = <<e>> /\ Of(s, n) = {e} /\ e \in s.inuse
               /\ s.zone[e] = 0 /\ s.data[e] = r.data[FindDefaultAsset(r)]
<1> DEFINE k == r.data[FindDefaultAsset(r)]
           t == Alloc(r, 0, k)
           s == LinkDefault(r, n)
           e == NextFree(r)
           chain == [r.chain EXCEPT ![n] = <<e>>]
           Y == {e}
           Z == X \cup Y
<1>1. /\ r \in AnyRegistry /\ X \subseteq Entries /\ Apart(r, X) /\ Sound(r, X, zs)
      /\ r.refs \in Int /\ r.chain[n] = <<>>
  BY DEF Fine, Sound, AnyRegistry, Unlinked
<1>2. k \in Zones \cup {0} /\ 0 \in Zones \cup {0}
  <2>1. FindDefaultAsset(r) \in Entries
    BY <1>1, DefaultIs
  <2> QED
    BY <1>1, <2>1 DEF AnyRegistry
<1>3. s = [t EXCEPT !.refs = @ + 1, !.chain[n] = <<e>>, !.inuse = @ \cup {e}]
  BY DEF LinkDefault
<1> HIDE DEF k
<1>4. /\ e \in Entries /\ e \in r.free /\ e \notin X /\ e \notin InChains(r)
      /\ Sound(t, X \cup {e}, zs) /\ Aside(r, t, X)
      /\ t.zone[e] = 0 /\ t.data[e] = k /\ t.lost = r.lost /\ t.refs = r.refs
      /\ t.free = r.free \ {e}
      /\ \A c : Fine(r, X, zs, c) => Fine(t, X \cup {e}, zs, c)
  BY <1>1, <1>2, AllocHands
<1>5. Fine(t, Z, zs, d) /\ Sound(t, Z, zs) /\ t \in AnyRegistry
  BY <1>4 DEF Sound
<1>6. /\ t.chain = r.chain /\ t.told = r.told
      /\ \A m \in Names : /\ Of(t, m) = Of(r, m) /\ Line(t, m) = Line(r, m)
                          /\ Zoned(t, m) = Zoned(r, m) /\ HeadOf(t, m) = HeadOf(r, m)
                          /\ \A x \in Of(r, m) : /\ t.zone[x] = r.zone[x] /\ t.data[x] = r.data[x]
                                                 /\ x \in t.inuse <=> x \in r.inuse
      /\ \A x \in X : t.zone[x] = r.zone[x] /\ t.data[x] = r.data[x]
  BY <1>4 DEF Aside
<1> HIDE DEF t, e
<1>7. chain \in [Names -> Seq(Entries)] /\ chain[n] = <<e>> /\ \A m \in Names \ {n} : chain[m] = r.chain[m]
  <2> DEFINE c == <<e>>
  <2>1. c \in Seq(Entries)
    BY <1>4
  <2> HIDE DEF c
  <2>2. /\ [r.chain EXCEPT ![n] = c] \in [Names -> Seq(Entries)]
        /\ [r.chain EXCEPT ![n] = c][n] = c
        /\ \A m \in Names \ {n} : [r.chain EXCEPT ![n] = c][m] = r.chain[m]
    BY <1>1, <2>1 DEF AnyRegistry
  <2> QED
    BY <2>2 DEF c
<1>8. s = [t EXCEPT !.refs = t.refs + 1, !.chain = chain, !.inuse = t.inuse \cup {e}]
  BY <1>3, <1>6
<1> HIDE DEF s, chain
<1>9. /\ s \in AnyRegistry /\ s.chain = chain /\ s.refs = t.refs + 1 /\ s.inuse = t.inuse \cup {e}
      /\ s.zone = t.zone /\ s.data = t.data /\ s.free = t.free /\ s.lost = t.lost /\ s.told = t.told
  <2>1. t.refs + 1 \in Int
    BY <1>1, <1>4
  <2> QED
    BY <1>4, <1>5, <1>7, <1>8, <2>1 DEF AnyRegistry
<1>10. s.chain[n] = <<e>> /\ Of(s, n) = {e} /\ HeadOf(s, n) = e /\ Once(s.chain[n])
  <2>1. s.chain[n] = <<e>>
    BY <1>7, <1>9
  <2>2. Len(s.chain[n]) = 1 /\ s.chain[n][1] = e /\ s.chain[n] # <<>>
    BY <2>1
  <2> QED
    BY <2>1, <2>2 DEF Of, Elems, HeadOf, Once
<1>11. Shape(t, s, n, Z, Y)
  <2>1. Of(t, n) = {}
    BY <1>1, <1>6, OfBasics
  <2>2. \A x \in Entries \ (Of(t, n) \cup Y) :
           s.zone[x] = t.zone[x] /\ s.data[x] = t.data[x] /\ (x \in s.inuse <=> x \in t.inuse)
    BY <1>9
  <2>3. \A m \in Names \ {n} : s.chain[m] = t.chain[m]
    BY <1>6, <1>7, <1>9
  <2>4. s.free = t.free \cup ((Of(t, n) \cup Y) \ Of(s, n))
    BY <1>9, <1>10, <2>1
  <2>5. Y \subseteq Z /\ Z \subseteq Entries /\ Apart(t, Z)
    BY <1>5 DEF Sound
  <2> QED
    BY <1>5, <1>9, <1>10, <2>1, <2>2, <2>3, <2>4, <2>5 DEF Shape, Within
<1>12. Ordered(Line(s, n), zs)
  <2>1. Len(Line(s, n)) = 1 /\ Line(s, n)[1] = 0
    <3>1. Len(s.chain[n]) = 1 /\ s.chain[n][1] = e
      BY <1>10
    <3>2. 1 \in 1..Len(s.chain[n]) /\ Len(Line(s, n)) = Len(s.chain[n])
      BY <1>9, <3>1, LineBasics
    <3>3. Line(s, n)[1] = s.zone[e]
      BY <1>9, <3>1, <3>2, LineBasics
    <3> QED
      BY <1>4, <1>9, <3>1, <3>2, <3>3
  <2> QED
    BY <2>1 DEF Ordered
<1>13. Counts(t, s, n)
  <2>1. ~IsCopy(t, n) /\ IsCopy(s, n)
    BY <1>1, <1>4, <1>6, <1>9, <1>10 DEF IsCopy
  <2> QED
    BY <1>1, <1>4, <1>9, <2>1 DEF Counts
<1> HIDE DEF Y, Z
<1>14. Fine(s, Z \ Y, zs, d)
  BY <1>5, <1>11, <1>12, <1>13, FineStep
<1>15. Z \ Y = X
  BY <1>4 DEF Y, Z
<1>16. \A m \in Names \ {n} : SameAt(t, s, m)
  BY <1>11, ShapeKeeps
<1>17. \A m \in Names \ {n} : SameAt(r, s, m)
  BY <1>6, <1>16 DEF SameAt
<1>18. \A x \in X : s.zone[x] = r.zone[x] /\ s.data[x] = r.data[x]
  BY <1>6, <1>9
<1> QED
  BY <1>4, <1>6, <1>9, <1>10, <1>14, <1>15, <1>17, <1>18 DEF s, e, k
-----------------------------------------------------------------------------
(* The invariant *)

\* The assets of the zones on the table, but for those the thread has still to link.
Wanted(zs, l, t) ==
    {w \in Names \X Zones : /\ w[2] \in ToSet(zs) /\ w[1] \in Content[w[2]]
                            /\ ~(w[2] = l /\ <<w[1], FALSE>> \in t)}

\* What waits has at least the priority of what is linked under its name.
Above(r, q) ==
    \A j \in 1..Len(q) : \A y \in Zoned(r, q[j].name) :
        y # 0 => Priority[r.zone[q[j].entry]] >= Priority[y]

Few(r, d) == IsFiniteSet(r.lost) /\ Cardinality(r.lost) <= d

Kept(r, q, zs, W, d) == Flowing(r, q, 0, zs, W, d) /\ Above(r, q) /\ Few(r, d)

\* The thread works on the zone loaded last, and what it defers waits for a flush.
Working(q, zs, l, t, y) ==
    /\ l # 0 => zs # <<>> /\ l = zs[Len(zs)]
    /\ l = 0 => t = {}
    /\ \A n \in Names : <<n, FALSE>> \in t => n \in Content[l]
    /\ q # <<>> => ~y

\* An error of the thread ends the process between two of its steps: the entry it had
\* taken is then in no place, and the asset it was linking is not in the registry.
IInv ==
    /\ TypeOK
    /\ Sound(db, Wait(queue, 0), zones) /\ Spread(queue)
    /\ ~halted => /\ Kept(db, queue, zones, Wanted(zones, loading, todo), drops)
                  /\ Working(queue, zones, loading, todo, sync)

\* The same but for who uses what, what was told, and the count.
Remarked(r, u) ==
    /\ u \in AnyRegistry
    /\ u.chain = r.chain /\ u.zone = r.zone /\ u.data = r.data
    /\ u.free = r.free /\ u.lost = r.lost

\* Marks and counts do not matter to what is linked.
LEMMA RemarkedSound ==
    ASSUME NEW r, NEW u, NEW X, NEW zs, Remarked(r, u), Sound(r, X, zs)
    PROVE  /\ Sound(u, X, zs)
           /\ \A n \in Names : /\ Of(u, n) = Of(r, n) /\ Zoned(u, n) = Zoned(r, n)
                               /\ HeadOf(u, n) = HeadOf(r, n)
           /\ Copies(u) = Copies(r) /\ (Cover(r, X) => Cover(u, X))
<1>1. \A n : /\ Of(u, n) = Of(r, n) /\ Line(u, n) = Line(r, n) /\ Zoned(u, n) = Zoned(r, n)
             /\ HeadOf(u, n) = HeadOf(r, n)
  BY DEF Remarked, Of, Line, Zoned, HeadOf
<1>2. InChains(u) = InChains(r)
  BY <1>1 DEF InChains
<1>3. Heads(u) = Heads(r) /\ Copies(u) = Copies(r)
  BY <1>1 DEF Heads, Copies, Remarked
<1>4. Apart(u, X)
  BY <1>1, <1>2 DEF Sound, Apart, Remarked
<1>5. Sound(u, X, zs)
  BY <1>1, <1>4 DEF Sound, Remarked
<1>6. Cover(r, X) => Cover(u, X)
  BY <1>2 DEF Cover, Remarked
<1> QED
  BY <1>1, <1>3, <1>5, <1>6

\* Fewer entries out of the chains are as sound.
LEMMA SoundLess ==
    ASSUME NEW r, NEW X, NEW Y, NEW zs, Sound(r, X, zs), Y \subseteq X
    PROVE  Sound(r, Y, zs)
<1>1. Apart(r, Y)
  BY DEF Sound, Apart
<1> QED
  BY <1>1 DEF Sound

\* A registry whose count is a number is of the type stated.
LEMMA RegistryIs ==
    ASSUME NEW r \in AnyRegistry
    PROVE  /\ r.refs \in Nat => r \in Registry
           /\ \A X, zs, d : Fine(r, X, zs, d) => r \in Registry
<1>1. r.refs \in Nat => r \in Registry
  BY DEF AnyRegistry, Registry
<1>2. ASSUME NEW X, NEW zs, NEW d, Fine(r, X, zs, d) PROVE r \in Registry
  <2>1. Cardinality(Copies(r)) \in Nat
    BY CopiesFinite
  <2>2. r.refs = Cardinality(Copies(r)) + d /\ d \in Nat
    BY <1>2 DEF Fine, Refs
  <2> QED
    BY <1>1, <2>1, <2>2
<1> QED
  BY <1>1, <1>2

\* And a registry of that type is one of any count.
LEMMA AnyOf ==
    ASSUME NEW r \in Registry PROVE r \in AnyRegistry
BY DEF Registry, AnyRegistry

\* Forgetting what the last step told changes nothing else.
LEMMA QuietIs ==
    ASSUME NEW r \in AnyRegistry
    PROVE  /\ Quiet(r) \in AnyRegistry /\ Remarked(r, Quiet(r)) /\ Retold(r, Quiet(r))
           /\ Quiet(r).inuse = r.inuse /\ Quiet(r).refs = r.refs
           /\ FindDefaultAsset(Quiet(r)) = FindDefaultAsset(r) /\ NextFree(Quiet(r)) = NextFree(r)
<1>1. /\ Quiet(r) \in AnyRegistry
      /\ Quiet(r).chain = r.chain /\ Quiet(r).zone = r.zone /\ Quiet(r).data = r.data
      /\ Quiet(r).free = r.free /\ Quiet(r).lost = r.lost
      /\ Quiet(r).inuse = r.inuse /\ Quiet(r).refs = r.refs
  BY DEF Quiet, AnyRegistry
<1> QED
  BY <1>1 DEF Remarked, Retold, FindDefaultAsset, NextFree

\* An entry popped changes no head.
LEMMA AsideKeeps ==
    ASSUME NEW r \in AnyRegistry, NEW s, NEW X, Aside(r, s, X)
    PROVE  KeptUp(r, s)
<1>1. ASSUME NEW n \in Names, r.chain[n] # <<>>
      PROVE  s.chain[n] # <<>> /\ HeadStays(r, s, n)
  <2>1. HeadOf(r, n) \in Of(r, n)
    BY <1>1, OfBasics
  <2> QED
    BY <1>1, <2>1 DEF Aside, HeadStays
<1> QED
  BY <1>1 DEF Aside, KeptUp

\* A registry with the same zones in its chains, and in what waits.
LEMMA KeptSame ==
    ASSUME NEW r, NEW s, NEW q, NEW zs, NEW W, NEW d, NEW k, Kept(r, q, zs, W, d),
           Fine(s, Wait(q, 0), zs, k), Few(s, k),
           \A n \in Names : /\ Zoned(s, n) \ {0} = Zoned(r, n) \ {0}
                            /\ r.chain[n] # <<>> => s.chain[n] # <<>>,
           \A x \in Wait(q, 0) : s.zone[x] = r.zone[x]
    PROVE  Kept(s, q, zs, W, k)
<1>1. \A j \in 1..Len(q) : q[j].name \in Names /\ q[j].entry \in Wait(q, 0)
  <2>1. q \in Seq(Links)
    BY DEF Kept, Flowing, Spread
  <2>2. \A j \in 1..Len(q) : q[j] \in Links /\ j \in (0 + 1)..Len(q)
    BY <2>1
  <2> QED
    BY <2>2 DEF Links, Wait
<1>2. \A n \in Names, z \in Zones : z \in Zoned(s, n) <=> z \in Zoned(r, n)
  BY RegistryAssumption
<1>3. \A j \in 1..Len(q) : s.zone[q[j].entry] = r.zone[q[j].entry]
  BY <1>1
<1>4. 0 + 1 = 1
  OBVIOUS
<1>5. \A n \in Names : \A z : Newest(r, n, z, zs) => Newest(s, n, z, zs)
  BY DEF Newest
<1>6. Pending(s, q, 0, zs)
  BY <1>1, <1>3, <1>4, <1>5 DEF Kept, Flowing, Pending
<1>7. \A n, z : Waits(s, q, 0, n, z) <=> Waits(r, q, 0, n, z)
  BY <1>3, <1>4 DEF Waits
<1>8. Owned(s, q, 0, W)
  BY <1>2, <1>7 DEF Kept, Flowing, Owned
<1>9. Above(s, q)
  <2>1. \A j \in 1..Len(q) : \A y \in Zoned(s, q[j].name) : y # 0 => y \in Zoned(r, q[j].name)
    BY <1>1
  <2> QED
    BY <1>3, <2>1 DEF Kept, Above
<1> QED
  BY <1>6, <1>8, <1>9 DEF Kept, Flowing
-----------------------------------------------------------------------------
(* Linking an asset of the zone being loaded *)

\* The entry e has been popped, and filled for the zone z, which was loaded last and has
\* no asset of the name n so far.
Handed(r, s, q, zs, W, d, n, e, z) ==
    /\ Kept(r, q, zs, W, d)
    /\ Fine(s, Wait(q, 0) \cup {e}, zs, d) /\ Aside(r, s, Wait(q, 0)) /\ s.lost = r.lost
    /\ e \in Entries /\ e \notin Wait(q, 0) /\ s.zone[e] = z
    /\ zs # <<>> /\ z = zs[Len(zs)] /\ n \in Names /\ <<n, z>> \notin W

\* The zone loaded last is later than any other.
LEMMA LastLater ==
    ASSUME NEW zs \in Seq(Zones), zs # <<>>, NEW y \in ToSet(zs), y # zs[Len(zs)]
    PROVE  Later(zs, zs[Len(zs)], y)
<1>1. PICK i \in 1..Len(zs) : zs[i] = y
  BY DEF ToSet
<1>2. i < Len(zs) /\ Len(zs) \in 1..Len(zs)
  BY <1>1
<1> QED
  BY <1>1, <1>2 DEF Later

\* The links of the queue and the entries they hold.
LEMMA QueueIs ==
    ASSUME NEW q, Spread(q)
    PROVE  /\ q \in Seq(Links) /\ Len(q) \in Nat
           /\ \A j \in 1..Len(q) : /\ q[j].name \in Names /\ q[j].entry \in Entries
                                   /\ q[j].entry \in Wait(q, 0)
           /\ (0 + 1)..Len(q) = 1..Len(q)
           /\ Wait(q, 0) = {q[j].entry : j \in 1..Len(q)}
<1>1. q \in Seq(Links)
  BY DEF Spread
<1>2. (0 + 1)..Len(q) = 1..Len(q) /\ Len(q) \in Nat /\ \A j \in 1..Len(q) : q[j] \in Links
  BY <1>1
<1>3. Wait(q, 0) = {q[j].entry : j \in 1..Len(q)}
  BY <1>2 DEF Wait
<1> QED
  BY <1>1, <1>2, <1>3 DEF Links

\* So it is newer than all that is linked or waits under the name.
Fresh(r, s, q, zs, n, e, z) ==
    /\ z \in Zones /\ z \in ToSet(zs) /\ z # 0
    /\ \A y \in Zoned(r, n) : y # 0 => y \in ToSet(zs) /\ y # z /\ Later(zs, z, y)
    /\ \A j \in 1..Len(q) : q[j].name = n =>
           r.zone[q[j].entry] # z /\ Later(zs, z, r.zone[q[j].entry])
    /\ Ready(s, n, Wait(q, 0) \cup {e}, e, zs)
    /\ \A j \in 1..Len(q) : s.zone[q[j].entry] = r.zone[q[j].entry]

\* The entry of an asset just allocated is ready to be linked.
LEMMA HandedIs ==
    ASSUME NEW r, NEW s, NEW q, NEW zs, NEW W, NEW d, NEW n, NEW e, NEW z,
           Handed(r, s, q, zs, W, d, n, e, z)
    PROVE  Fresh(r, s, q, zs, n, e, z)
<1> USE DEF Handed
<1>1. /\ r \in AnyRegistry /\ zs \in Seq(Zones) /\ Once(zs) /\ Ordered(Line(r, n), zs) /\ n \in Names
      /\ s \in AnyRegistry /\ Apart(s, Wait(q, 0) \cup {e}) /\ Wait(q, 0) \cup {e} \subseteq Entries
      /\ Ordered(Line(s, n), zs)
  BY DEF Kept, Flowing, Fine, Sound
<1>2. Spread(q) /\ Pending(r, q, 0, zs) /\ Owned(r, q, 0, W)
  BY DEF Kept, Flowing
<1>3. z \in Zones /\ z \in ToSet(zs) /\ z # 0
  <2>1. Len(zs) \in 1..Len(zs)
    BY <1>1
  <2>2. z \in Zones /\ z \in ToSet(zs)
    BY <1>1, <2>1 DEF ToSet
  <2> QED
    BY <2>2, RegistryAssumption
<1>4. z \notin Zoned(r, n) /\ ~Waits(r, q, 0, n, z)
  BY <1>1, <1>2, <1>3 DEF Owned
<1>5. ASSUME NEW y \in Zoned(r, n), y # 0 PROVE y \in ToSet(zs) /\ y # z /\ Later(zs, z, y)
  <2>1. y \in ToSet(zs)
    BY <1>1, <1>5, CopyAlone
  <2> QED
    BY <1>1, <1>4, <2>1, LastLater
<1>6. ASSUME NEW j \in 1..Len(q), q[j].name = n
      PROVE  r.zone[q[j].entry] # z /\ Later(zs, z, r.zone[q[j].entry])
  <2>1. j \in (0 + 1)..Len(q)
    BY <1>2, QueueIs
  <2>2. r.zone[q[j].entry] \in ToSet(zs)
    BY <1>2, <2>1 DEF Pending
  <2>3. r.zone[q[j].entry] # z
    BY <1>4, <1>6, <2>1 DEF Waits
  <2> QED
    BY <1>1, <2>2, <2>3, LastLater
<1>7. Newest(s, n, z, zs)
  <2>1. Zoned(s, n) = Zoned(r, n)
    BY <1>1 DEF Aside
  <2> QED
    BY <1>5, <2>1 DEF Newest
<1>8. Ready(s, n, Wait(q, 0) \cup {e}, e, zs)
  BY <1>1, <1>3, <1>7 DEF Ready
<1>9. \A j \in 1..Len(q) : s.zone[q[j].entry] = r.zone[q[j].entry]
  BY <1>2, QueueIs DEF Aside
<1> QED
  BY <1>3, <1>5, <1>6, <1>8, <1>9 DEF Fresh

\* Once linked or queued, the asset is in the books.
LEMMA OwnedMore ==
    ASSUME NEW r, NEW u, NEW q, NEW p, NEW W, NEW n, NEW z \in Zones, Owned(r, q, 0, W),
           \A m \in Names, y \in Zones :
               (y \in Zoned(u, m) \/ Waits(u, p, 0, m, y)) <=>
                   (y \in Zoned(r, m) \/ Waits(r, q, 0, m, y)) \/ (m = n /\ y = z)
    PROVE  Owned(u, p, 0, W \cup {<<n, z>>})
BY DEF Owned

\* DB_PushCopyInfo.
LEMMA Pushes ==
    ASSUME NEW r, NEW s, NEW q, NEW zs, NEW W, NEW d, NEW n, NEW e, NEW z,
           Handed(r, s, q, zs, W, d, n, e, z),
           s.chain[n] # <<>>, IsCopy(s, n) \/ Wins(s, n, e)
    PROVE  Kept(s, Append(q, [name |-> n, entry |-> e]), zs, W \cup {<<n, z>>}, d)
<1> DEFINE l == [name |-> n, entry |-> e]
           p == Append(q, l)
<1>1. /\ r \in AnyRegistry /\ zs \in Seq(Zones) /\ Once(zs) /\ Ordered(Line(s, n), zs) /\ n \in Names
      /\ s \in AnyRegistry /\ e \in Entries /\ e \notin Wait(q, 0)
      /\ Fine(s, Wait(q, 0) \cup {e}, zs, d) /\ Aside(r, s, Wait(q, 0)) /\ s.zone[e] = z /\ s.lost = r.lost
  BY DEF Handed, Kept, Flowing, Fine, Sound
<1>2. Spread(q) /\ Pending(r, q, 0, zs) /\ Owned(r, q, 0, W) /\ Above(r, q) /\ Few(r, d)
  BY DEF Handed, Kept, Flowing
<1>3. /\ q \in Seq(Links) /\ Len(q) \in Nat
      /\ \A j \in 1..Len(q) : /\ q[j].name \in Names /\ q[j].entry \in Entries
                              /\ q[j].entry \in Wait(q, 0)
      /\ (0 + 1)..Len(q) = 1..Len(q)
      /\ Wait(q, 0) = {q[j].entry : j \in 1..Len(q)}
  BY <1>2, QueueIs
<1>4. /\ z \in Zones /\ z \in ToSet(zs) /\ z # 0
      /\ \A y \in Zoned(r, n) : y # 0 => y \in ToSet(zs) /\ y # z /\ Later(zs, z, y)
      /\ \A j \in 1..Len(q) : q[j].name = n =>
             r.zone[q[j].entry] # z /\ Later(zs, z, r.zone[q[j].entry])
      /\ \A j \in 1..Len(q) : s.zone[q[j].entry] = r.zone[q[j].entry]
  <2>1. Fresh(r, s, q, zs, n, e, z)
    BY HandedIs
  <2> QED
    BY <2>1 DEF Fresh
<1>5. /\ p \in Seq(Links) /\ Len(p) = Len(q) + 1 /\ p[Len(q) + 1] = l
      /\ (\A j \in 1..Len(q) : p[j] = q[j])
      /\ (0 + 1)..Len(p) = 1..Len(p) /\ Len(q) + 1 \in 1..Len(p)
      /\ (\A j \in 1..Len(q) : j \in 1..Len(p))
      /\ \A j \in 1..Len(p) : j \in 1..Len(q) \/ j = Len(q) + 1
  <2>1. l \in Links
    BY <1>1 DEF Links
  <2> HIDE DEF l
  <2> QED
    BY <1>3, <2>1
<1>6. l.name = n /\ l.entry = e
  OBVIOUS
<1> HIDE DEF p, l
<1>7. Spread(p)
  <2>1. ASSUME NEW i \in 1..Len(p), NEW j \in 1..Len(p), p[i].entry = p[j].entry PROVE i = j
    <3>1. \A k \in 1..Len(q) : p[k].entry # e
      BY <1>1, <1>3, <1>5
    <3> QED
      BY <1>2, <1>5, <1>6, <2>1, <3>1 DEF Spread
  <2> QED
    BY <1>5, <2>1 DEF Spread
<1>8. Wait(p, 0) = Wait(q, 0) \cup {e}
  <2>1. Wait(p, 0) = {p[j].entry : j \in 1..Len(p)}
    BY <1>5 DEF Wait
  <2> QED
    BY <1>3, <1>5, <1>6, <2>1
<1>9. \A m \in Names : Zoned(s, m) = Zoned(r, m) /\ s.chain[m] = r.chain[m]
  BY <1>1 DEF Aside
<1>10. Pending(s, p, 0, zs)
  <2>1. ASSUME NEW j \in 1..Len(p)
        PROVE  /\ s.chain[p[j].name] # <<>> /\ s.zone[p[j].entry] \in ToSet(zs)
               /\ Newest(s, p[j].name, s.zone[p[j].entry], zs)
    <3>1. CASE j \in 1..Len(q)
      <4>1. /\ r.chain[q[j].name] # <<>> /\ r.zone[q[j].entry] \in ToSet(zs)
            /\ Newest(r, q[j].name, r.zone[q[j].entry], zs)
        BY <1>2, <1>3, <3>1 DEF Pending
      <4> QED
        BY <1>3, <1>4, <1>5, <1>9, <3>1, <4>1 DEF Newest
    <3>2. CASE j = Len(q) + 1
      <4>1. Newest(s, n, z, zs)
        BY <1>1, <1>4, <1>9 DEF Newest
      <4> QED
        BY <1>1, <1>4, <1>5, <1>6, <3>2, <4>1
    <3> QED
      BY <1>5, <3>1, <3>2
  <2>2. ASSUME NEW i \in 1..Len(p), NEW j \in 1..Len(p), i < j, p[i].name = p[j].name
        PROVE  Later(zs, s.zone[p[j].entry], s.zone[p[i].entry])
    <3>1. i \in 1..Len(q)
      BY <1>3, <1>5, <2>2
    <3>2. CASE j \in 1..Len(q)
      <4>1. Later(zs, r.zone[q[j].entry], r.zone[q[i].entry])
        BY <1>2, <1>3, <1>5, <2>2, <3>1, <3>2 DEF Pending
      <4> QED
        BY <1>4, <1>5, <3>1, <3>2, <4>1
    <3>3. CASE j = Len(q) + 1
      BY <1>1, <1>4, <1>5, <1>6, <2>2, <3>1, <3>3
    <3> QED
      BY <1>5, <3>2, <3>3
  <2> QED
    BY <1>5, <2>1, <2>2 DEF Pending
<1>11. Owned(s, p, 0, W \cup {<<n, z>>})
  <2>1. ASSUME NEW m \in Names, NEW y \in Zones
        PROVE  (y \in Zoned(s, m) \/ Waits(s, p, 0, m, y)) <=>
                   (y \in Zoned(r, m) \/ Waits(r, q, 0, m, y)) \/ (m = n /\ y = z)
    <3>1. Waits(s, p, 0, m, y) <=> \E j \in 1..Len(p) : p[j].name = m /\ s.zone[p[j].entry] = y
      BY <1>5 DEF Waits
    <3>2. Waits(r, q, 0, m, y) <=> \E j \in 1..Len(q) : q[j].name = m /\ r.zone[q[j].entry] = y
      BY <1>3 DEF Waits
    <3>3. Waits(s, p, 0, m, y) <=> Waits(r, q, 0, m, y) \/ (m = n /\ y = z)
      BY <1>1, <1>4, <1>5, <1>6, <3>1, <3>2, SMTT(30)
    <3> QED
      BY <1>9, <3>3
  <2> QED
    BY <1>2, <1>4, <2>1, OwnedMore
<1>12. \A y \in Zoned(s, n) : y # 0 => Priority[z] >= Priority[y]
  <2>1. CASE IsCopy(s, n)
    <3>1. Zoned(s, n) = {0}
      BY <1>1, <2>1, CopyAlone
    <3> QED
      BY <3>1
  <2>2. CASE ~IsCopy(s, n)
    <3>1. Down(Line(s, n))
      BY <1>1, <2>2, LineDown
    <3>2. /\ Len(Line(s, n)) = Len(s.chain[n]) /\ Zoned(s, n) = Elems(Line(s, n))
          /\ \A i \in 1..Len(s.chain[n]) : Line(s, n)[i] = s.zone[s.chain[n][i]]
      BY <1>1, LineBasics
    <3>3. HeadOf(s, n) = s.chain[n][1] /\ 1 \in 1..Len(s.chain[n])
      <4>1. s.chain[n] \in Seq(Entries) /\ Len(s.chain[n]) # 0 /\ Len(s.chain[n]) \in Nat
        BY <1>1, OfBasics
      <4> QED
        BY <4>1 DEF HeadOf
    <3>4. Priority[z] >= Priority[Line(s, n)[1]]
      BY <1>1, <2>2, <3>2, <3>3 DEF Wins
    <3>5. ASSUME NEW y \in Zoned(s, n) PROVE Priority[z] >= Priority[y]
      <4>1. PICK i \in 1..Len(Line(s, n)) : y = Line(s, n)[i]
        BY <3>2 DEF Elems
      <4>2. 1 \in 1..Len(Line(s, n)) /\ 1 <= i
        BY <3>2, <3>3
      <4>3. Priority[Line(s, n)[1]] >= Priority[y] /\ Priority[Line(s, n)[1]] \in Int /\ Priority[y] \in Int
        BY <3>1, <4>1, <4>2 DEF Down
      <4>4. Priority[z] \in Int
        BY <1>4, RegistryAssumption
      <4> QED
        BY <3>4, <4>3, <4>4
    <3> QED
      BY <3>5
  <2> QED
    BY <2>1, <2>2
<1>13. Above(s, p)
  <2>1. ASSUME NEW j \in 1..Len(p), NEW y \in Zoned(s, p[j].name), y # 0
        PROVE  Priority[s.zone[p[j].entry]] >= Priority[y]
    <3>1. CASE j \in 1..Len(q)
      <4>1. Priority[r.zone[q[j].entry]] >= Priority[y]
        BY <1>2, <1>3, <1>5, <1>9, <2>1, <3>1 DEF Above
      <4> QED
        BY <1>4, <1>5, <3>1, <4>1
    <3>2. CASE j = Len(q) + 1
      BY <1>1, <1>5, <1>6, <1>12, <2>1, <3>2
    <3> QED
      BY <1>5, <3>1, <3>2
  <2> QED
    BY <2>1 DEF Above
<1>14. Few(s, d)
  BY <1>1, <1>2 DEF Few
<1>15. Kept(s, p, zs, W \cup {<<n, z>>}, d)
  BY <1>1, <1>7, <1>8, <1>10, <1>11, <1>13, <1>14 DEF Kept, Flowing
<1> QED
  BY <1>15 DEF p, l
\* DB_LinkXAssetEntryOverrideAware at once: the zone is loaded synchronously, or nothing
\* waits that the asset could come before.
AtOnce(s, q, n, e) ==
    q = <<>> \/ s.chain[n] = <<>> \/ (~IsCopy(s, n) /\ ~Wins(s, n, e))

\* Linking an asset at once keeps the accounts, of the queue too.
LEMMA LinksNow ==
    ASSUME NEW r, NEW s, NEW q, NEW zs, NEW W, NEW d, NEW n, NEW e, NEW z,
           Handed(r, s, q, zs, W, d, n, e, z), AtOnce(s, q, n, e)
    PROVE  LET u == Arbitrate(s, n, e)
           IN  Kept(u, q, zs, W \cup {<<n, z>>}, d) /\ KeptUp(r, u)
<1> DEFINE u == Arbitrate(s, n, e)
           X == Wait(q, 0) \cup {e}
           Y == {e}
<1>1. /\ r \in AnyRegistry /\ zs \in Seq(Zones) /\ Once(zs) /\ Ordered(Line(s, n), zs) /\ n \in Names
      /\ s \in AnyRegistry /\ e \in Entries /\ e \notin Wait(q, 0)
      /\ Fine(s, X, zs, d) /\ Aside(r, s, Wait(q, 0)) /\ s.zone[e] = z /\ s.lost = r.lost
      /\ \A m \in Names : Ordered(Line(r, m), zs)
  BY DEF Handed, Kept, Flowing, Fine, Sound
<1>2. Spread(q) /\ Pending(r, q, 0, zs) /\ Owned(r, q, 0, W) /\ Above(r, q) /\ Few(r, d)
  BY DEF Handed, Kept, Flowing
<1>3. /\ q \in Seq(Links) /\ Len(q) \in Nat
      /\ \A j \in 1..Len(q) : /\ q[j].name \in Names /\ q[j].entry \in Entries
                              /\ q[j].entry \in Wait(q, 0)
      /\ (0 + 1)..Len(q) = 1..Len(q)
  BY <1>2, QueueIs
<1>4. /\ z \in Zones /\ z \in ToSet(zs) /\ z # 0
      /\ \A j \in 1..Len(q) : q[j].name = n =>
             r.zone[q[j].entry] # z /\ Later(zs, z, r.zone[q[j].entry])
      /\ \A j \in 1..Len(q) : s.zone[q[j].entry] = r.zone[q[j].entry]
      /\ Ready(s, n, X, e, zs)
  <2>1. Fresh(r, s, q, zs, n, e, z)
    BY HandedIs
  <2> QED
    BY <2>1 DEF Fresh
<1>5. X \ Y = Wait(q, 0)
  BY <1>1
<1> HIDE DEF X
<1>6. Shape(s, u, n, X, Y) /\ Took(s, u, n, e) /\ Ordered(Line(u, n), zs)
  BY <1>1, <1>4, ArbitrateTakes
<1> HIDE DEF u, Y
<1>7. Counts(s, u, n)
  BY <1>6 DEF Took, Counts
<1>8. Fine(u, X \ Y, zs, d) /\ u.lost = s.lost
  BY <1>1, <1>6, <1>7, FineStep
<1>9. /\ \A m \in Names \ {n} : SameAt(s, u, m)
      /\ \A x \in X \ Y : u.zone[x] = s.zone[x]
  <2>1. \A m \in Names \ {n} : SameAt(s, u, m)
    BY <1>1, <1>6, ShapeKeeps
  <2>2. ASSUME NEW x \in X \ Y PROVE u.zone[x] = s.zone[x]
    <3>1. x \in Entries /\ x \notin Of(s, n)
      BY <1>1, <1>6, OfBasics DEF Shape, Apart
    <3> QED
      BY <1>6, <2>2, <3>1 DEF Shape, Within
  <2> QED
    BY <2>1, <2>2
<1>10. Fine(u, Wait(q, 0), zs, d) /\ \A j \in 1..Len(q) : u.zone[q[j].entry] = r.zone[q[j].entry]
  BY <1>3, <1>4, <1>5, <1>8, <1>9
<1>11. \A m \in Names : /\ Zoned(u, m) = IF m = n THEN (Zoned(r, m) \ {0}) \cup {z} ELSE Zoned(r, m)
                        /\ r.chain[m] # <<>> => u.chain[m] # <<>>
  <2>1. Zoned(u, n) = (Zoned(r, n) \ {0}) \cup {z} /\ u.chain[n] # <<>>
    BY <1>1, <1>6 DEF Took, Aside
  <2>2. ASSUME NEW m \in Names, m # n PROVE Zoned(u, m) = Zoned(r, m) /\ u.chain[m] = r.chain[m]
    <3>1. SameAt(s, u, m)
      BY <1>9, <2>2
    <3> QED
      BY <1>1, <3>1 DEF SameAt, Aside
  <2> QED
    BY <2>1, <2>2
\* What waits under the name outranks the new zone.
<1>12. ASSUME NEW j \in 1..Len(q), q[j].name = n
       PROVE  Priority[r.zone[q[j].entry]] > Priority[z]
  <2>1. q # <<>> /\ s.chain[n] # <<>>
    <3>1. r.chain[n] # <<>>
      BY <1>2, <1>3, <1>12 DEF Pending
    <3>2. s.chain = r.chain
      BY <1>1 DEF Aside
    <3> QED
      BY <1>12, <3>1, <3>2
  <2>2. ~IsCopy(s, n) /\ ~Wins(s, n, e)
    BY <2>1 DEF AtOnce
  <2>3. HeadOf(s, n) \in Of(s, n)
    BY <1>1, <2>1, OfBasics
  <2> DEFINE y == s.zone[HeadOf(s, n)]
  <2>4. y \in Zoned(s, n) /\ y # 0
    BY <2>1, <2>2, <2>3 DEF Zoned, IsCopy
  <2>5. y \in Zoned(r, n) /\ y \in Zones
    <3>1. Zoned(s, n) = Zoned(r, n)
      BY <1>1 DEF Aside
    <3>2. Zoned(s, n) \subseteq Zones \cup {0}
      BY <1>1, LineBasics
    <3> QED
      BY <2>4, <3>1, <3>2
  <2>6. ~(Priority[z] >= Priority[y])
    BY <1>1, <2>2 DEF Wins
  <2>7. Priority[r.zone[q[j].entry]] >= Priority[y]
    BY <1>2, <1>12, <2>4, <2>5 DEF Above
  <2>8. r.zone[q[j].entry] \in Zones
    <3>1. r.zone[q[j].entry] \in ToSet(zs)
      BY <1>2, <1>3 DEF Pending
    <3> QED
      BY <1>1, <3>1 DEF ToSet
  <2>9. Priority[r.zone[q[j].entry]] \in Int /\ Priority[y] \in Int /\ Priority[z] \in Int
    BY <1>4, <2>5, <2>8, RegistryAssumption
  <2> HIDE DEF y
  <2> QED
    BY <2>6, <2>7, <2>9
<1>13. \A j \in 1..Len(q) : r.zone[q[j].entry] \in Zones /\ Priority[r.zone[q[j].entry]] \in Int
  <2>1. \A j \in 1..Len(q) : r.zone[q[j].entry] \in ToSet(zs)
    BY <1>2, <1>3 DEF Pending
  <2>2. \A j \in 1..Len(q) : r.zone[q[j].entry] \in Zones
    BY <1>1, <2>1 DEF ToSet
  <2> QED
    BY <2>2, RegistryAssumption
<1>14. Pending(u, q, 0, zs)
  <2>1. ASSUME NEW j \in 1..Len(q)
        PROVE  /\ u.chain[q[j].name] # <<>> /\ u.zone[q[j].entry] \in ToSet(zs)
               /\ Newest(u, q[j].name, u.zone[q[j].entry], zs)
    <3>1. /\ r.chain[q[j].name] # <<>> /\ r.zone[q[j].entry] \in ToSet(zs)
          /\ Newest(r, q[j].name, r.zone[q[j].entry], zs)
      BY <1>2, <1>3, <2>1 DEF Pending
    <3>2. ASSUME NEW y \in Zoned(u, q[j].name), y # 0, Priority[y] = Priority[r.zone[q[j].entry]]
          PROVE  Later(zs, r.zone[q[j].entry], y)
      <4>1. y \in Zoned(r, q[j].name) \/ (q[j].name = n /\ y = z)
        BY <1>3, <1>11
      <4>2. ~(q[j].name = n /\ y = z)
        <5>1. ASSUME q[j].name = n, y = z PROVE FALSE
          <6>1. Priority[r.zone[q[j].entry]] > Priority[z] /\ Priority[z] \in Int
            BY <1>4, <1>12, <5>1, RegistryAssumption
          <6> QED
            BY <3>2, <5>1, <6>1, <1>13
        <5> QED
          BY <5>1
      <4> QED
        BY <3>1, <3>2, <4>1, <4>2 DEF Newest
    <3> QED
      BY <1>3, <1>10, <1>11, <3>1, <3>2 DEF Newest
  <2>2. ASSUME NEW i \in 1..Len(q), NEW j \in 1..Len(q), i < j, q[i].name = q[j].name
        PROVE  Later(zs, u.zone[q[j].entry], u.zone[q[i].entry])
    BY <1>2, <1>3, <1>10, <2>2 DEF Pending
  <2> QED
    BY <1>3, <2>1, <2>2 DEF Pending
<1>15. Owned(u, q, 0, W \cup {<<n, z>>})
  <2>1. ASSUME NEW m \in Names, NEW y \in Zones
        PROVE  (y \in Zoned(u, m) \/ Waits(u, q, 0, m, y)) <=>
                   (y \in Zoned(r, m) \/ Waits(r, q, 0, m, y)) \/ (m = n /\ y = z)
    <3>1. Waits(u, q, 0, m, y) <=> Waits(r, q, 0, m, y)
      BY <1>3, <1>10 DEF Waits
    <3>2. y # 0
      BY RegistryAssumption
    <3> QED
      BY <1>11, <3>1, <3>2
  <2> QED
    BY <1>2, <1>4, <2>1, OwnedMore
<1>16. Above(u, q)
  <2>1. ASSUME NEW j \in 1..Len(q), NEW y \in Zoned(u, q[j].name), y # 0
        PROVE  Priority[u.zone[q[j].entry]] >= Priority[y]
    <3>1. y \in Zoned(r, q[j].name) \/ (q[j].name = n /\ y = z)
      BY <1>3, <1>11
    <3>2. CASE y \in Zoned(r, q[j].name)
      BY <1>2, <1>10, <2>1, <3>2 DEF Above
    <3>3. CASE q[j].name = n /\ y = z
      <4>1. Priority[r.zone[q[j].entry]] > Priority[z] /\ Priority[z] \in Int
        BY <1>4, <1>12, <3>3, RegistryAssumption
      <4> QED
        BY <1>10, <1>13, <3>3, <4>1
    <3> QED
      BY <3>1, <3>2, <3>3
  <2> QED
    BY <2>1 DEF Above
<1>17. Few(u, d)
  BY <1>1, <1>2, <1>8 DEF Few
<1>18. KeptUp(r, u)
  <2>1. KeptUp(r, s)
    BY <1>1, AsideKeeps
  <2>2. KeptUp(s, u)
    <3>1. s.told \subseteq u.told /\ (s.chain[n] # <<>> => u.chain[n] # <<>> /\ HeadStays(s, u, n))
      BY <1>6 DEF Took
    <3>2. ASSUME NEW m \in Names, m # n, s.chain[m] # <<>>
          PROVE  u.chain[m] # <<>> /\ HeadStays(s, u, m)
      <4>1. SameAt(s, u, m) /\ HeadOf(s, m) \in Of(s, m)
        BY <1>1, <1>9, <3>2, OfBasics
      <4> QED
        BY <3>2, <4>1 DEF SameAt, HeadStays
    <3> QED
      BY <3>1, <3>2 DEF KeptUp
  <2> QED
    BY <2>1, <2>2, KeptUpJoins
<1>19. Kept(u, q, zs, W \cup {<<n, z>>}, d) /\ KeptUp(r, u)
  BY <1>2, <1>10, <1>14, <1>15, <1>16, <1>17, <1>18 DEF Kept, Flowing
<1> QED
  BY <1>19 DEF u
-----------------------------------------------------------------------------
(* Changes to the table of zones *)

\* What is on the later table is in the order of the earlier one.
Survive(zs, ys) ==
    /\ ys \in Seq(Zones) /\ Once(ys)
    /\ \A y, x \in ToSet(ys) : Later(zs, y, x) => Later(ys, y, x)

\* A zone put at the end of the table changes no order.
LEMMA AppendSurvives ==
    ASSUME NEW zs \in Seq(Zones), Once(zs), NEW z \in Zones, z \notin ToSet(zs)
    PROVE  /\ Survive(zs, Append(zs, z)) /\ ToSet(Append(zs, z)) = ToSet(zs) \cup {z}
           /\ Append(zs, z) # <<>> /\ Append(zs, z)[Len(Append(zs, z))] = z
           /\ \A y, x : Later(zs, y, x) => Later(Append(zs, z), y, x)
<1> DEFINE ys == Append(zs, z)
           n == Len(zs)
<1>1. /\ n \in Nat /\ ys \in Seq(Zones) /\ Len(ys) = n + 1 /\ ys[n + 1] = z
      /\ (\A i \in 1..n : ys[i] = zs[i] /\ i \in 1..(n + 1))
      /\ (\A i \in 1..(n + 1) : i \in 1..n \/ i = n + 1)
      /\ n + 1 \in 1..(n + 1) /\ ys # <<>>
  OBVIOUS
<1> HIDE DEF ys
<1>2. \A i \in 1..n : zs[i] # z
  BY DEF ToSet
<1>3. Once(ys)
  BY <1>1, <1>2 DEF Once
<1>4. ToSet(ys) = ToSet(zs) \cup {z}
  <2>1. DOMAIN ys = 1..(n + 1) /\ DOMAIN zs = 1..n
    BY <1>1
  <2> QED
    BY <1>1, <2>1 DEF ToSet
<1>5. \A y, x : Later(zs, y, x) => Later(ys, y, x)
  BY <1>1 DEF Later
<1>6. Survive(zs, ys)
  BY <1>1, <1>3, <1>5 DEF Survive
<1> QED
  BY <1>1, <1>4, <1>5, <1>6 DEF ys

\* Nor do zones taken off it.
LEMMA WithoutSurvives ==
    ASSUME NEW zs \in Seq(Zones), Once(zs), NEW S
    PROVE  Survive(zs, Without(zs, S)) /\ ToSet(Without(zs, S)) = ToSet(zs) \ S
<1> DEFINE ys == Without(zs, S)
<1>1. ys \in Seq(Zones) /\ Sifted(zs, S, ys)
  BY WithoutSifts
<1> HIDE DEF ys
<1>2. PICK f : /\ Rising(f, Len(ys), Len(zs))
               /\ \A i \in 1..Len(ys) : ys[i] = zs[f[i]] /\ zs[f[i]] \notin S
               /\ \A j \in 1..Len(zs) : zs[j] \notin S => \E i \in 1..Len(ys) : f[i] = j
  BY <1>1 DEF Sifted, SiftedTo
<1>3. Len(ys) \in Nat /\ Len(zs) \in Nat /\ DOMAIN ys = 1..Len(ys) /\ DOMAIN zs = 1..Len(zs)
      /\ \A i \in 1..Len(ys) : f[i] \in 1..Len(zs)
  <2>1. f \in [1..Len(ys) -> 1..Len(zs)]
    BY <1>2 DEF Rising
  <2> QED
    BY <1>1, <2>1
<1>4. \A i, j \in 1..Len(ys) : f[i] = f[j] => i = j
  BY <1>2, <1>3, RisingOnce
<1>5. Once(ys)
  BY <1>2, <1>3, <1>4 DEF Once
<1>6. ToSet(ys) = ToSet(zs) \ S
  <2>1. ASSUME NEW x PROVE x \in ToSet(ys) <=> x \in ToSet(zs) \ S
    <3>1. x \in ToSet(ys) => x \in ToSet(zs) /\ x \notin S
      BY <1>2, <1>3 DEF ToSet
    <3>2. ASSUME x \in ToSet(zs), x \notin S PROVE x \in ToSet(ys)
      <4>1. PICK j \in 1..Len(zs) : zs[j] = x
        BY <1>3, <3>2 DEF ToSet
      <4>2. PICK i \in 1..Len(ys) : f[i] = j
        BY <1>2, <3>2, <4>1
      <4> QED
        BY <1>2, <1>3, <4>1, <4>2 DEF ToSet
    <3> QED
      BY <3>1, <3>2
  <2> QED
    BY <2>1
<1>7. ASSUME NEW y \in ToSet(ys), NEW x \in ToSet(ys), Later(zs, y, x) PROVE Later(ys, y, x)
  <2>1. PICK i, j \in 1..Len(zs) : j < i /\ zs[i] = y /\ zs[j] = x
    BY <1>7 DEF Later
  <2>2. zs[i] \notin S /\ zs[j] \notin S
    BY <1>6, <1>7, <2>1
  <2>3. PICK k \in 1..Len(ys) : f[k] = i
    BY <1>2, <2>2
  <2>4. PICK l \in 1..Len(ys) : f[l] = j
    BY <1>2, <2>2
  <2>5. l < k
    <3>1. k < l => f[k] < f[l]
      BY <1>2 DEF Rising
    <3>2. k # l
      BY <2>1, <2>3, <2>4
    <3>3. ~(i < j)
      BY <2>1
    <3>4. ~(k < l)
      BY <2>3, <2>4, <3>1, <3>3
    <3> HIDE DEF ys
    <3> QED
      BY <1>3, <3>2, <3>4
  <2>6. ys[k] = y /\ ys[l] = x
    BY <1>2, <2>1, <2>3, <2>4
  <2> QED
    BY <2>5, <2>6 DEF Later
<1>8. Survive(zs, ys)
  BY <1>1, <1>5, <1>7 DEF Survive
<1> QED
  BY <1>6, <1>8 DEF ys

\* A registry is as sound under the table that comes next.
LEMMA SoundMoves ==
    ASSUME NEW r, NEW X, NEW zs, NEW ys, Sound(r, X, zs), Survive(zs, ys),
           \A n \in Names : Zoned(r, n) \subseteq ToSet(ys) \cup {0}
    PROVE  /\ Sound(r, X, ys)
           /\ \A d : Fine(r, X, zs, d) => Fine(r, X, ys, d)
<1>1. ASSUME NEW n \in Names PROVE Ordered(Line(r, n), ys)
  <2>1. Ordered(Line(r, n), zs) /\ r \in AnyRegistry
    BY DEF Sound
  <2> DEFINE l == Line(r, n)
  <2>2. Zoned(r, n) = Elems(l)
    BY <2>1, LineBasics
  <2>3. \A i \in 1..Len(l) : l[i] \in ToSet(ys) \cup {0}
    <3> HIDE DEF l
    <3> QED
      BY <2>2 DEF Elems
  <2>4. ASSUME NEW i \in 1..Len(l), NEW j \in 1..Len(l), i < j
        PROVE  l[i] # 0 /\ l[j] # 0 /\ Precedes(ys, l[i], l[j])
    <3>1. l[i] # 0 /\ l[j] # 0 /\ Precedes(zs, l[i], l[j])
      BY <2>1, <2>4 DEF Ordered
    <3> HIDE DEF l
    <3>2. l[i] \in ToSet(ys) /\ l[j] \in ToSet(ys)
      BY <2>3, <3>1
    <3> QED
      BY <3>1, <3>2 DEF Precedes, Survive
  <2> QED
    BY <2>3, <2>4 DEF Ordered
<1>2. Sound(r, X, ys)
  BY <1>1 DEF Sound, Survive
<1> QED
  BY <1>2 DEF Fine

\* The asset linked next, the zone loaded next, and the zones that go.
Linking(zs, l, t, n) ==
    /\ l \in Zones /\ l \in ToSet(zs) /\ n \in Names /\ n \in Content[l] /\ <<n, FALSE>> \in t

WantsMore(zs, l, t, n) ==
    /\ Wanted(zs, l, t \ {<<n, FALSE>>}) = Wanted(zs, l, t) \cup {<<n, l>>}
    /\ <<n, l>> \notin Wanted(zs, l, t)

\* An asset linked is one more that is to be found.
LEMMA WantedLinked ==
    ASSUME NEW zs, NEW l, NEW t, NEW n, Linking(zs, l, t, n)
    PROVE  WantsMore(zs, l, t, n)
<1> USE DEF Linking
<1>1. ASSUME NEW m \in Names, NEW z \in Zones
      PROVE  <<m, z>> \in Wanted(zs, l, t \ {<<n, FALSE>>}) <=> <<m, z>> \in Wanted(zs, l, t) \cup {<<n, l>>}
  <2>1. <<m, FALSE>> \in t \ {<<n, FALSE>>} <=> <<m, FALSE>> \in t /\ m # n
    OBVIOUS
  <2> QED
    BY <2>1 DEF Wanted
<1>2. \A w \in Wanted(zs, l, t \ {<<n, FALSE>>}) : w \in Names \X Zones
  BY DEF Wanted
<1>3. \A w \in Wanted(zs, l, t) \cup {<<n, l>>} : w \in Names \X Zones
  BY DEF Wanted
<1>4. Wanted(zs, l, t \ {<<n, FALSE>>}) = Wanted(zs, l, t) \cup {<<n, l>>}
  <2> DEFINE A == Wanted(zs, l, t \ {<<n, FALSE>>})
             B == Wanted(zs, l, t) \cup {<<n, l>>}
  <2> HIDE DEF Wanted, A, B
  <2>1. ASSUME NEW w \in Names \X Zones PROVE w \in A <=> w \in B
    <3>1. w = <<w[1], w[2]>> /\ w[1] \in Names /\ w[2] \in Zones
      OBVIOUS
    <3>2. <<w[1], w[2]>> \in A <=> <<w[1], w[2]>> \in B
      BY <1>1, <3>1 DEF A, B
    <3> QED
      BY <3>1, <3>2
  <2>2. A = B
    BY <1>2, <1>3, <2>1 DEF A, B
  <2> QED
    BY <2>2 DEF A, B
<1> QED
  BY <1>4 DEF Wanted, WantsMore

\* A comma name links no asset, nor does the end of a load.
LEMMA WantedSame ==
    ASSUME NEW zs, NEW t, NEW l, NEW n
    PROVE  /\ Wanted(zs, l, t \ {<<n, TRUE>>}) = Wanted(zs, l, t)
           /\ Wanted(zs, l, {}) = Wanted(zs, 0, {})
<1>1. \A m : <<m, FALSE>> \in t \ {<<n, TRUE>>} <=> <<m, FALSE>> \in t
  OBVIOUS
<1>2. \A m : <<m, FALSE>> \notin {}
  OBVIOUS
<1> QED
  BY <1>1, <1>2 DEF Wanted

\* At the start of a load none of its assets is to be found.
LEMMA WantedLoading ==
    ASSUME NEW zs \in Seq(Zones), Once(zs), NEW z \in Zones, z \notin ToSet(zs),
           NEW t, \A n \in Content[z] : <<n, FALSE>> \in t
    PROVE  Wanted(Append(zs, z), z, t) = Wanted(zs, 0, {})
<1>1. ToSet(Append(zs, z)) = ToSet(zs) \cup {z}
  BY AppendSurvives
<1> QED
  BY <1>1 DEF Wanted

\* What is to be found after an unload.
LEMMA WantedLeft ==
    ASSUME NEW zs, NEW ys, NEW S, ToSet(ys) = ToSet(zs) \ S, NEW n \in Names, NEW z \in Zones
    PROVE  <<n, z>> \in Wanted(ys, 0, {}) <=> <<n, z>> \in Wanted(zs, 0, {}) /\ z \notin S
BY DEF Wanted
-----------------------------------------------------------------------------
(* The steps *)

\* What every step but an unload shows to whoever holds a header.
Stays(r, s) == \A n \in Names : r.chain[n] # <<>> => HeadOf(s, n) = HeadOf(r, n)

Hears(r, s) ==
    \A n \in Names : LET e == HeadOf(r, n) IN
        e # NoEntry /\ e = HeadOf(s, n) /\ e \in r.inuse /\ s.data[e] # r.data[e] => e \in s.told

\* To whoever holds a header, a step that keeps heads shows just what it tells.
LEMMA KeptUpShows ==
    ASSUME NEW r \in AnyRegistry, NEW s, KeptUp(Quiet(r), s)
    PROVE  Stays(r, s) /\ Hears(r, s)
<1>1. /\ Quiet(r).chain = r.chain /\ Quiet(r).data = r.data /\ Quiet(r).inuse = r.inuse
      /\ \A n : HeadOf(Quiet(r), n) = HeadOf(r, n)
  BY QuietIs DEF Remarked, HeadOf
<1>2. \A n \in Names : HeadOf(r, n) # NoEntry => r.chain[n] # <<>>
  BY DEF HeadOf
<1>3. \A n \in Names : r.chain[n] # <<>> => HeadStays(Quiet(r), s, n)
  BY <1>1 DEF KeptUp
<1>4. Stays(r, s)
  BY <1>1, <1>3 DEF Stays, HeadStays
<1>5. Hears(r, s)
  BY <1>1, <1>2, <1>3 DEF Hears, HeadStays
<1> QED
  BY <1>4, <1>5

\* The accounts do not depend on what was told last.
LEMMA QuietKept ==
    ASSUME NEW r, NEW q, NEW zs, NEW W, NEW d, Kept(r, q, zs, W, d)
    PROVE  Kept(Quiet(r), q, zs, W, d)
<1>1. r \in AnyRegistry /\ Fine(r, Wait(q, 0), zs, d) /\ Few(r, d)
  BY DEF Kept, Flowing, Fine, Sound
<1> DEFINE s == Quiet(r)
<1>2. Retold(r, s)
  BY <1>1, QuietIs
<1> HIDE DEF s
<1>3. Fine(s, Wait(q, 0), zs, d)
  BY <1>1, <1>2, RetoldFine
<1>4. Few(s, d)
  BY <1>1, <1>2 DEF Few, Retold
<1>5. \A n \in Names : /\ Zoned(s, n) \ {0} = Zoned(r, n) \ {0}
                       /\ r.chain[n] # <<>> => s.chain[n] # <<>>
  BY <1>2, RetoldSame DEF Retold
<1>6. \A x \in Wait(q, 0) : s.zone[x] = r.zone[x]
  BY <1>2 DEF Retold
<1>7. Kept(s, q, zs, W, d)
  BY <1>1, <1>3, <1>4, <1>5, <1>6, KeptSame
<1> QED
  BY <1>7 DEF s

\* The invariant, in a state the process goes on from and in one it does not.
LEMMA Lives ==
    ASSUME Kept(db', queue', zones', Wanted(zones', loading', todo'), drops'),
           Working(queue', zones', loading', todo', sync'),
           loading' \in Zones \cup {0}, todo' \subseteq Names \X BOOLEAN,
           sync' \in BOOLEAN, halted' \in BOOLEAN, drops' \in 0..MaxDrops
    PROVE  IInv'
<1>1. /\ Fine(db', Wait(queue', 0), zones', drops') /\ Sound(db', Wait(queue', 0), zones')
      /\ Spread(queue')
  BY DEF Kept, Flowing, Fine
<1>2. db' \in AnyRegistry /\ zones' \in Seq(Zones) /\ queue' \in Seq([name : Names, entry : Entries])
  BY <1>1 DEF Sound, Spread, Links
<1>3. db' \in Registry
  BY <1>1, <1>2, RegistryIs
<1> QED
  BY <1>1, <1>2, <1>3 DEF IInv, TypeOK

\* An error that ends the process.
LEMMA Halts ==
    ASSUME TypeOK, Spread(queue), Sound(db', Wait(queue, 0), zones), db'.refs = db.refs,
           todo' \subseteq todo, halted' = TRUE, UNCHANGED <<queue, zones, loading, sync, drops>>
    PROVE  IInv'
<1>1. db' \in AnyRegistry
  BY DEF Sound
<1>2. db' \in Registry
  BY <1>1, RegistryIs DEF TypeOK, Registry
<1>3. todo' \subseteq Names \X BOOLEAN
  BY DEF TypeOK
<1> QED
  BY <1>2, <1>3 DEF IInv, TypeOK

\* What the invariant says in a state some action can be taken in.
LEMMA Running ==
    ASSUME IInv, ~halted
    PROVE  /\ TypeOK /\ Spread(queue) /\ drops \in Nat /\ drops \in 0..MaxDrops
           /\ db \in AnyRegistry /\ db \in Registry /\ Quiet(db) \in AnyRegistry
           /\ Kept(Quiet(db), queue, zones, Wanted(zones, loading, todo), drops)
           /\ Fine(Quiet(db), Wait(queue, 0), zones, drops)
           /\ Sound(Quiet(db), Wait(queue, 0), zones)
           /\ Working(queue, zones, loading, todo, sync)
           /\ zones \in Seq(Zones) /\ Once(zones)
           /\ \A n : HeadOf(Quiet(db), n) = HeadOf(db, n)
           /\ Quiet(db).refs = db.refs /\ Quiet(db).chain = db.chain /\ Quiet(db).free = db.free
           /\ FindDefaultAsset(Quiet(db)) = FindDefaultAsset(db)
           /\ NextFree(Quiet(db)) = NextFree(db)
<1>1. /\ TypeOK /\ Spread(queue) /\ Kept(db, queue, zones, Wanted(zones, loading, todo), drops)
      /\ Working(queue, zones, loading, todo, sync)
  BY DEF IInv
<1>2. db \in AnyRegistry /\ db \in Registry /\ drops \in 0..MaxDrops /\ drops \in Nat
  BY <1>1, AnyOf, RegistryAssumption DEF TypeOK
<1>3. Kept(Quiet(db), queue, zones, Wanted(zones, loading, todo), drops)
  BY <1>1, QuietKept
<1>4. Fine(Quiet(db), Wait(queue, 0), zones, drops) /\ Sound(Quiet(db), Wait(queue, 0), zones)
  BY <1>3 DEF Kept, Flowing, Fine
<1>5. zones \in Seq(Zones) /\ Once(zones)
  BY <1>4 DEF Sound
<1>6. /\ Quiet(db) \in AnyRegistry /\ Quiet(db).refs = db.refs
      /\ Quiet(db).chain = db.chain /\ Quiet(db).free = db.free
      /\ FindDefaultAsset(Quiet(db)) = FindDefaultAsset(db)
      /\ NextFree(Quiet(db)) = NextFree(db)
  BY <1>2, QuietIs DEF Remarked
<1>7. \A n : HeadOf(Quiet(db), n) = HeadOf(db, n)
  BY <1>6 DEF HeadOf
<1> QED
  BY <1>1, <1>2, <1>3, <1>4, <1>5, <1>6, <1>7

\* A zone is begun.
LEMMA StartLoadSteps ==
    ASSUME IInv, NEW z \in Zones, NEW s \in BOOLEAN, StartLoad(z, s)
    PROVE  IInv' /\ Stays(db, db') /\ Hears(db, db')
<1> USE DEF StartLoad, Idle
<1>1. ~halted
  OBVIOUS
<1>2. /\ Kept(db', queue, zones, Wanted(zones, loading, todo), drops)
      /\ Sound(db', Wait(queue, 0), zones) /\ Fine(db', Wait(queue, 0), zones, drops)
      /\ zones \in Seq(Zones) /\ Once(zones) /\ Working(queue, zones, loading, todo, sync)
      /\ db' \in AnyRegistry
  BY <1>1, Running
<1>3. loading = 0 /\ todo = {}
  BY <1>2 DEF Working
<1> DEFINE ys == Append(zones, z)
<1>4. /\ Survive(zones, ys) /\ ToSet(ys) = ToSet(zones) \cup {z} /\ ys # <<>> /\ ys[Len(ys)] = z
      /\ \A y, x : Later(zones, y, x) => Later(ys, y, x)
  BY <1>2, AppendSurvives
<1>5. Wanted(ys, z, todo') = Wanted(zones, loading, todo)
  <2>1. \A n \in Content[z] : <<n, FALSE>> \in todo'
    OBVIOUS
  <2> QED
    BY <1>2, <1>3, <2>1, WantedLoading
<1>6. zones' = ys /\ loading' = z /\ queue' = queue /\ drops' = drops /\ halted' = halted /\ sync' = s
      /\ db' = Quiet(db) /\ (queue = <<>> \/ sync = s)
  OBVIOUS
<1> HIDE DEF ys
<1>7. \A n \in Names : Zoned(db', n) \subseteq ToSet(ys) \cup {0}
  <2>1. \A n \in Names : Ordered(Line(db', n), zones)
    BY <1>2 DEF Sound
  <2> QED
    BY <1>2, <1>4, <2>1, CopyAlone
<1>8. Fine(db', Wait(queue, 0), ys, drops)
  BY <1>2, <1>4, <1>7, SoundMoves
<1>9. Pending(db', queue, 0, ys)
  <2>1. Pending(db', queue, 0, zones)
    BY <1>2 DEF Kept, Flowing
  <2> QED
    BY <1>4, <2>1 DEF Pending, Newest
<1>10. Kept(db', queue', zones', Wanted(zones', loading', todo'), drops')
  BY <1>2, <1>5, <1>6, <1>8, <1>9 DEF Kept, Flowing
<1>11. Working(queue', zones', loading', todo', sync')
  <2>1. z # 0
    BY RegistryAssumption
  <2>2. \A n \in Names : <<n, FALSE>> \in todo' => n \in Content[z]
    OBVIOUS
  <2>3. queue # <<>> => ~s
    BY <1>2, <1>6 DEF Working
  <2> HIDE DEF StartLoad, Idle
  <2> QED
    BY <1>4, <1>6, <2>1, <2>2, <2>3 DEF Working
<1>12. todo' \subseteq Names \X BOOLEAN
  <2>1. Content[z] \in SUBSET Names /\ SoftRefs[z] \in SUBSET Names
    BY RegistryAssumption
  <2>2. todo' = {<<n, FALSE>> : n \in Content[z]} \cup {<<n, TRUE>> : n \in SoftRefs[z]}
    OBVIOUS
  <2> HIDE DEF StartLoad, Idle
  <2>3. \A n \in Content[z] : <<n, FALSE>> \in Names \X BOOLEAN
    BY <2>1
  <2>4. \A n \in SoftRefs[z] : <<n, TRUE>> \in Names \X BOOLEAN
    BY <2>1
  <2>5. \A w \in todo' : (\E n \in Content[z] : w = <<n, FALSE>>) \/ (\E n \in SoftRefs[z] : w = <<n, TRUE>>)
    BY <2>2
  <2>6. \A w \in todo' : w \in Names \X BOOLEAN
    BY <2>3, <2>4, <2>5
  <2> QED
    BY <2>6
<1>13. /\ loading' \in Zones \cup {0} /\ sync' \in BOOLEAN /\ halted' \in BOOLEAN
       /\ drops' \in 0..MaxDrops
  BY <1>1, <1>6, Running DEF TypeOK
<1>14. IInv'
  BY <1>10, <1>11, <1>12, <1>13, Lives
<1>15. Stays(db, db') /\ Hears(db, db')
  BY <1>1, <1>6, Running, KeptUpSelf, KeptUpShows
<1> QED
  BY <1>14, <1>15
\* A zone is done.
LEMMA EndLoadSteps ==
    ASSUME IInv, EndLoad PROVE IInv' /\ Stays(db, db') /\ Hears(db, db')
<1> USE DEF EndLoad
<1>1. /\ Kept(db', queue', zones', Wanted(zones, loading, todo), drops')
      /\ Working(queue, zones, loading, todo, sync) /\ TypeOK
      /\ db \in AnyRegistry
  BY Running
<1>2. Wanted(zones', loading', todo') = Wanted(zones, loading, todo)
  <2>1. Wanted(zones, loading, {}) = Wanted(zones, 0, {})
    BY WantedSame
  <2> QED
    BY <2>1
<1>3. Working(queue', zones', loading', todo', sync')
  BY <1>1 DEF Working
<1>4. /\ loading' \in Zones \cup {0} /\ todo' \subseteq Names \X BOOLEAN /\ sync' \in BOOLEAN
      /\ halted' \in BOOLEAN /\ drops' \in 0..MaxDrops
  BY <1>1 DEF TypeOK
<1>5. Kept(db', queue', zones', Wanted(zones', loading', todo'), drops')
  BY <1>1, <1>2
<1>6. IInv'
  BY <1>3, <1>4, <1>5, Lives
<1> QED
  BY <1>1, <1>6, KeptUpSelf, KeptUpShows

\* What an allocation hands to the thread.
LEMMA LinkAssetHanded ==
    ASSUME IInv, ~halted, NEW n \in Names, <<n, FALSE>> \in todo, db.free # {}
    PROVE  LET W == Wanted(zones, loading, todo)
               e == NextFree(db)
               r == Alloc(Quiet(db), loading, loading)
           IN  /\ Handed(Quiet(db), r, queue, zones, W, drops, n, e, loading)
               /\ Sound(r, Wait(queue, 0), zones) /\ r.refs = db.refs /\ KeptUp(Quiet(db), r)
               /\ loading \in Zones
               /\ Wanted(zones, loading, todo \ {<<n, FALSE>>}) = W \cup {<<n, loading>>}
<1> DEFINE r0 == Quiet(db)
           r == Alloc(r0, loading, loading)
           e == NextFree(db)
           X == Wait(queue, 0)
           W == Wanted(zones, loading, todo)
<1>1. /\ TypeOK /\ Spread(queue) /\ r0 \in AnyRegistry
      /\ Kept(r0, queue, zones, W, drops) /\ Fine(r0, X, zones, drops) /\ Sound(r0, X, zones)
      /\ Working(queue, zones, loading, todo, sync) /\ zones \in Seq(Zones)
      /\ r0.refs = db.refs /\ r0.free = db.free /\ NextFree(r0) = e
  BY Running
<1>2. loading \in Zones /\ n \in Content[loading] /\ zones # <<>> /\ loading = zones[Len(zones)]
  BY <1>1 DEF Working, TypeOK
<1>3. loading \in ToSet(zones)
  <2>1. Len(zones) \in DOMAIN zones
    BY <1>1, <1>2
  <2> QED
    BY <1>2, <2>1 DEF ToSet
<1>4. /\ Wanted(zones, loading, todo \ {<<n, FALSE>>}) = W \cup {<<n, loading>>}
      /\ <<n, loading>> \notin W
  <2>1. Linking(zones, loading, todo, n)
    BY <1>2, <1>3 DEF Linking
  <2>2. WantsMore(zones, loading, todo, n)
    BY <2>1, WantedLinked
  <2> QED
    BY <2>2 DEF WantsMore
<1> HIDE DEF r0, X, W
<1>5. /\ e \in Entries /\ e \notin X /\ Sound(r, X \cup {e}, zones) /\ Aside(r0, r, X)
      /\ r.zone[e] = loading /\ r.lost = r0.lost /\ r.refs = r0.refs
      /\ Fine(r, X \cup {e}, zones, drops)
  <2>1. loading \in Zones \cup {0} /\ r0.free # {}
    BY <1>1, <1>2
  <2> HIDE DEF e, r
  <2> DEFINE f == NextFree(r0)
             s == Alloc(r0, loading, loading)
  <2>2. /\ f \in Entries /\ f \in r0.free /\ f \notin X /\ f \notin InChains(r0)
        /\ Sound(s, X \cup {f}, zones) /\ Aside(r0, s, X)
        /\ s.zone[f] = loading /\ s.data[f] = loading /\ s.lost = r0.lost /\ s.refs = r0.refs
        /\ s.free = r0.free \ {f}
        /\ \A d : Fine(r0, X, zones, d) => Fine(s, X \cup {f}, zones, d)
    BY <1>1, <2>1, AllocHands
  <2>3. f = e /\ s = r
    BY <1>1 DEF r
  <2> HIDE DEF f, s
  <2> QED
    BY <1>1, <2>2, <2>3
<1> HIDE DEF e, r
<1>6. Handed(r0, r, queue, zones, W, drops, n, e, loading)
  BY <1>1, <1>2, <1>4, <1>5 DEF Handed, X
<1>7. Sound(r, X, zones)
  <2>1. X \subseteq X \cup {e}
    OBVIOUS
  <2> DEFINE Y == X \cup {e}
  <2> HIDE DEF Y
  <2>2. Sound(r, Y, zones) /\ X \subseteq Y
    BY <1>5, <2>1 DEF Y
  <2> QED
    BY <2>2, SoundLess
<1>8. KeptUp(r0, r)
  BY <1>1, <1>5, AsideKeeps
<1> QED
  BY <1>1, <1>2, <1>4, <1>5, <1>6, <1>7, <1>8 DEF r0, r, e, W, X

\* An asset is linked, deferred, or fails.
LEMMA LinkAssetSteps ==
    ASSUME IInv, NEW n \in Names, LinkAsset(n)
    PROVE  IInv' /\ Stays(db, db') /\ Hears(db, db')
<1> DEFINE r0 == Quiet(db)
           r == Alloc(r0, loading, loading)
           e == NextFree(db)
           W == Wanted(zones, loading, todo)
           l == [name |-> n, entry |-> e]
<1>0. /\ ~halted /\ <<n, FALSE>> \in todo /\ todo' = todo \ {<<n, FALSE>>}
      /\ zones' = zones /\ loading' = loading /\ sync' = sync /\ drops' = drops
  BY DEF LinkAsset
<1>1. /\ TypeOK /\ Spread(queue) /\ r0 \in AnyRegistry /\ db \in AnyRegistry
      /\ Sound(r0, Wait(queue, 0), zones)
      /\ Working(queue, zones, loading, todo, sync) /\ zones \in Seq(Zones)
      /\ r0.refs = db.refs /\ r0.free = db.free
  BY <1>0, Running
<1>2. SUFFICES IInv' /\ KeptUp(r0, db')
  BY <1>1, KeptUpShows
<1>3. /\ loading' \in Zones \cup {0} /\ todo' \subseteq Names \X BOOLEAN /\ sync' \in BOOLEAN
      /\ drops' \in 0..MaxDrops /\ todo' \subseteq todo
      /\ \A m \in Names : <<m, FALSE>> \in todo' => <<m, FALSE>> \in todo
      /\ loading # 0
  BY <1>0, <1>1 DEF TypeOK, Working
<1>4. CASE CanAlloc(db) /\ MayOverride(db, n)
  <2>1. /\ halted' = (Deferred(r, n, e) /\ ~sync /\ Len(queue) >= CopyInfoLimit)
        /\ IF Deferred(r, n, e) /\ ~sync
           THEN db' = r /\ queue' = IF halted' THEN queue ELSE Append(queue, l)
           ELSE db' = Arbitrate(r, n, e) /\ queue' = queue
    BY <1>4 DEF LinkAsset
  <2>2. db.free # {}
    BY <1>4 DEF CanAlloc
  <2>3. /\ Handed(r0, r, queue, zones, W, drops, n, e, loading)
        /\ Sound(r, Wait(queue, 0), zones) /\ r.refs = db.refs /\ KeptUp(r0, r)
        /\ Wanted(zones, loading, todo') = W \cup {<<n, loading>>}
    BY <1>0, <2>2, LinkAssetHanded
  <2> HIDE DEF r0, r, e, W
  <2>4. CASE Deferred(r, n, e) /\ ~sync
    <3>1. db' = r /\ KeptUp(r0, db')
      BY <2>1, <2>3, <2>4
    <3>2. CASE halted'
      <4>1. halted' = TRUE
        BY <2>1, <3>2
      <4>2. queue' = queue
        BY <2>1, <2>4, <3>2
      <4>3. IInv'
        BY <1>0, <1>1, <1>3, <2>3, <3>1, <4>1, <4>2, Halts
      <4> QED
        BY <3>1, <4>3
    <3>3. CASE ~halted'
      <4>1. halted' \in BOOLEAN /\ queue' = Append(queue, l)
        BY <2>1, <2>4, <3>3
      <4>2. r.chain[n] # <<>> /\ (IsCopy(r, n) \/ Wins(r, n, e))
        BY <2>4 DEF Deferred, IsCopy
      <4>3. Kept(r, Append(queue, [name |-> n, entry |-> e]), zones, W \cup {<<n, loading>>}, drops)
        BY <2>3, <4>2, Pushes
      <4>4. Kept(db', queue', zones', Wanted(zones', loading', todo'), drops')
        BY <1>0, <2>3, <3>1, <4>1, <4>3
      <4>5. Working(queue', zones', loading', todo', sync')
        BY <1>0, <1>1, <1>3, <2>4 DEF Working
      <4>6. IInv'
        BY <1>3, <4>1, <4>4, <4>5, Lives
      <4> QED
        BY <3>1, <4>6
    <3> QED
      BY <3>2, <3>3
  <2>5. CASE ~(Deferred(r, n, e) /\ ~sync)
    <3>1. db' = Arbitrate(r, n, e) /\ queue' = queue /\ halted' \in BOOLEAN
      BY <2>1, <2>5
    <3>2. AtOnce(r, queue, n, e)
      <4>1. sync => queue = <<>>
        BY <1>1 DEF Working
      <4> QED
        BY <2>5, <4>1 DEF AtOnce, Deferred, IsCopy
    <3>3. Kept(Arbitrate(r, n, e), queue, zones, W \cup {<<n, loading>>}, drops)
          /\ KeptUp(r0, Arbitrate(r, n, e))
      BY <2>3, <3>2, LinksNow
    <3>4. Kept(db', queue', zones', Wanted(zones', loading', todo'), drops') /\ KeptUp(r0, db')
      BY <1>0, <2>3, <3>1, <3>3
    <3>5. Working(queue', zones', loading', todo', sync')
      BY <1>0, <1>1, <1>3, <3>1 DEF Working
    <3>6. IInv'
      BY <1>3, <3>1, <3>4, <3>5, Lives
    <3> QED
      BY <3>4, <3>6
  <2> QED
    BY <2>4, <2>5
<1>5. CASE ~(CanAlloc(db) /\ MayOverride(db, n))
  <2>1. halted' = TRUE /\ db' = AllocFailed(r0) /\ queue' = queue
    BY <1>5 DEF LinkAsset
  <2> DEFINE X == Wait(queue, 0)
             s == AllocFailed(r0)
  <2> HIDE DEF r0, X
  <2>2. Sound(s, X, zones) /\ Aside(r0, s, X) /\ s.refs = r0.refs
    BY <1>1, AllocFails DEF X
  <2> HIDE DEF s
  <2>3. KeptUp(r0, s)
    BY <1>1, <2>2, AsideKeeps
  <2>4. db' = s
    BY <2>1 DEF s
  <2>5. IInv'
    BY <1>0, <1>1, <1>3, <2>1, <2>2, <2>4, Halts DEF X
  <2> QED
    BY <2>3, <2>4, <2>5
<1> QED
  BY <1>4, <1>5
\* A default copy changes nothing of what zones have brought.
LEMMA DefaultKept ==
    ASSUME NEW r, NEW q, NEW zs, NEW W, NEW d, Kept(r, q, zs, W, d), NEW n \in Names,
           r.free # {}, Unlinked(r, n), FindDefaultAsset(r) # NoEntry
    PROVE  Kept(LinkDefault(r, n), q, zs, W, d) /\ KeptUp(r, LinkDefault(r, n))
<1> DEFINE s == LinkDefault(r, n)
           X == Wait(q, 0)
           e == NextFree(r)
<1>1. Fine(r, X, zs, d) /\ Few(r, d) /\ r \in AnyRegistry
  BY DEF Kept, Flowing, Fine, Sound
<1> HIDE DEF X
<1>2. /\ Fine(s, X, zs, d) /\ s.lost = r.lost /\ s.told = r.told
      /\ \A m \in Names \ {n} : SameAt(r, s, m)
      /\ \A x \in X : s.zone[x] = r.zone[x] /\ s.data[x] = r.data[x]
      /\ s.chain[n] = <<e>> /\ Of(s, n) = {e} /\ s.zone[e] = 0
  BY <1>1, DefaultLinks
<1> HIDE DEF s, e
<1>3. \A m \in Names : /\ Zoned(s, m) \ {0} = Zoned(r, m) \ {0}
                       /\ r.chain[m] # <<>> => s.chain[m] # <<>>
  <2>1. Zoned(s, n) = {0}
    BY <1>2 DEF Zoned
  <2>2. Zoned(r, n) = {}
    <3>1. Of(r, n) = {}
      BY <1>1, OfBasics DEF Unlinked
    <3> QED
      BY <3>1 DEF Zoned
  <2>3. \A m \in Names \ {n} : Zoned(s, m) = Zoned(r, m) /\ s.chain[m] = r.chain[m]
    BY <1>2 DEF SameAt
  <2> QED
    BY <2>1, <2>2, <2>3 DEF Unlinked
<1>4. Few(s, d)
  BY <1>1, <1>2 DEF Few
<1>5. Kept(s, q, zs, W, d)
  BY <1>2, <1>3, <1>4, KeptSame DEF X
<1>6. KeptUp(r, s)
  <2>1. ASSUME NEW m \in Names, r.chain[m] # <<>> PROVE s.chain[m] # <<>> /\ HeadStays(r, s, m)
    <3>1. m # n
      BY <2>1 DEF Unlinked
    <3>2. SameAt(r, s, m) /\ HeadOf(r, m) \in Of(r, m)
      BY <1>1, <1>2, <2>1, <3>1, OfBasics
    <3> QED
      BY <2>1, <3>2 DEF SameAt, HeadStays
  <2> QED
    BY <1>2, <2>1 DEF KeptUp
<1> QED
  BY <1>5, <1>6 DEF s

\* A comma name finds its asset, gets a default copy, or fails.
LEMMA LinkSoftSteps ==
    ASSUME IInv, NEW n \in Names, LinkSoft(n)
    PROVE  IInv' /\ Stays(db, db') /\ Hears(db, db')
<1> DEFINE r0 == Quiet(db)
           W == Wanted(zones, loading, todo)
<1>0. /\ ~halted /\ <<n, TRUE>> \in todo /\ todo' = todo \ {<<n, TRUE>>} /\ queue' = queue
      /\ zones' = zones /\ loading' = loading /\ sync' = sync /\ drops' = drops
  BY DEF LinkSoft
<1>1. /\ TypeOK /\ Spread(queue) /\ r0 \in AnyRegistry /\ db \in AnyRegistry
      /\ Sound(r0, Wait(queue, 0), zones) /\ Kept(r0, queue, zones, W, drops)
      /\ Working(queue, zones, loading, todo, sync)
      /\ r0.refs = db.refs /\ r0.free = db.free /\ r0.chain = db.chain
      /\ FindDefaultAsset(r0) = FindDefaultAsset(db)
  BY <1>0, Running
<1>2. SUFFICES IInv' /\ KeptUp(r0, db')
  BY <1>1, KeptUpShows
<1>3. /\ loading' \in Zones \cup {0} /\ todo' \subseteq Names \X BOOLEAN /\ sync' \in BOOLEAN
      /\ drops' \in 0..MaxDrops /\ todo' \subseteq todo
      /\ \A m \in Names : <<m, FALSE>> \in todo' => <<m, FALSE>> \in todo
      /\ loading # 0 /\ halted \in BOOLEAN
  BY <1>0, <1>1 DEF TypeOK, Working
<1>4. Working(queue', zones', loading', todo', sync')
  BY <1>0, <1>1, <1>3 DEF Working
<1>5. Wanted(zones', loading', todo') = W
  <2>1. Wanted(zones, loading, todo \ {<<n, TRUE>>}) = Wanted(zones, loading, todo)
    BY WantedSame, ZenonT(60)
  <2> QED
    BY <1>0, <2>1
<1> HIDE DEF W
<1>6. CASE db.chain[n] # <<>>
  <2>1. db' = r0 /\ halted' = halted
    BY <1>6 DEF LinkSoft
  <2>2. IInv'
    BY <1>0, <1>1, <1>3, <1>4, <1>5, <2>1, Lives
  <2> QED
    BY <2>1, <2>2, KeptUpSelf
<1>7. CASE db.chain[n] = <<>> /\ FindDefaultAsset(db) # NoEntry /\ CanAlloc(db)
  <2>1. db' = LinkDefault(r0, n) /\ halted' = halted
    BY <1>7 DEF LinkSoft
  <2> HIDE DEF r0
  <2>2. r0.free # {} /\ Unlinked(r0, n)
    BY <1>1, <1>7 DEF CanAlloc, Unlinked
  <2>3. Kept(LinkDefault(r0, n), queue, zones, W, drops) /\ KeptUp(r0, LinkDefault(r0, n))
    BY <1>1, <1>7, <2>2, DefaultKept
  <2>4. Kept(db', queue', zones', Wanted(zones', loading', todo'), drops') /\ KeptUp(r0, db')
    BY <1>0, <1>5, <2>1, <2>3
  <2>5. IInv'
    BY <1>3, <1>4, <2>1, <2>4, Lives
  <2> QED
    BY <2>4, <2>5
<1>8. CASE ~(db.chain[n] # <<>>) /\ ~(FindDefaultAsset(db) # NoEntry /\ CanAlloc(db))
  <2>1. halted' = TRUE /\ db' = AllocFailed(r0)
    BY <1>8 DEF LinkSoft
  <2> DEFINE X == Wait(queue, 0)
             s == AllocFailed(r0)
  <2> HIDE DEF r0, X
  <2>2. Sound(s, X, zones) /\ Aside(r0, s, X) /\ s.refs = r0.refs
    BY <1>1, AllocFails DEF X
  <2> HIDE DEF s
  <2>3. KeptUp(r0, s)
    BY <1>1, <2>2, AsideKeeps
  <2>4. db' = s
    BY <2>1 DEF s
  <2>5. IInv'
    BY <1>0, <1>1, <1>3, <2>1, <2>2, <2>4, Halts DEF X
  <2> QED
    BY <2>3, <2>4, <2>5
<1> QED
  BY <1>6, <1>7, <1>8

\* A mark in inuse, or a reference counted for nothing.
LEMMA RemarkedKept ==
    ASSUME NEW r, NEW u, NEW q, NEW zs, NEW W, NEW d, NEW k \in Nat, Kept(r, q, zs, W, d),
           Remarked(r, u), u.refs = r.refs + k
    PROVE  Kept(u, q, zs, W, d + k)
<1> DEFINE X == Wait(q, 0)
<1>1. Fine(r, X, zs, d) /\ Few(r, d) /\ r \in AnyRegistry /\ d \in Nat
  BY DEF Kept, Flowing, Fine, Sound
<1> HIDE DEF X
<1>2. Sound(r, X, zs) /\ Cover(r, X) /\ Refs(r, d)
  BY <1>1 DEF Fine
<1>3. /\ Sound(u, X, zs) /\ Cover(u, X) /\ Copies(u) = Copies(r)
      /\ \A n \in Names : /\ Of(u, n) = Of(r, n) /\ Zoned(u, n) = Zoned(r, n)
                          /\ HeadOf(u, n) = HeadOf(r, n)
  BY <1>2, RemarkedSound
<1>4. Refs(u, d + k)
  <2>1. Cardinality(Copies(r)) \in Nat
    BY <1>1, CopiesFinite
  <2>2. r.refs = Cardinality(Copies(r)) + d
    BY <1>2 DEF Refs
  <2>3. u.refs = Cardinality(Copies(u)) + (d + k)
    BY <1>1, <1>3, <2>1, <2>2
  <2> QED
    BY <2>3 DEF Refs
<1>5. Fine(u, X, zs, d + k)
  BY <1>1, <1>3, <1>4 DEF Fine
<1>6. Few(u, d + k)
  <2>1. IsFiniteSet(r.lost) /\ Cardinality(r.lost) <= d /\ Cardinality(r.lost) \in Nat
    BY <1>1, FS_CardinalityType DEF Few
  <2>2. u.lost = r.lost
    BY DEF Remarked
  <2>3. Cardinality(r.lost) <= d + k
    BY <1>1, <2>1
  <2> QED
    BY <2>1, <2>2, <2>3 DEF Few
<1>7. u.chain = r.chain /\ u.zone = r.zone
  BY DEF Remarked
<1> QED
  BY <1>3, <1>5, <1>6, <1>7, KeptSame DEF X

\* An allocation that fails in a lookup: the count stays one too high.
LEMMA DropKept ==
    ASSUME NEW r, NEW q, NEW zs, NEW W, NEW d, Kept(r, q, zs, W, d)
    PROVE  LET s == [AllocFailed(r) EXCEPT !.refs = @ + 1]
           IN  Kept(s, q, zs, W, d + 1) /\ KeptUp(r, s)
<1> DEFINE X == Wait(q, 0)
           t == AllocFailed(r)
           s == [t EXCEPT !.refs = @ + 1]
<1>1. Fine(r, X, zs, d) /\ Sound(r, X, zs) /\ Few(r, d) /\ r \in AnyRegistry /\ d \in Nat
  BY DEF Kept, Flowing, Fine, Sound
<1> HIDE DEF X
<1>2. /\ Aside(r, t, X)
      /\ Fine(t, X, zs, d)
      /\ t.lost = r.lost \/ \E e \in Entries : t.lost = r.lost \cup {e}
  BY <1>1, AllocFails
<1> HIDE DEF t
<1>3. /\ s \in AnyRegistry /\ s.chain = t.chain /\ s.zone = t.zone /\ s.data = t.data
      /\ s.inuse = t.inuse /\ s.free = t.free /\ s.lost = t.lost /\ s.told = t.told
      /\ s.refs = t.refs + 1 /\ Remarked(t, s)
  <2>1. t \in AnyRegistry
    BY <1>2 DEF Aside
  <2> DEFINE k == t.refs + 1
  <2>2. k \in Int /\ s = [t EXCEPT !.refs = k]
    BY <2>1 DEF AnyRegistry
  <2> HIDE DEF k, s
  <2>3. /\ s \in AnyRegistry /\ s.chain = t.chain /\ s.zone = t.zone /\ s.data = t.data
        /\ s.inuse = t.inuse /\ s.free = t.free /\ s.lost = t.lost /\ s.told = t.told
        /\ s.refs = k
    BY <2>1, <2>2 DEF AnyRegistry
  <2> QED
    BY <2>3 DEF Remarked, k
<1> HIDE DEF s
<1>4. /\ Sound(s, X, zs) /\ Cover(s, X) /\ Copies(s) = Copies(t)
      /\ \A n \in Names : /\ Of(s, n) = Of(t, n) /\ Zoned(s, n) = Zoned(t, n)
                          /\ HeadOf(s, n) = HeadOf(t, n)
  <2>1. Sound(t, X, zs) /\ Cover(t, X)
    BY <1>2 DEF Fine
  <2> QED
    BY <1>3, <2>1, RemarkedSound
<1>5. Refs(s, d + 1)
  <2>1. Cardinality(Copies(t)) \in Nat /\ t.refs = Cardinality(Copies(t)) + d
    <3>1. t \in AnyRegistry /\ Refs(t, d)
      BY <1>2 DEF Fine, Aside
    <3> QED
      BY <3>1, CopiesFinite DEF Refs
  <2>2. s.refs = Cardinality(Copies(s)) + (d + 1)
    BY <1>1, <1>3, <1>4, <2>1
  <2> QED
    BY <2>2 DEF Refs
<1>6. Fine(s, X, zs, d + 1)
  BY <1>1, <1>4, <1>5 DEF Fine
<1>7. Few(s, d + 1)
  <2>1. IsFiniteSet(r.lost) /\ Cardinality(r.lost) <= d /\ Cardinality(r.lost) \in Nat
    BY <1>1, FS_CardinalityType DEF Few
  <2>2. CASE t.lost = r.lost
    BY <1>1, <1>3, <2>1, <2>2 DEF Few
  <2>3. CASE \E e \in Entries : t.lost = r.lost \cup {e}
    <3>1. PICK e \in Entries : t.lost = r.lost \cup {e}
      BY <2>3
    <3>2. IsFiniteSet(t.lost) /\ (Cardinality(t.lost) = Cardinality(r.lost)
                                   \/ Cardinality(t.lost) = Cardinality(r.lost) + 1)
      BY <2>1, <3>1, FS_AddElement
    <3>3. Cardinality(t.lost) <= d + 1
      BY <1>1, <2>1, <3>2
    <3> QED
      BY <1>3, <3>2, <3>3 DEF Few
  <2> QED
    BY <1>2, <2>2, <2>3
<1>8. \A n \in Names : /\ Zoned(s, n) \ {0} = Zoned(r, n) \ {0}
                       /\ r.chain[n] # <<>> => s.chain[n] # <<>>
  BY <1>2, <1>3, <1>4 DEF Aside
<1>9. \A x \in X : s.zone[x] = r.zone[x]
  BY <1>2, <1>3 DEF Aside
<1>10. Kept(s, q, zs, W, d + 1)
  BY <1>6, <1>7, <1>8, <1>9, KeptSame DEF X
<1>11. KeptUp(r, s)
  <2>1. KeptUp(r, t)
    BY <1>1, <1>2, AsideKeeps
  <2> QED
    BY <1>3, <1>4, <2>1 DEF KeptUp, HeadStays
<1> QED
  BY <1>10, <1>11 DEF s, t
\* Marks and counts show nothing to whoever holds a header.
LEMMA RemarkedShows ==
    ASSUME NEW r, NEW u, Remarked(r, u)
    PROVE  Stays(r, u) /\ Hears(r, u)
<1>1. \A n : HeadOf(u, n) = HeadOf(r, n)
  BY DEF Remarked, HeadOf
<1> QED
  BY <1>1 DEF Remarked, Stays, Hears

\* A lookup finds, makes a default copy, or fails and goes on.
LEMMA FindSteps ==
    ASSUME IInv, NEW n \in Names, Find(n)
    PROVE  IInv' /\ Stays(db, db') /\ Hears(db, db')
<1> DEFINE r0 == Quiet(db)
           W == Wanted(zones, loading, todo)
<1>0. /\ ~halted /\ todo' = todo /\ queue' = queue /\ halted' = halted
      /\ zones' = zones /\ loading' = loading /\ sync' = sync
  BY DEF Find
<1>1. /\ TypeOK /\ Spread(queue) /\ r0 \in AnyRegistry /\ db \in AnyRegistry
      /\ Kept(r0, queue, zones, W, drops) /\ drops \in Nat
      /\ Working(queue, zones, loading, todo, sync)
      /\ r0.refs = db.refs /\ r0.free = db.free /\ r0.chain = db.chain
      /\ FindDefaultAsset(r0) = FindDefaultAsset(db)
  BY <1>0, Running
<1>2. /\ loading' \in Zones \cup {0} /\ todo' \subseteq Names \X BOOLEAN /\ sync' \in BOOLEAN
      /\ halted' \in BOOLEAN /\ drops \in 0..MaxDrops
  BY <1>0, <1>1 DEF TypeOK
<1>3. Working(queue', zones', loading', todo', sync')
  BY <1>0, <1>1 DEF Working
<1>4. Wanted(zones', loading', todo') = W
  BY <1>0
<1>5. Remarked(db, r0)
  BY <1>1, QuietIs
<1> HIDE DEF W, r0
<1>6. CASE db.chain[n] # <<>>
  <2> DEFINE used == r0.inuse \cup {HeadOf(db, n)}
  <2>1. db' = [r0 EXCEPT !.inuse = used] /\ drops' = drops
    BY <1>6 DEF Find, r0
  <2>2. used \subseteq Entries
    <3>1. HeadOf(db, n) \in Entries
      BY <1>1, <1>6, OfBasics
    <3> QED
      BY <1>1, <3>1 DEF AnyRegistry
  <2> HIDE DEF used
  <2>3. Remarked(r0, db') /\ db'.refs = r0.refs + 0
    <3>1. db' \in AnyRegistry
      BY <1>1, <2>1, <2>2 DEF AnyRegistry
    <3>2. db'.refs = r0.refs /\ r0.refs \in Int
      BY <1>1, <2>1 DEF AnyRegistry
    <3>3. /\ db'.chain = r0.chain /\ db'.zone = r0.zone /\ db'.data = r0.data
          /\ db'.free = r0.free /\ db'.lost = r0.lost
      BY <1>1, <2>1 DEF AnyRegistry
    <3> QED
      BY <3>1, <3>2, <3>3 DEF Remarked
  <2>4. Kept(db', queue, zones, W, drops + 0)
    <3>1. 0 \in Nat
      OBVIOUS
    <3> QED
      BY <1>1, <2>3, <3>1, RemarkedKept
  <2>5. Kept(db', queue', zones', Wanted(zones', loading', todo'), drops') /\ drops' \in 0..MaxDrops
    <3>1. drops + 0 = drops
      BY <1>1
    <3> QED
      BY <1>0, <1>2, <1>4, <2>1, <2>4, <3>1
  <2>6. IInv'
    BY <1>2, <1>3, <2>5, Lives
  <2>7. Remarked(db, db')
    BY <1>5, <2>3 DEF Remarked
  <2> QED
    BY <2>6, <2>7, RemarkedShows
<1>7. CASE db.chain[n] = <<>> /\ FindDefaultAsset(db) # NoEntry /\ CanAlloc(db)
  <2>1. db' = LinkDefault(r0, n) /\ drops' = drops
    BY <1>7 DEF Find, r0
  <2>2. r0.free # {} /\ Unlinked(r0, n)
    BY <1>1, <1>7 DEF CanAlloc, Unlinked
  <2>3. Kept(LinkDefault(r0, n), queue, zones, W, drops) /\ KeptUp(r0, LinkDefault(r0, n))
    BY <1>1, <1>7, <2>2, DefaultKept
  <2>4. Kept(db', queue', zones', Wanted(zones', loading', todo'), drops') /\ KeptUp(r0, db')
    BY <1>0, <1>4, <2>1, <2>3
  <2>5. IInv'
    BY <1>2, <1>3, <2>1, <2>4, Lives
  <2> QED
    BY <1>1, <2>4, <2>5, KeptUpShows DEF r0
<1>8. CASE db.chain[n] = <<>> /\ FindDefaultAsset(db) # NoEntry /\ ~CanAlloc(db)
  <2>1. db' = [AllocFailed(r0) EXCEPT !.refs = @ + 1] /\ drops' = drops + 1 /\ drops < MaxDrops
    BY <1>8 DEF Find, r0
  <2> DEFINE s == [AllocFailed(r0) EXCEPT !.refs = @ + 1]
  <2>2. Kept(s, queue, zones, W, drops + 1) /\ KeptUp(r0, s)
    BY <1>1, DropKept
  <2> HIDE DEF s
  <2>3. db' = s
    BY <2>1 DEF s
  <2>4. drops' \in 0..MaxDrops
    BY <1>1, <2>1, RegistryAssumption
  <2>5. Kept(db', queue', zones', Wanted(zones', loading', todo'), drops') /\ KeptUp(r0, db')
    BY <1>0, <1>4, <2>1, <2>2, <2>3
  <2>6. IInv'
    BY <1>2, <1>3, <2>4, <2>5, Lives
  <2> QED
    BY <1>1, <2>5, <2>6, KeptUpShows DEF r0
<1>9. db.chain[n] # <<>> \/ FindDefaultAsset(db) # NoEntry
  BY DEF Find
<1> QED
  BY <1>6, <1>7, <1>8, <1>9

\* The heads are marked unused.
LEMMA ClearInuseSteps ==
    ASSUME IInv, ClearInuse PROVE IInv' /\ Stays(db, db') /\ Hears(db, db')
<1> DEFINE r0 == Quiet(db)
           W == Wanted(zones, loading, todo)
           used == r0.inuse \ Heads(db)
<1>0. /\ ~halted /\ todo' = todo /\ queue' = queue /\ halted' = halted /\ drops' = drops
      /\ zones' = zones /\ loading' = loading /\ sync' = sync
      /\ db' = [r0 EXCEPT !.inuse = used]
  BY DEF ClearInuse, Idle
<1>1. /\ TypeOK /\ r0 \in AnyRegistry /\ db \in AnyRegistry
      /\ Kept(r0, queue, zones, W, drops) /\ drops \in Nat
      /\ Working(queue, zones, loading, todo, sync)
  BY <1>0, Running
<1>2. /\ loading' \in Zones \cup {0} /\ todo' \subseteq Names \X BOOLEAN /\ sync' \in BOOLEAN
      /\ halted' \in BOOLEAN /\ drops' \in 0..MaxDrops
  BY <1>0, <1>1 DEF TypeOK
<1>3. Working(queue', zones', loading', todo', sync')
  BY <1>0, <1>1 DEF Working
<1>4. Wanted(zones', loading', todo') = W
  BY <1>0
<1>5. Remarked(db, r0)
  BY <1>1, QuietIs
<1> HIDE DEF W, r0
<1>6. used \subseteq Entries
  BY <1>1 DEF AnyRegistry
<1> HIDE DEF used
<1>7. Remarked(r0, db') /\ db'.refs = r0.refs + 0
  <3>1. db' \in AnyRegistry
    BY <1>0, <1>1, <1>6 DEF AnyRegistry
  <3>2. db'.refs = r0.refs /\ r0.refs \in Int
    BY <1>0, <1>1 DEF AnyRegistry
  <3>3. /\ db'.chain = r0.chain /\ db'.zone = r0.zone /\ db'.data = r0.data
        /\ db'.free = r0.free /\ db'.lost = r0.lost
    BY <1>0, <1>1 DEF AnyRegistry
  <3> QED
    BY <3>1, <3>2, <3>3 DEF Remarked
<1>8. Kept(db', queue, zones, W, drops + 0)
  <2>1. 0 \in Nat
    OBVIOUS
  <2> QED
    BY <1>1, <1>7, <2>1, RemarkedKept
<1>9. Kept(db', queue', zones', Wanted(zones', loading', todo'), drops')
  <2>1. drops + 0 = drops
    BY <1>1
  <2> QED
    BY <1>0, <1>4, <1>8, <2>1
<1>10. IInv'
  BY <1>2, <1>3, <1>9, Lives
<1>11. Remarked(db, db')
  BY <1>5, <1>7 DEF Remarked
<1> QED
  BY <1>10, <1>11, RemarkedShows

\* A registry for which nothing waits, with the assets in W.
LEMMA KeptEmpty ==
    ASSUME NEW s, NEW zs, NEW W, NEW d, NEW X, X = {}, Fine(s, X, zs, d), Few(s, d),
           \A n \in Names, z \in Zones : z \in Zoned(s, n) <=> <<n, z>> \in W
    PROVE  Kept(s, <<>>, zs, W, d)
<1>1. Len(<<>>) = 0 /\ (0 + 1)..0 = {} /\ 1..0 = {}
  OBVIOUS
<1>2. Wait(<<>>, 0) = X
  BY <1>1 DEF Wait
<1>3. Spread(<<>>) /\ Pending(s, <<>>, 0, zs) /\ Above(s, <<>>)
  BY <1>1 DEF Spread, Pending, Above
<1>4. Owned(s, <<>>, 0, W)
  <2>1. \A n, z : ~Waits(s, <<>>, 0, n, z)
    BY <1>1 DEF Waits
  <2> QED
    BY <2>1 DEF Owned
<1> QED
  BY <1>2, <1>3, <1>4 DEF Kept, Flowing

\* What a flush leaves, whether it is a step or the start of an unload.
LEMMA Flushed ==
    ASSUME IInv, ~halted
    PROVE  LET s == FlushAll(Quiet(db), queue)
               W == Wanted(zones, loading, todo)
           IN  /\ Fine(s, {}, zones, drops) /\ KeptUp(Quiet(db), s) /\ Few(s, drops)
               /\ \A n \in Names, z \in Zones : z \in Zoned(s, n) <=> <<n, z>> \in W
<1> DEFINE s == FlushAll(Quiet(db), queue)
           r0 == Quiet(db)
           W == Wanted(zones, loading, todo)
<1>1. Kept(r0, queue, zones, W, drops) /\ Spread(queue)
  BY Running
<1> HIDE DEF r0, W
<1>2. Flowing(r0, queue, 0, zones, W, drops) /\ Few(r0, drops)
  BY <1>1 DEF Kept
<1> DEFINE t == FlushAll(r0, queue)
<1>3. Flowing(t, queue, Len(queue), zones, W, drops) /\ KeptUp(r0, t) /\ t.lost = r0.lost
  BY <1>2, FlushFlows
<1>4. s = t
  BY DEF r0
<1> HIDE DEF s, t
<1>5. (Len(queue) + 1)..Len(queue) = {}
  <2>1. Len(queue) \in Nat
    BY <1>1, QueueIs
  <2> QED
    BY <2>1
<1>6. Wait(queue, Len(queue)) = {}
  BY <1>5 DEF Wait
<1>7. Fine(t, {}, zones, drops) /\ Owned(t, queue, Len(queue), W)
  BY <1>3, <1>6 DEF Flowing
<1>8. \A n, z : ~Waits(t, queue, Len(queue), n, z)
  BY <1>5 DEF Waits
<1>9. \A n \in Names, z \in Zones : z \in Zoned(t, n) <=> <<n, z>> \in W
  BY <1>7, <1>8 DEF Owned
<1>10. Few(t, drops)
  BY <1>2, <1>3 DEF Few
<1> QED
  BY <1>3, <1>4, <1>7, <1>9, <1>10 DEF s, W, r0

\* A flush as a step.
LEMMA FlushTakes ==
    ASSUME IInv, Flush PROVE IInv' /\ Stays(db, db') /\ Hears(db, db')
<1> DEFINE s == FlushAll(Quiet(db), queue)
           W == Wanted(zones, loading, todo)
           X == {}
<1>0. /\ ~halted /\ todo' = todo /\ queue' = <<>> /\ halted' = halted /\ drops' = drops
      /\ zones' = zones /\ loading' = loading /\ sync' = sync /\ db' = s
  BY DEF Flush, Idle
<1>1. /\ TypeOK /\ db \in AnyRegistry /\ Working(queue, zones, loading, todo, sync)
  BY <1>0, Running
<1>2. /\ Fine(s, {}, zones, drops) /\ KeptUp(Quiet(db), s) /\ Few(s, drops)
      /\ \A n \in Names, z \in Zones : z \in Zoned(s, n) <=> <<n, z>> \in W
  BY <1>0, Flushed
<1> HIDE DEF s, W
<1>3. Kept(s, <<>>, zones, W, drops)
  <2>1. Fine(s, X, zones, drops) /\ X = {}
    BY <1>2
  <2> HIDE DEF X
  <2> QED
    BY <1>2, <2>1, KeptEmpty
<1>4. Kept(db', queue', zones', Wanted(zones', loading', todo'), drops')
  BY <1>0, <1>3 DEF W
<1>5. Working(queue', zones', loading', todo', sync')
  BY <1>0, <1>1 DEF Working
<1>6. /\ loading' \in Zones \cup {0} /\ todo' \subseteq Names \X BOOLEAN /\ sync' \in BOOLEAN
      /\ halted' \in BOOLEAN /\ drops' \in 0..MaxDrops
  BY <1>0, <1>1 DEF TypeOK
<1>7. IInv'
  BY <1>4, <1>5, <1>6, Lives
<1> QED
  BY <1>0, <1>1, <1>2, <1>7, KeptUpShows
\* What is told of a header up to a flush, and after it.
LEMMA HearsJoins ==
    ASSUME NEW r \in AnyRegistry, NEW s, NEW t, KeptUp(Quiet(r), s), KeptDown(s, t)
    PROVE  Hears(r, t)
<1>1. /\ Quiet(r).chain = r.chain /\ Quiet(r).data = r.data /\ Quiet(r).inuse = r.inuse
      /\ \A n : HeadOf(Quiet(r), n) = HeadOf(r, n)
  BY QuietIs DEF Remarked, HeadOf
<1>2. ASSUME NEW n \in Names, NEW h, h = HeadOf(r, n), h # NoEntry, h = HeadOf(t, n),
             h \in r.inuse, t.data[h] # r.data[h]
      PROVE  h \in t.told
  <2>1. r.chain[n] # <<>> /\ t.chain[n] # <<>>
    BY <1>2 DEF HeadOf
  <2>2. HeadStays(Quiet(r), s, n)
    BY <1>1, <2>1 DEF KeptUp
  <2>3. /\ HeadOf(s, n) = h /\ h \in s.inuse /\ (s.data[h] # r.data[h] => h \in s.told)
    BY <1>1, <1>2, <2>2 DEF HeadStays
  <2>4. HeadStays(s, t, n) /\ s.told \subseteq t.told
    BY <2>1 DEF KeptDown
  <2>5. t.data[h] # s.data[h] => h \in t.told
    BY <2>3, <2>4 DEF HeadStays
  <2> QED
    BY <1>2, <2>3, <2>4, <2>5
<1> QED
  BY <1>2 DEF Hears

\* DB_UnloadXAssetZones and the clean-up, after the flush.
LEMMA UnloadLeaves ==
    ASSUME NEW r, NEW d, Fine(r, {}, zones, d), NEW ys, NEW zs, NEW order \in SetToSeqs(Names)
    PROVE  LET t == PostUnloadCleanup(UnloadZones(UnloadZones(r, ys, TRUE, order), zs, TRUE, order))
           IN  /\ Fine(t, {}, zones, d) /\ t.lost = r.lost /\ KeptDown(r, t)
               /\ Purged(r, t, Names, Elems(zones) \cap (ys \cup zs))
<1> DEFINE u == UnloadZones(UnloadZones(r, ys, TRUE, order), zs, TRUE, order)
           t == PostUnloadCleanup(u)
           Z == Elems(zones) \cap (ys \cup zs)
           X == {}
<1>1. Fine(u, {}, zones, d) /\ u.lost = r.lost /\ KeptDown(r, u) /\ Purged(r, u, Names, Z)
  BY UnloadTwice
<1> HIDE DEF u, Z
<1>2. /\ Fine(t, {}, zones, d) /\ t.lost = u.lost /\ KeptDown(u, t)
      /\ \E S \in SUBSET Copies(u) : Swept(u, t, S)
  BY <1>1, CleanupKeeps
<1> HIDE DEF t
<1>3. \A n \in Names : Zoned(t, n) \ {0} = Zoned(u, n) \ {0}
  BY <1>2 DEF Swept
<1>4. Purged(r, t, Names, Z)
  BY <1>1, <1>3 DEF Purged
<1>5. KeptDown(r, t)
  BY <1>1, <1>2, KeptDownJoins
<1>6. Fine(t, {}, zones, d) /\ t.lost = r.lost
  BY <1>1, <1>2
<1> QED
  BY <1>4, <1>5, <1>6 DEF t, u, Z

\* The zones that the new ones replace are unloaded.
LEMMA UnloadSteps ==
    ASSUME IInv, NEW ys \in SUBSET Zones, NEW zs \in SUBSET Zones, Unload(ys, zs)
    PROVE  IInv' /\ Hears(db, db') /\ Len(zones') < Len(zones)
<1> DEFINE s == FlushAll(Quiet(db), queue)
           W == Wanted(zones, loading, todo)
           S == ys \cup zs
           zl == Without(zones, S)
           X == {}
<1>0. /\ ~halted /\ todo' = todo /\ queue' = <<>> /\ halted' = halted /\ drops' = drops
      /\ zones' = zl /\ loading' = loading /\ loading = 0 /\ sync' = sync
      /\ zs # {} /\ S \subseteq ToSet(zones)
  BY DEF Unload, Idle
<1>1. PICK order \in SetToSeqs(Names) :
         db' = PostUnloadCleanup(UnloadZones(UnloadZones(s, ys, TRUE, order), zs, TRUE, order))
  BY DEF Unload
<1>2. /\ TypeOK /\ db \in AnyRegistry /\ Working(queue, zones, loading, todo, sync)
      /\ zones \in Seq(Zones) /\ Once(zones)
  BY <1>0, Running
<1>3. /\ Fine(s, {}, zones, drops) /\ KeptUp(Quiet(db), s) /\ Few(s, drops)
      /\ \A n \in Names, z \in Zones : z \in Zoned(s, n) <=> <<n, z>> \in W
  BY <1>0, Flushed
<1> HIDE DEF s, W
<1> DEFINE t == PostUnloadCleanup(UnloadZones(UnloadZones(s, ys, TRUE, order), zs, TRUE, order))
<1>4. /\ Fine(t, {}, zones, drops) /\ t.lost = s.lost /\ KeptDown(s, t)
      /\ Purged(s, t, Names, Elems(zones) \cap (ys \cup zs))
  BY <1>3, UnloadLeaves
<1>5. db' = t
  BY <1>1
<1> HIDE DEF t
<1>6. Elems(zones) = ToSet(zones) /\ Elems(zones) \cap S = S
  <2>1. DOMAIN zones = 1..Len(zones)
    BY <1>2
  <2>2. Elems(zones) = ToSet(zones)
    BY <2>1 DEF Elems, ToSet
  <2> HIDE DEF S
  <2> QED
    BY <1>0, <2>2
<1> HIDE DEF S
<1>7. Survive(zones, zl) /\ ToSet(zl) = ToSet(zones) \ S
  BY <1>2, WithoutSurvives
<1>8. \A n \in Names : Zoned(t, n) \ {0} = (Zoned(s, n) \ {0}) \ S
  BY <1>4, <1>6 DEF Purged, S
<1>9. Len(zl) < Len(zones)
  <2>1. PICK z \in zs : z \in S /\ z \in ToSet(zones)
    <3>1. zs \subseteq S
      BY DEF S
    <3> QED
      BY <1>0, <3>1
  <2>2. \E i \in 1..Len(zones) : zones[i] \in S
    BY <1>6, <2>1 DEF Elems
  <2> QED
    BY <1>2, <2>2, WithoutSifts
<1> HIDE DEF zl
<1>10. t \in AnyRegistry /\ Sound(t, {}, zones) /\ \A n \in Names : Ordered(Line(t, n), zones)
  BY <1>4 DEF Fine, Sound
<1>11. \A n \in Names : Zoned(t, n) \subseteq ToSet(zl) \cup {0}
  <2>1. \A n \in Names : Zoned(t, n) \subseteq ToSet(zones) \cup {0}
    BY <1>2, <1>10, CopyAlone
  <2> QED
    BY <1>7, <1>8, <2>1
<1>12. Fine(t, X, zl, drops)
  <2>1. Fine(t, X, zones, drops) /\ Sound(t, X, zones)
    BY <1>4, <1>10
  <2> HIDE DEF X
  <2> QED
    BY <1>7, <1>11, <2>1, SoundMoves
<1>13. \A n \in Names, z \in Zones : z \in Zoned(t, n) <=> <<n, z>> \in Wanted(zl, 0, {})
  <2>1. ASSUME NEW n \in Names, NEW z \in Zones
        PROVE  z \in Zoned(t, n) <=> <<n, z>> \in Wanted(zl, 0, {})
    <3>1. z # 0
      BY RegistryAssumption
    <3>2. z \in Zoned(t, n) <=> z \in Zoned(s, n) /\ z \notin S
      BY <1>8, <3>1
    <3>3. loading = 0 /\ todo = {}
      BY <1>0, <1>2 DEF Working
    <3>4. z \in Zoned(s, n) <=> <<n, z>> \in Wanted(zones, 0, {})
      BY <1>3, <3>3 DEF W
    <3> QED
      BY <1>7, <3>2, <3>4, WantedLeft
  <2> QED
    BY <2>1
<1>14. Few(t, drops)
  BY <1>3, <1>4 DEF Few
<1>15. Kept(t, <<>>, zl, Wanted(zl, 0, {}), drops)
  <2>1. Fine(t, X, zl, drops) /\ X = {}
    BY <1>12
  <2> HIDE DEF X
  <2> QED
    BY <1>13, <1>14, <2>1, KeptEmpty
<1>16. Kept(db', queue', zones', Wanted(zones', loading', todo'), drops')
  <2>1. loading = 0 /\ todo = {}
    BY <1>0, <1>2 DEF Working
  <2> QED
    BY <1>0, <1>5, <1>15, <2>1
<1>17. Working(queue', zones', loading', todo', sync')
  BY <1>0, <1>2 DEF Working
<1>18. /\ loading' \in Zones \cup {0} /\ todo' \subseteq Names \X BOOLEAN /\ sync' \in BOOLEAN
       /\ halted' \in BOOLEAN /\ drops' \in 0..MaxDrops
  BY <1>0, <1>2 DEF TypeOK
<1>19. IInv'
  BY <1>16, <1>17, <1>18, Lives
<1>20. Hears(db, t)
  BY <1>2, <1>3, <1>4, HearsJoins
<1> QED
  BY <1>0, <1>5, <1>9, <1>19, <1>20

\* All zones are unloaded.
LEMMA UnloadAllSteps ==
    ASSUME IInv, UnloadAll
    PROVE  /\ IInv' /\ Hears(db, db') /\ Len(zones') < Len(zones)
           /\ \A n \in Names : db'.chain[n] = <<>>
<1> DEFINE s == FlushAll(Quiet(db), queue)
           X == {}
<1>0. /\ ~halted /\ todo' = todo /\ queue' = <<>> /\ halted' = halted /\ drops' = drops
      /\ zones' = <<>> /\ loading' = loading /\ loading = 0 /\ sync' = sync /\ zones # <<>>
  BY DEF UnloadAll, Idle
<1>1. PICK order \in SetToSeqs(Names) :
         db' = PostUnloadCleanup(CleanupAssetRefs(UnloadZones(s, ToSet(zones), FALSE, order)))
  BY DEF UnloadAll
<1>2. /\ TypeOK /\ db \in AnyRegistry /\ Working(queue, zones, loading, todo, sync)
      /\ zones \in Seq(Zones) /\ Once(zones)
  BY <1>0, Running
<1>3. Fine(s, {}, zones, drops) /\ Few(s, drops)
  BY <1>0, Flushed
<1> HIDE DEF s
<1> DEFINE t == PostUnloadCleanup(CleanupAssetRefs(UnloadZones(s, ToSet(zones), FALSE, order)))
<1>4. Fine(t, {}, zones, drops) /\ t.lost = s.lost /\ \A n \in Names : t.chain[n] = <<>>
  <2>1. \A n \in Names : Ordered(Line(s, n), zones)
    BY <1>3 DEF Fine, Sound
  <2> QED
    BY <1>3, <2>1, UnloadAllLeaves
<1>5. db' = t
  BY <1>1
<1> HIDE DEF t
<1>6. \A n \in Names : Zoned(t, n) = {}
  <2>1. t \in AnyRegistry
    BY <1>4 DEF Fine, Sound
  <2>2. \A n \in Names : Of(t, n) = {}
    BY <1>4, <2>1, OfBasics
  <2> QED
    BY <2>2 DEF Zoned
<1>7. Survive(zones, <<>>) /\ ToSet(<<>>) = {}
  <2>1. <<>> \in Seq(Zones) /\ Len(<<>>) = 0 /\ 1..0 = {} /\ DOMAIN <<>> = 1..0
    OBVIOUS
  <2>2. ToSet(<<>>) = {}
    BY <2>1 DEF ToSet
  <2> QED
    BY <2>1, <2>2 DEF Survive, Once
<1>8. Fine(t, X, <<>>, drops)
  <2>1. Fine(t, X, zones, drops) /\ Sound(t, X, zones)
    BY <1>4 DEF Fine
  <2> DEFINE zl == <<>>
  <2>2. Survive(zones, zl) /\ \A n \in Names : Zoned(t, n) \subseteq ToSet(zl) \cup {0}
    BY <1>6, <1>7
  <2> HIDE DEF X, zl
  <2>3. Fine(t, X, zl, drops)
    BY <2>1, <2>2, SoundMoves
  <2> QED
    BY <2>3 DEF zl
<1>9. \A n \in Names, z \in Zones : z \in Zoned(t, n) <=> <<n, z>> \in Wanted(<<>>, 0, {})
  BY <1>6, <1>7 DEF Wanted
<1>10. Few(t, drops)
  BY <1>3, <1>4 DEF Few
<1>11. Kept(t, <<>>, <<>>, Wanted(<<>>, 0, {}), drops)
  <2> DEFINE zl == <<>>
             V == Wanted(zl, 0, {})
  <2>1. Fine(t, X, zl, drops) /\ X = {} /\ \A n \in Names, z \in Zones : z \in Zoned(t, n) <=> <<n, z>> \in V
    BY <1>8, <1>9
  <2> HIDE DEF X, zl, V
  <2>2. Kept(t, <<>>, zl, V, drops)
    BY <1>10, <2>1, KeptEmpty
  <2> QED
    BY <2>2 DEF zl, V
<1>12. Kept(db', queue', zones', Wanted(zones', loading', todo'), drops')
  <2>1. loading = 0 /\ todo = {}
    BY <1>0, <1>2 DEF Working
  <2> QED
    BY <1>0, <1>5, <1>11, <2>1
<1>13. Working(queue', zones', loading', todo', sync')
  BY <1>0, <1>2 DEF Working
<1>14. /\ loading' \in Zones \cup {0} /\ todo' \subseteq Names \X BOOLEAN /\ sync' \in BOOLEAN
       /\ halted' \in BOOLEAN /\ drops' \in 0..MaxDrops
  BY <1>0, <1>2 DEF TypeOK
<1>15. IInv'
  BY <1>12, <1>13, <1>14, Lives
<1>16. Hears(db, db')
  <2>1. \A n \in Names : HeadOf(db', n) = NoEntry
    BY <1>4, <1>5 DEF HeadOf
  <2> QED
    BY <2>1 DEF Hears
<1>17. Len(zones') < Len(zones)
  <2>1. Len(<<>>) = 0 /\ Len(zones) > 0
    BY <1>0, <1>2
  <2> QED
    BY <1>0, <2>1
<1> QED
  BY <1>4, <1>5, <1>15, <1>16, <1>17

\* The pool is all free at the start.
LEMMA InitIInv ==
    ASSUME Init PROVE IInv
<1> USE DEF Init
<1> DEFINE X == {}
           r == db
<1>0. /\ queue = <<>> /\ zones = <<>> /\ loading = 0 /\ todo = {} /\ sync = FALSE /\ drops = 0
      /\ halted = FALSE
  OBVIOUS
<1>1. /\ db \in AnyRegistry /\ (\A n \in Names : db.chain[n] = <<>>) /\ db.refs = 0
      /\ db.free = Entries /\ db.lost = {}
  BY DEF AnyRegistry
<1> HIDE DEF Init
<1>2. \A n \in Names : Of(db, n) = {} /\ Zoned(db, n) = {} /\ ~IsCopy(db, n)
                       /\ Len(Line(db, n)) = 0 /\ Len(db.chain[n]) = 0
  <2>1. \A n \in Names : Of(db, n) = {} /\ Len(db.chain[n]) = 0
    BY <1>1, OfBasics
  <2>2. \A n \in Names : Len(Line(db, n)) = 0
    BY <1>1, <2>1, LineBasics
  <2> QED
    BY <1>1, <2>1, <2>2 DEF Zoned, IsCopy
<1>3. InChains(db) = {}
  BY <1>2 DEF InChains
<1>4. 1..0 = {} /\ <<>> \in Seq(Zones) /\ Len(<<>>) = 0
  OBVIOUS
<1>5. Sound(db, X, zones)
  <2>1. Once(zones)
    BY <1>0, <1>4 DEF Once
  <2>2. Apart(db, X)
    BY <1>1, <1>2, <1>3, <1>4 DEF Apart, Once
  <2>3. \A n \in Names : Ordered(Line(db, n), zones)
    BY <1>2, <1>4 DEF Ordered
  <2> QED
    BY <1>0, <1>1, <1>4, <2>1, <2>2, <2>3 DEF Sound
<1>6. Fine(db, X, zones, 0)
  <2>1. Copies(db) = {}
    BY <1>2, CopiesAre
  <2>2. Refs(db, 0)
    BY <1>1, <2>1, FS_EmptySet DEF Refs
  <2>3. Cover(db, X)
    BY <1>1 DEF Cover
  <2> QED
    BY <1>5, <2>2, <2>3 DEF Fine
<1>7. Few(db, 0)
  BY <1>1, FS_EmptySet DEF Few
<1> DEFINE V == Wanted(zones, loading, todo)
<1>8. \A n \in Names, z \in Zones : z \in Zoned(db, n) <=> <<n, z>> \in V
  <2>1. ToSet(zones) = {}
    <3>1. DOMAIN zones = 1..0
      BY <1>0
    <3> QED
      BY <1>4, <3>1 DEF ToSet
  <2> QED
    BY <1>2, <2>1 DEF Wanted
<1>9. Kept(db, <<>>, zones, V, 0)
  <2>1. X = {}
    OBVIOUS
  <2> HIDE DEF X, V
  <2> QED
    BY <1>6, <1>7, <1>8, <2>1, KeptEmpty
<1>10. Working(queue, zones, loading, todo, sync)
  BY <1>0 DEF Working
<1>11. TypeOK
  <2>1. db \in Registry
    BY <1>1, RegistryIs
  <2>2. 0 \in 0..MaxDrops
    BY RegistryAssumption
  <2>3. queue \in Seq([name : Names, entry : Entries])
    BY <1>0
  <2> QED
    BY <1>0, <1>4, <2>1, <2>2, <2>3 DEF TypeOK
<1>12. Sound(db, Wait(queue, 0), zones) /\ Spread(queue)
  BY <1>0, <1>9 DEF Kept, Flowing, Fine
<1> QED
  BY <1>0, <1>9, <1>10, <1>11, <1>12 DEF IInv
-----------------------------------------------------------------------------
(* What follows *)

\* Every step keeps the invariant, and tells what it takes from who holds it; and no
\* head changes unless the table of zones gets shorter.
LEMMA NextSteps ==
    ASSUME IInv, [Next]_vars
    PROVE  IInv' /\ Hears(db, db') /\ (Len(zones') >= Len(zones) => Stays(db, db'))
<1>0. zones \in Seq(Zones) /\ Len(zones) \in Nat /\ IInv /\ db \in AnyRegistry
  <2>1. zones \in Seq(Zones) /\ db \in AnyRegistry
    BY DEF IInv, Sound
  <2> QED
    BY <2>1
<1>1. CASE UNCHANGED vars
  <2>1. /\ db' = db /\ queue' = queue /\ zones' = zones /\ loading' = loading /\ todo' = todo
        /\ sync' = sync /\ drops' = drops /\ halted' = halted
    BY <1>1 DEF vars
  <2>2. IInv'
    BY <2>1 DEF IInv, TypeOK
  <2> QED
    BY <2>1, <2>2 DEF Hears, Stays
<1>2. ASSUME NEW z \in Zones, NEW s \in BOOLEAN, StartLoad(z, s)
      PROVE  IInv' /\ Hears(db, db') /\ Stays(db, db')
  BY <1>2, StartLoadSteps
<1>3. ASSUME NEW n \in Names, LinkAsset(n) PROVE IInv' /\ Hears(db, db') /\ Stays(db, db')
  BY <1>3, LinkAssetSteps
<1>4. ASSUME NEW n \in Names, LinkSoft(n) PROVE IInv' /\ Hears(db, db') /\ Stays(db, db')
  BY <1>4, LinkSoftSteps
<1>5. ASSUME NEW n \in Names, Find(n) PROVE IInv' /\ Hears(db, db') /\ Stays(db, db')
  BY <1>5, FindSteps
<1>6. ASSUME EndLoad PROVE IInv' /\ Hears(db, db') /\ Stays(db, db')
  BY <1>6, EndLoadSteps
<1>7. ASSUME Flush PROVE IInv' /\ Hears(db, db') /\ Stays(db, db')
  BY <1>7, FlushTakes
<1>8. ASSUME ClearInuse PROVE IInv' /\ Hears(db, db') /\ Stays(db, db')
  BY <1>8, ClearInuseSteps
<1>9. ASSUME NEW ys \in SUBSET Zones, NEW zs \in SUBSET Zones, Unload(ys, zs)
      PROVE  IInv' /\ Hears(db, db') /\ ~(Len(zones') >= Len(zones))
  <2>1. IInv' /\ Hears(db, db') /\ Len(zones') < Len(zones)
    BY <1>9, UnloadSteps
  <2>2. Len(zones') \in Nat
    <3>1. zones' \in Seq(Zones)
      BY <2>1 DEF IInv, TypeOK
    <3> QED
      BY <3>1
  <2> QED
    BY <1>0, <2>1, <2>2
<1>10. ASSUME UnloadAll PROVE IInv' /\ Hears(db, db') /\ ~(Len(zones') >= Len(zones))
  <2>1. IInv' /\ Hears(db, db') /\ Len(zones') < Len(zones)
    BY <1>10, UnloadAllSteps
  <2>2. Len(zones') \in Nat
    <3>1. zones' \in Seq(Zones)
      BY <2>1 DEF IInv, TypeOK
    <3> QED
      BY <3>1
  <2> QED
    BY <1>0, <2>1, <2>2
<1> HIDE DEF IInv
<1> QED
  BY <1>1, <1>2, <1>3, <1>4, <1>5, <1>6, <1>7, <1>8, <1>9, <1>10 DEF Next

\* The books of the registry are kept by every step of it.
THEOREM Booked == Spec => []IInv
<1>1. Init => IInv
  BY InitIInv
<1>2. IInv /\ [Next]_vars => IInv'
  BY NextSteps
<1> QED
  BY <1>1, <1>2, PTL DEF Spec

\* The state of the registry is always of its type: the count is never negative, and no
\* chain, link or flag names an entry that the pool does not have.
THEOREM Typed == Spec => []TypeOK
<1>1. IInv => TypeOK
  BY DEF IInv
<1> QED
  BY <1>1, Booked, PTL

\* No entry of the pool is ever in two places, and but for what an error has lost, none
\* is in no place.
THEOREM Accounted == Spec => []EntriesAccounted
<1>1. ASSUME IInv PROVE EntriesAccounted
  <2> DEFINE X == Wait(queue, 0)
  <2>1. db \in AnyRegistry /\ Apart(db, X) /\ X \subseteq Entries /\ Spread(queue)
    BY <1>1 DEF IInv, Sound
  <2>2. \A n \in Names : ToSet(db.chain[n]) = Of(db, n) /\ Of(db, n) \subseteq Entries
    <3>1. ASSUME NEW n \in Names PROVE ToSet(db.chain[n]) = Of(db, n) /\ Of(db, n) \subseteq Entries
      <4>1. db.chain[n] \in Seq(Entries) /\ Of(db, n) \in SUBSET Entries
        BY <2>1, OfBasics
      <4>2. DOMAIN db.chain[n] = 1..Len(db.chain[n])
        BY <4>1
      <4> QED
        BY <4>1, <4>2 DEF ToSet, Of, Elems
    <3> QED
      BY <3>1
  <2>3. Linked = InChains(db) /\ InChains(db) \subseteq Entries
    BY <2>2 DEF Linked, InChains
  <2>4. Queued = X
    <3>1. /\ queue \in Seq(Links) /\ Wait(queue, 0) = {queue[j].entry : j \in 1..Len(queue)}
      BY <2>1, QueueIs
    <3>2. DOMAIN queue = 1..Len(queue)
      BY <3>1
    <3> QED
      BY <3>1, <3>2 DEF Queued, ToSet
  <2>5. ASSUME NEW m \in Names, NEW n \in Names,
               NEW i \in 1..Len(db.chain[m]), NEW j \in 1..Len(db.chain[n]),
               db.chain[m][i] = db.chain[n][j]
        PROVE  m = n /\ i = j
    <3>1. db.chain[m][i] \in Of(db, m) /\ db.chain[n][j] \in Of(db, n)
      BY DEF Of, Elems
    <3>2. m = n
      BY <2>1, <2>5, <3>1 DEF Apart
    <3> QED
      BY <2>1, <2>5, <3>2 DEF Apart, Once
  <2>6. \A i, j \in 1..Len(queue) : queue[i].entry = queue[j].entry => i = j
    BY <2>1 DEF Spread
  <2> HIDE DEF X
  <2>7. /\ Linked \cap Queued = {} /\ (Linked \cup Queued) \cap (db.free \cup db.lost) = {}
        /\ db.free \cap db.lost = {}
    BY <2>1, <2>3, <2>4 DEF Apart
  <2>8. ASSUME ~halted
        PROVE  /\ Linked \cup Queued \cup db.free \cup db.lost = Entries
               /\ Cardinality(db.lost) <= drops
    <3>1. Cover(db, X) /\ Cardinality(db.lost) <= drops
      BY <1>1, <2>8 DEF IInv, Kept, Flowing, Fine, Few, X
    <3>2. db.free \subseteq Entries /\ db.lost \subseteq Entries
      BY <2>1 DEF AnyRegistry
    <3> QED
      BY <2>1, <2>3, <2>4, <3>1, <3>2 DEF Cover
  <2> QED
    BY <2>5, <2>6, <2>7, <2>8 DEF EntriesAccounted
<1> QED
  BY <1>1, Booked, PTL

\* What the invariant says of one chain, in the terms of the zones' priorities.
LEMMA ChainGoesDown ==
    ASSUME IInv, NEW n \in Names,
           NEW i \in 1..Len(db.chain[n]), NEW j \in 1..Len(db.chain[n]), i < j
    PROVE  LET y == db.zone[db.chain[n][i]]
               z == db.zone[db.chain[n][j]]
           IN  /\ y \in Zones /\ z \in Zones /\ y # 0 /\ z # 0 /\ y # z
               /\ Precedes(zones, y, z) /\ y \in ToSet(zones) /\ z \in ToSet(zones)
               /\ Priority[y] >= Priority[z]
<1> DEFINE y == db.zone[db.chain[n][i]]
           z == db.zone[db.chain[n][j]]
<1>1. /\ db \in AnyRegistry /\ Ordered(Line(db, n), zones) /\ zones \in Seq(Zones) /\ Once(zones)
  BY DEF IInv, Sound
<1>2. /\ Len(Line(db, n)) = Len(db.chain[n])
      /\ \A k \in 1..Len(db.chain[n]) : Line(db, n)[k] = db.zone[db.chain[n][k]]
  BY <1>1, LineBasics
<1>3. /\ y # 0 /\ z # 0 /\ Precedes(zones, y, z)
      /\ y \in ToSet(zones) \cup {0} /\ z \in ToSet(zones) \cup {0}
  BY <1>1, <1>2 DEF Ordered
<1> HIDE DEF y, z
<1>4. y \in ToSet(zones) /\ z \in ToSet(zones) /\ y \in Zones /\ z \in Zones
  BY <1>1, <1>3 DEF ToSet
<1>5. Priority[y] \in Int /\ Priority[z] \in Int
  BY <1>4, RegistryAssumption
<1>6. y # z
  BY <1>1, <1>3, <1>5, LaterOnce DEF Precedes
<1>7. Priority[y] >= Priority[z]
  BY <1>3, <1>5 DEF Precedes
<1> QED
  BY <1>3, <1>4, <1>6, <1>7 DEF y, z

\* Every chain goes down in priority, with one entry per zone, and a default copy has no
\* overrides.
THEOREM Downward == Spec => []ChainsOrdered
<1>1. ASSUME IInv PROVE ChainsOrdered
  BY <1>1, ChainGoesDown DEF ChainsOrdered
<1> QED
  BY <1>1, Booked, PTL

\* The reference count is the number of default copies, but for what errors have left.
THEOREM Counted == Spec => []RefCountExact
<1>1. ASSUME IInv PROVE RefCountExact
  BY <1>1 DEF IInv, Kept, Flowing, Fine, Refs, RefCountExact
<1> QED
  BY <1>1, Booked, PTL

\* The place of a zone on the table.
LEMMA IndexIs ==
    ASSUME zones \in Seq(Zones), Once(zones), NEW i \in 1..Len(zones)
    PROVE  IndexOfZone(zones[i]) = i
<1>1. \A k \in 1..Len(zones) : zones[k] = zones[i] => k = i
  BY DEF Once
<1>2. IndexOfZone(zones[i]) \in 1..Len(zones) /\ zones[IndexOfZone(zones[i])] = zones[i]
  BY DEF IndexOfZone
<1> QED
  BY <1>1, <1>2

\* With no load going on and nothing deferred, the chain of a name holds the zones that
\* define it, the one to serve it first.
THEOREM ServesBest == Spec => []ServesBestZone
<1>1. ASSUME IInv, Idle, queue = <<>>, NEW n \in Names
      PROVE  IF Owners(n) = {}
             THEN \A i \in 1..Len(db.chain[n]) : i = 1 /\ db.zone[db.chain[n][i]] = 0
             ELSE /\ {db.zone[e] : e \in ToSet(db.chain[n])} = Owners(n)
                  /\ \A i, j \in 1..Len(db.chain[n]) :
                       i < j => Before(db.zone[db.chain[n][i]], db.zone[db.chain[n][j]])
  <2>1. /\ db \in AnyRegistry /\ Ordered(Line(db, n), zones) /\ zones \in Seq(Zones) /\ Once(zones)
        /\ ~halted /\ loading = 0 /\ todo = {}
        /\ Owned(db, queue, 0, Wanted(zones, loading, todo))
    BY <1>1 DEF IInv, Idle, Sound, Kept, Flowing, Working
  <2>2. \A z : ~Waits(db, queue, 0, n, z)
    <3>1. (0 + 1)..Len(queue) = {}
      BY <1>1
    <3> QED
      BY <3>1 DEF Waits
  <2>3. \A z \in Zones : z \in Zoned(db, n) <=> z \in Owners(n)
    BY <2>1, <2>2 DEF Owned, Wanted, Owners
  <2>4. Owners(n) \subseteq Zones /\ 0 \notin Zones
    BY <2>1, RegistryAssumption DEF Owners, ToSet
  <2>5. /\ Zoned(db, n) \subseteq Zones \cup {0} /\ (IsCopy(db, n) => Zoned(db, n) = {0})
        /\ (~IsCopy(db, n) => 0 \notin Zoned(db, n))
    BY <2>1, CopyAlone, LineBasics
  <2>6. \A i \in 1..Len(db.chain[n]) : db.zone[db.chain[n][i]] \in Zoned(db, n)
    BY DEF Zoned, Of, Elems
  <2>7. {db.zone[e] : e \in ToSet(db.chain[n])} = Zoned(db, n)
    <3>1. db.chain[n] \in Seq(Entries)
      BY <2>1, OfBasics
    <3>2. DOMAIN db.chain[n] = 1..Len(db.chain[n])
      BY <3>1
    <3> QED
      BY <3>2 DEF ToSet, Zoned, Of, Elems
  <2>8. CASE Owners(n) = {}
    <3>1. Zoned(db, n) \subseteq {0}
      BY <2>3, <2>5, <2>8
    <3>2. ASSUME NEW i \in 1..Len(db.chain[n]) PROVE i = 1 /\ db.zone[db.chain[n][i]] = 0
      <4>1. db.zone[db.chain[n][i]] = 0
        BY <2>6, <3>1
      <4>2. ~(1 < i)
        <5>1. ASSUME 1 < i PROVE FALSE
          <6>1. 1 \in 1..Len(db.chain[n])
            <7>1. db.chain[n] \in Seq(Entries) /\ Len(db.chain[n]) \in Nat
              BY <2>1, OfBasics
            <7> QED
              BY <7>1
          <6>2. db.zone[db.chain[n][i]] # 0
            BY <1>1, <5>1, <6>1, ChainGoesDown
          <6> QED
            BY <4>1, <6>2
        <5> QED
          BY <5>1
      <4> QED
        BY <4>1, <4>2
    <3> QED
      BY <2>8, <3>2
  <2>9. CASE Owners(n) # {}
    <3>1. Zoned(db, n) = Owners(n)
      <4>1. PICK z \in Owners(n) : TRUE
        BY <2>9
      <4>2. z \in Zoned(db, n) /\ z # 0
        BY <2>3, <2>4
      <4>3. 0 \notin Zoned(db, n)
        BY <2>5, <4>2
      <4> QED
        BY <2>3, <2>4, <2>5, <4>3
    <3>2. ASSUME NEW i \in 1..Len(db.chain[n]), NEW j \in 1..Len(db.chain[n]), i < j
          PROVE  Before(db.zone[db.chain[n][i]], db.zone[db.chain[n][j]])
      <4> DEFINE y == db.zone[db.chain[n][i]]
                 z == db.zone[db.chain[n][j]]
      <4>1. Precedes(zones, y, z)
        BY <1>1, <3>2, ChainGoesDown
      <4> HIDE DEF y, z
      <4>2. ASSUME Later(zones, y, z) PROVE IndexOfZone(y) > IndexOfZone(z)
        <5>1. PICK k, l \in 1..Len(zones) : l < k /\ zones[k] = y /\ zones[l] = z
          BY <4>2 DEF Later
        <5>2. IndexOfZone(zones[k]) = k /\ IndexOfZone(zones[l]) = l
          BY <2>1, IndexIs
        <5>3. k > l
          BY <5>1
        <5> QED
          BY <5>1, <5>2, <5>3
      <4>3. Before(y, z)
        BY <4>1, <4>2 DEF Precedes, Before
      <4> QED
        BY <4>3 DEF y, z
    <3> QED
      BY <2>7, <2>9, <3>1, <3>2
  <2> QED
    BY <2>8, <2>9
<1>2. IInv => ServesBestZone
  BY <1>1 DEF ServesBestZone
<1> QED
  BY <1>2, Booked, PTL

\* While zones are only added, what can be found stays in the entry it was found in.
THEOREM Keeping == Spec => FoundStays
<1>1. IInv /\ [Next]_vars => [Len(zones') >= Len(zones) =>
          \A n \in Names : db.chain[n] # <<>> => HeadOf(db', n) = HeadOf(db, n)]_vars
  <2>1. ASSUME IInv, [Next]_vars, Len(zones') >= Len(zones)
        PROVE  \A n \in Names : db.chain[n] # <<>> => HeadOf(db', n) = HeadOf(db, n)
    BY <2>1, NextSteps DEF Stays
  <2> QED
    BY <2>1
<1> QED
  BY <1>1, Booked, PTL DEF Spec, FoundStays

\* Whoever holds the header of an entry in use is told when other data is put into it.
THEOREM Telling == Spec => HoldersTold
<1>1. IInv /\ [Next]_vars => [\A n \in Names : LET e == HeadOf(db, n) IN
         e # NoEntry /\ e = HeadOf(db', n) /\ e \in db.inuse /\ db'.data[e] # db.data[e]
             => e \in db'.told]_vars
  <2>1. ASSUME IInv, [Next]_vars
        PROVE  \A n \in Names : LET e == HeadOf(db, n) IN
         e # NoEntry /\ e = HeadOf(db', n) /\ e \in db.inuse /\ db'.data[e] # db.data[e]
             => e \in db'.told
    BY <2>1, NextSteps DEF Hears
  <2> QED
    BY <2>1
<1> QED
  BY <1>1, Booked, PTL DEF Spec, HoldersTold

-----------------------------------------------------------------------------
(* Where the data of the entries is *)

\* An entry of a zone holds that zone's data, and a copy those of a zone that stays.
Sourced(r, x, zs) ==
    /\ r.zone[x] # 0 => r.data[x] = r.zone[x]
    /\ r.zone[x] = 0 => r.data[x] \in Permanent /\ r.data[x] \in ToSet(zs)

\* The last override of the default asset, which the copies are made of, stays.
DefaultLast(r) ==
    DefaultName \in Names /\ r.chain[DefaultName] # <<>> => LastZone(r, DefaultName) \in Permanent

Backed(r, X, zs) ==
    /\ \A n \in Names : \A x \in Of(r, n) : Sourced(r, x, zs)
    /\ \A x \in X : Sourced(r, x, zs)
    /\ DefaultLast(r)

\* The zones that stay are all loaded before the first that does not.
First(zs) == \A z \in ToSet(zs) \ Permanent : \A p \in Permanent : Later(zs, z, p)

\* The entries' data, on top of the books.
BInv == ~halted => First(zones) /\ Backed(db, Wait(queue, 0), zones)

\* An entry that holds what another did.
LEMMA SourcedSame ==
    ASSUME NEW r, NEW s, NEW x, NEW y, NEW zs, Sourced(r, y, zs),
           s.zone[x] = r.zone[y], s.data[x] = r.data[y]
    PROVE  Sourced(s, x, zs)
<1> QED
  BY DEF Sourced

\* A step that changes one chain, and leaves it a last zone that stays if it is the
\* default's.
LEMMA BackedStep ==
    ASSUME NEW r, NEW s, NEW n \in Names, NEW X, NEW Y, NEW zs, Backed(r, X, zs),
           Shape(r, s, n, X, Y), \A x \in Of(s, n) : Sourced(s, x, zs),
           n = DefaultName => DefaultLast(s)
    PROVE  Backed(s, X \ Y, zs)
<1>1. \A m \in Names \ {n} : SameAt(r, s, m)
  BY ShapeKeeps
<1>2. ASSUME NEW m \in Names, NEW x \in Of(s, m) PROVE Sourced(s, x, zs)
  <2>1. CASE m = n
    BY <1>2, <2>1
  <2>2. CASE m # n
    <3>1. x \in Of(r, m) /\ s.zone[x] = r.zone[x] /\ s.data[x] = r.data[x]
      BY <1>1, <1>2, <2>2 DEF SameAt
    <3>2. Sourced(r, x, zs)
      BY <3>1 DEF Backed
    <3> QED
      BY <3>1, <3>2, SourcedSame
  <2> QED
    BY <2>1, <2>2
<1>3. ASSUME NEW x \in X \ Y PROVE Sourced(s, x, zs)
  <2>1. s.zone[x] = r.zone[x] /\ s.data[x] = r.data[x]
    <3>1. x \in Entries /\ x \notin Of(r, n) /\ x \notin Y
      <4>1. Of(r, n) \subseteq InChains(r) /\ InChains(r) \cap X = {} /\ X \subseteq Entries
        BY OfBasics DEF Shape, Apart
      <4> QED
        BY <4>1
    <3> QED
      BY <3>1 DEF Shape, Within
  <2>2. Sourced(r, x, zs)
    BY DEF Backed
  <2> QED
    BY <2>1, <2>2, SourcedSame
<1>4. DefaultLast(s)
  <2>1. CASE DefaultName = n
    BY <2>1
  <2>2. CASE DefaultName # n /\ DefaultName \in Names
    <3>1. s.chain[DefaultName] = r.chain[DefaultName] /\ Line(s, DefaultName) = Line(r, DefaultName)
      BY <1>1, <2>2 DEF SameAt
    <3> QED
      BY <3>1 DEF Backed, DefaultLast, LastZone
  <2>3. CASE DefaultName \notin Names
    BY <2>3 DEF DefaultLast
  <2> QED
    BY <2>1, <2>2, <2>3
<1> QED
  BY <1>2, <1>3, <1>4 DEF Backed

\* A registry that has the same chains, and the same in their entries and those of Y.
LEMMA BackedSame ==
    ASSUME NEW r, NEW s, NEW X, NEW Y, NEW zs, Backed(r, X, zs), Y \subseteq X,
           \A n \in Names : /\ Of(s, n) = Of(r, n) /\ Line(s, n) = Line(r, n)
                            /\ s.chain[n] = r.chain[n],
           \A n \in Names : \A x \in Of(r, n) : s.zone[x] = r.zone[x] /\ s.data[x] = r.data[x],
           \A x \in Y : s.zone[x] = r.zone[x] /\ s.data[x] = r.data[x]
    PROVE  Backed(s, Y, zs)
<1>1. ASSUME NEW n \in Names, NEW x \in Of(s, n) PROVE Sourced(s, x, zs)
  <2>1. x \in Of(r, n) /\ Sourced(r, x, zs)
    BY <1>1 DEF Backed
  <2> QED
    BY <2>1, SourcedSame
<1>2. ASSUME NEW x \in Y PROVE Sourced(s, x, zs)
  <2>1. Sourced(r, x, zs)
    BY DEF Backed
  <2> QED
    BY <2>1, SourcedSame
<1>3. DefaultLast(s)
  BY DEF Backed, DefaultLast, LastZone
<1> QED
  BY <1>1, <1>2, <1>3 DEF Backed

\* An entry popped, or a flag changed, moves no data.
LEMMA BackedAside ==
    ASSUME NEW r, NEW s, NEW X, NEW zs, Backed(r, X, zs), Aside(r, s, X)
    PROVE  Backed(s, X, zs)
<1>1. X \subseteq X
  OBVIOUS
<1>2. \A n \in Names : /\ Of(s, n) = Of(r, n) /\ Line(s, n) = Line(r, n)
                       /\ s.chain[n] = r.chain[n]
  BY DEF Aside
<1>3. \A n \in Names : \A x \in Of(r, n) : s.zone[x] = r.zone[x] /\ s.data[x] = r.data[x]
  BY DEF Aside
<1>4. \A x \in X : s.zone[x] = r.zone[x] /\ s.data[x] = r.data[x]
  BY DEF Aside
<1> QED
  BY <1>1, <1>2, <1>3, <1>4, BackedSame

\* The same for a flag, or a count, of the registry itself.
LEMMA BackedRemarked ==
    ASSUME NEW r, NEW u, NEW X, NEW zs, Backed(r, X, zs), Remarked(r, u)
    PROVE  Backed(u, X, zs)
<1>0. u.chain = r.chain /\ u.zone = r.zone /\ u.data = r.data
  BY DEF Remarked
<1>1. X \subseteq X
  OBVIOUS
<1>2. \A n \in Names : /\ Of(u, n) = Of(r, n) /\ Line(u, n) = Line(r, n)
                       /\ u.chain[n] = r.chain[n]
  BY <1>0 DEF Of, Line
<1> QED
  BY <1>0, <1>1, <1>2, BackedSame

\* What the default asset has for a copy.
LEMMA DefaultData ==
    ASSUME NEW r, NEW X, NEW Y, NEW zs, Backed(r, X, zs), Sound(r, Y, zs),
           FindDefaultAsset(r) # NoEntry
    PROVE  /\ DefaultName \in Names /\ r.chain[DefaultName] # <<>>
           /\ r.data[FindDefaultAsset(r)] \in Permanent
           /\ r.data[FindDefaultAsset(r)] \in ToSet(zs)
<1> DEFINE e == FindDefaultAsset(r)
           c == r.chain[DefaultName]
<1>0. r \in AnyRegistry /\ zs \in Seq(Zones)
  BY DEF Sound
<1>1. /\ DefaultName \in Names /\ c # <<>> /\ e = c[Len(c)] /\ Len(c) \in 1..Len(c)
      /\ e \in Of(r, DefaultName)
  BY <1>0, DefaultIs
<1>2. r.zone[e] = LastZone(r, DefaultName)
  BY <1>0, <1>1, LineBasics DEF LastZone
<1>3. r.zone[e] \in Permanent
  BY <1>1, <1>2 DEF Backed, DefaultLast
<1>4. r.zone[e] # 0
  BY <1>3, RegistryAssumption
<1>5. r.data[e] = r.zone[e]
  BY <1>1, <1>4 DEF Backed, Sourced
<1>6. r.zone[e] \in ToSet(zs) \cup {0}
  <2>1. Line(r, DefaultName)[Len(c)] \in ToSet(zs) \cup {0}
    BY <1>0, <1>1, LineBasics DEF Sound, Ordered
  <2> QED
    BY <1>0, <1>1, <2>1, LineBasics
<1> QED
  BY <1>1, <1>3, <1>4, <1>5, <1>6

\* An asset of zone z may be linked under the default's name: z stays, or it is not
\* below the last of what is linked.
Rests(r, z) ==
    \/ z \in Permanent
    \/ /\ r.chain[DefaultName] # <<>>
       /\ ~(Priority[z] < Priority[LastZone(r, DefaultName)])

\* The last zone of a chain is one of its zones.
LEMMA LastIs ==
    ASSUME NEW r \in AnyRegistry, NEW n \in Names, r.chain[n] # <<>>
    PROVE  /\ LastZone(r, n) \in Zoned(r, n) /\ Len(r.chain[n]) \in 1..Len(r.chain[n])
           /\ Len(Line(r, n)) \in 1..Len(Line(r, n))
<1>1. Len(r.chain[n]) \in Nat /\ Len(r.chain[n]) # 0
  BY OfBasics
<1>2. Len(Line(r, n)) = Len(r.chain[n]) /\ Zoned(r, n) = Elems(Line(r, n))
  BY LineBasics
<1>3. Len(r.chain[n]) \in 1..Len(r.chain[n])
  BY <1>1
<1> QED
  BY <1>2, <1>3 DEF LastZone, Elems

\* The default's chain keeps its end when such a zone is linked.
LEMMA LastStays ==
    ASSUME NEW r, NEW s \in AnyRegistry, NEW e, DefaultName \in Names, DefaultLast(r),
           r \in AnyRegistry, Took(r, s, DefaultName, e), EndStays(r, s, DefaultName, e),
           Rests(r, r.zone[e])
    PROVE  DefaultLast(s)
<1>1. CASE r.chain[DefaultName] = <<>>
  <2>1. r.zone[e] \in Permanent
    BY <1>1 DEF Rests
  <2>2. Of(r, DefaultName) = {}
    BY <1>1, OfBasics
  <2>3. Zoned(r, DefaultName) = {}
    BY <2>2 DEF Zoned
  <2>4. Zoned(s, DefaultName) = {r.zone[e]} /\ s.chain[DefaultName] # <<>>
    BY <2>3 DEF Took
  <2>5. LastZone(s, DefaultName) \in Zoned(s, DefaultName)
    BY <2>4, LastIs
  <2> QED
    BY <2>1, <2>4, <2>5 DEF DefaultLast
<1>2. CASE r.chain[DefaultName] # <<>>
  <2>1. LastZone(r, DefaultName) \in Permanent
    BY <1>2 DEF DefaultLast
  <2>2. LastZone(r, DefaultName) # 0
    BY <2>1, RegistryAssumption
  <2>3. \/ LastZone(s, DefaultName) = LastZone(r, DefaultName)
        \/ /\ LastZone(s, DefaultName) = r.zone[e]
           /\ Priority[r.zone[e]] < Priority[LastZone(r, DefaultName)]
    BY <1>2, <2>2 DEF EndStays
  <2>4. LastZone(s, DefaultName) \in Permanent
    BY <2>1, <2>3 DEF Rests
  <2> QED
    BY <2>4 DEF DefaultLast
<1> QED
  BY <1>1, <1>2

\* DB_LinkXAssetEntryOverrideAware moves data between entries only with their zones.
LEMMA ArbitrateBacks ==
    ASSUME NEW r, NEW n \in Names, NEW X, NEW e, NEW zs, Ready(r, n, X, e, zs),
           Backed(r, X, zs), n = DefaultName => Rests(r, r.zone[e])
    PROVE  LET Y == {e}
           IN  Backed(Arbitrate(r, n, e), X \ Y, zs)
<1> DEFINE s == Arbitrate(r, n, e)
           Y == {e}
<1>1. Shape(r, s, n, X, Y) /\ Took(r, s, n, e) /\ EndStays(r, s, n, e)
  BY ArbitrateTakes
<1> HIDE DEF s, Y
<1>2. r \in AnyRegistry /\ s \in AnyRegistry /\ e \in X
  BY <1>1 DEF Shape, Ready
<1>3. ASSUME NEW x \in Of(s, n) PROVE Sourced(s, x, zs)
  <2>1. PICK y \in Of(r, n) \cup {e} : s.zone[x] = r.zone[y] /\ s.data[x] = r.data[y]
    BY <1>1 DEF Took
  <2>2. Sourced(r, y, zs)
    BY <1>2, <2>1 DEF Backed
  <2> QED
    BY <2>1, <2>2, SourcedSame
<1>4. ASSUME n = DefaultName PROVE DefaultLast(s)
  <2>1. DefaultLast(r) /\ DefaultName \in Names /\ Rests(r, r.zone[e])
    BY <1>4 DEF Backed
  <2>2. Took(r, s, DefaultName, e) /\ EndStays(r, s, DefaultName, e)
    BY <1>1, <1>4
  <2> QED
    BY <1>2, <2>1, <2>2, LastStays
<1>5. Backed(s, X \ Y, zs)
  BY <1>1, <1>3, <1>4, BackedStep
<1> QED
  BY <1>5 DEF s, Y

\* A zone that stays has the default asset, is loaded before z, and not above it.
Anchor(zs, W, z) ==
    \E p \in Permanent : /\ <<DefaultName, p>> \in W /\ Later(zs, z, p) /\ p \in Zones
                         /\ Priority[z] >= Priority[p]

\* DefaultAssumption gives one to each zone on the table that is unloaded some day.
LEMMA AnchorIs ==
    ASSUME NEW zs \in Seq(Zones), Once(zs), First(zs), DefaultName \in Names,
           NEW z \in ToSet(zs), z \in Zones, z \notin Permanent, DefaultName \in Content[z],
           NEW l, l = z \/ l = 0, NEW t
    PROVE  Anchor(zs, Wanted(zs, l, t), z)
<1>1. DefaultName # NoName
  BY RegistryAssumption
<1>2. PICK p \in Permanent : DefaultName \in Content[p] /\ Priority[z] >= Priority[p]
  BY <1>1, DefaultAssumption
<1>3. Later(zs, z, p)
  BY DEF First
<1>4. p \in Zones /\ p # 0
  BY RegistryAssumption
<1>5. p \in ToSet(zs)
  BY <1>3 DEF Later, ToSet
<1>6. p # l
  BY <1>4
<1>7. <<DefaultName, p>> \in Wanted(zs, l, t)
  BY <1>2, <1>4, <1>5, <1>6 DEF Wanted
<1> QED
  BY <1>2, <1>3, <1>4, <1>7 DEF Anchor

\* If the anchor is linked, or waits while what is linked is not above it, z may be.
LEMMA AnchorRests ==
    ASSUME NEW r \in AnyRegistry, NEW zs \in Seq(Zones), Ordered(Line(r, DefaultName), zs),
           DefaultName \in Names, DefaultLast(r), NEW z \in Zones, NEW p \in Zones,
           Priority[z] >= Priority[p], r.chain[DefaultName] # <<>>,
           \/ p \in Zoned(r, DefaultName)
           \/ \A y \in Zoned(r, DefaultName) : y # 0 => Priority[p] >= Priority[y]
    PROVE  Rests(r, z)
<1> DEFINE w == LastZone(r, DefaultName)
<1>1. w \in Permanent /\ w \in Zones /\ w # 0
  BY RegistryAssumption DEF DefaultLast
<1>2. w \in Zoned(r, DefaultName) /\ Len(Line(r, DefaultName)) \in 1..Len(Line(r, DefaultName))
  BY LastIs
<1>3. Priority[p] >= Priority[w]
  <2>1. CASE p \in Zoned(r, DefaultName)
    <3>1. ~IsCopy(r, DefaultName)
      BY <1>1, <1>2, CopyAlone
    <3>2. Down(Line(r, DefaultName))
      BY <3>1, LineDown
    <3>3. PICK i \in 1..Len(Line(r, DefaultName)) : p = Line(r, DefaultName)[i]
      BY <2>1, LineBasics DEF Elems
    <3>4. i <= Len(Line(r, DefaultName))
      BY <1>2, <3>3
    <3> QED
      BY <1>2, <3>2, <3>3, <3>4 DEF Down, LastZone
  <2>2. CASE \A y \in Zoned(r, DefaultName) : y # 0 => Priority[p] >= Priority[y]
    BY <1>1, <1>2, <2>2
  <2> QED
    BY <2>1, <2>2
<1>4. Priority[z] \in Int /\ Priority[p] \in Int /\ Priority[w] \in Int
  BY <1>1, RegistryAssumption
<1> HIDE DEF w
<1>5. ~(Priority[z] < Priority[w])
  BY <1>3, <1>4
<1> QED
  BY <1>5 DEF Rests, w

\* No two zones are each loaded after the other.
LEMMA LaterOneWay ==
    ASSUME NEW zs \in Seq(Zones), Once(zs), NEW y, NEW z, Later(zs, y, z), Later(zs, z, y)
    PROVE  FALSE
<1>1. PICK i, j \in 1..Len(zs) : j < i /\ zs[i] = y /\ zs[j] = z
  BY DEF Later
<1>2. PICK k, l \in 1..Len(zs) : l < k /\ zs[k] = z /\ zs[l] = y
  BY DEF Later
<1>3. i = l /\ j = k
  BY <1>1, <1>2 DEF Once
<1>4. Len(zs) \in Nat
  OBVIOUS
<1> QED
  BY <1>1, <1>2, <1>3, <1>4

\* A link that waits under the default's name may be linked when its turn comes: the
\* anchor of its zone was loaded before, so it is linked by then.
LEMMA WaiterRests ==
    ASSUME NEW r, NEW q, NEW k \in 0..(Len(q) - 1), NEW zs, NEW W, NEW d, NEW t,
           Flowing(r, q, k, zs, W, d), W = Wanted(zs, 0, t), First(zs), DefaultLast(r),
           q[k + 1].name = DefaultName
    PROVE  Rests(r, r.zone[q[k + 1].entry])
<1> DEFINE z == r.zone[q[k + 1].entry]
<1>0. /\ r \in AnyRegistry /\ zs \in Seq(Zones) /\ Once(zs) /\ Spread(q)
      /\ \A n \in Names : Ordered(Line(r, n), zs)
      /\ Pending(r, q, k, zs) /\ Owned(r, q, k, W)
  BY DEF Flowing, Fine, Sound
<1>1. DefaultName \in Names /\ k + 1 \in (k + 1)..Len(q)
      /\ \A j \in (k + 1)..Len(q) : j = k + 1 \/ k + 1 < j
  <2>1. /\ q[k + 1].name \in Names /\ k + 1 \in (k + 1)..Len(q)
        /\ \A j \in (k + 1 + 1)..Len(q) : k + 1 < j
        /\ \A j \in (k + 1)..Len(q) : j = k + 1 \/ j \in (k + 1 + 1)..Len(q)
    BY <1>0, WaitLess
  <2> QED
    BY <2>1
<1>2. r.chain[DefaultName] # <<>> /\ z \in ToSet(zs)
  BY <1>0, <1>1 DEF Pending
<1>3. z \in Zones
  BY <1>0, <1>2 DEF ToSet
<1>4. CASE z \in Permanent
  BY <1>4 DEF Rests
<1>5. CASE z \notin Permanent
  <2>1. Waits(r, q, k, DefaultName, z)
    BY <1>1 DEF Waits
  <2>2. <<DefaultName, z>> \in W
    BY <1>0, <1>1, <1>3, <2>1 DEF Owned
  <2>3. DefaultName \in Content[z]
    BY <2>2 DEF Wanted
  <2> HIDE DEF z
  <2>4. Anchor(zs, Wanted(zs, 0, t), z)
    BY <1>0, <1>1, <1>2, <1>3, <1>5, <2>3, AnchorIs
  <2>5. PICK p \in Permanent : /\ <<DefaultName, p>> \in W /\ Later(zs, z, p) /\ p \in Zones
                               /\ Priority[z] >= Priority[p]
    BY <2>4 DEF Anchor
  <2>6. p \in Zoned(r, DefaultName)
    <3>1. SUFFICES ASSUME Waits(r, q, k, DefaultName, p) PROVE FALSE
      BY <1>0, <1>1, <2>5 DEF Owned
    <3>2. PICK j \in (k + 1)..Len(q) : q[j].name = DefaultName /\ r.zone[q[j].entry] = p
      BY <3>1 DEF Waits
    <3>3. CASE j = k + 1
      <4>1. p = z
        BY <3>2, <3>3 DEF z
      <4> QED
        BY <1>0, <2>5, <4>1, LaterOnce
    <3>4. CASE k + 1 < j
      <4>1. Later(zs, r.zone[q[j].entry], r.zone[q[k + 1].entry])
        BY <1>0, <1>1, <3>2, <3>4 DEF Pending
      <4>2. Later(zs, p, z)
        BY <3>2, <4>1 DEF z
      <4> QED
        BY <1>0, <2>5, <4>2, LaterOneWay
    <3> QED
      BY <1>1, <3>3, <3>4
  <2>7. Ordered(Line(r, DefaultName), zs)
    BY <1>0, <1>1
  <2>8. Rests(r, z)
    BY <1>0, <1>1, <1>2, <1>3, <2>5, <2>6, <2>7, AnchorRests
  <2> QED
    BY <2>8 DEF z
<1> QED
  BY <1>4, <1>5

\* DB_FlushCopyInfoQueue, link by link and as a whole.
LEMMA FlushBacks ==
    ASSUME NEW r, NEW q, NEW zs, NEW W, NEW d, NEW t, Flowing(r, q, 0, zs, W, d),
           W = Wanted(zs, 0, t), First(zs), Backed(r, Wait(q, 0), zs)
    PROVE  Backed(FlushAll(r, q), {}, zs)
<1>1. r \in AnyRegistry /\ q \in Seq(Links) /\ Len(q) \in Nat /\ Spread(q)
  BY DEF Flowing, Fine, Sound, Spread
<1>2. PICK g : FlushRun(r, q, g)
  BY <1>1, FlushSteps
<1> DEFINE n == Len(q)
           K == {k \in 0..n : Flowing(g[k], q, k, zs, W, d) /\ Backed(g[k], Wait(q, k), zs)}
<1>3. 0 \in K
  <2>1. g[0] = r /\ 0 \in 0..n
    BY <1>1, <1>2 DEF FlushRun
  <2> QED
    BY <2>1
<1>4. ASSUME NEW k \in 0..(n - 1), k \in K PROVE k + 1 \in K
  <2> DEFINE u == g[k]
             m == q[k + 1].name
             e == q[k + 1].entry
             Y == {e}
             X == Wait(q, k)
  <2>1. k + 1 \in 1..n /\ k + 1 \in 0..n /\ (k + 1) - 1 = k /\ k \in 0..(Len(q) - 1)
    BY <1>1
  <2>2. Flowing(g[k], q, k, zs, W, d) /\ Backed(u, X, zs)
    BY <1>4
  <2>3. g[k + 1] = Arbitrate(u, m, e)
    <3>1. g[k + 1] = Arbitrate(g[(k + 1) - 1], q[k + 1].name, q[k + 1].entry)
      BY <1>2, <2>1 DEF FlushRun
    <3> QED
      BY <2>1, <3>1
  <2> HIDE DEF K, n
  <2>4. Flowing(Arbitrate(g[k], q[k + 1].name, q[k + 1].entry), q, k + 1, zs, W, d)
    BY <2>1, <2>2, FlushStep
  <2>5. Ready(u, m, X, e, zs)
    BY <2>1, <2>2, FlushReady
  <2>6. m = DefaultName => Rests(u, u.zone[e])
    <3>1. DefaultLast(g[k])
      BY <2>2 DEF Backed
    <3> QED
      BY <2>1, <2>2, <3>1, WaiterRests
  <2>7. m \in Names /\ Wait(q, k + 1) = X \ Y
    BY <1>1, <2>1, WaitLess
  <2> HIDE DEF u, m, e, X
  <2>8. Backed(Arbitrate(u, m, e), X \ Y, zs)
    BY <2>2, <2>5, <2>6, <2>7, ArbitrateBacks
  <2>9. Backed(g[k + 1], Wait(q, k + 1), zs)
    BY <2>3, <2>7, <2>8
  <2>10. Flowing(g[k + 1], q, k + 1, zs, W, d)
    BY <2>3, <2>4 DEF u, m, e
  <2> QED
    BY <2>1, <2>9, <2>10 DEF K
<1>5. \A k \in 0..n : k \in K
  <2> HIDE DEF K
  <2> QED
    BY <1>1, <1>3, <1>4, CountUp
<1>6. n \in K /\ g[n] = FlushAll(r, q)
  <2>1. n \in 0..n
    BY <1>1
  <2> QED
    BY <1>2, <1>5, <2>1 DEF FlushRun
<1>7. Wait(q, n) = {}
  <2>1. (n + 1)..n = {}
    BY <1>1
  <2> QED
    BY <2>1 DEF Wait
<1> QED
  BY <1>6, <1>7

\* One name of a zone that does not stay: what the heads take over is the data of other
\* zones, or of the default's last override, which no such zone is.
LEMMA UnloadNameBacks ==
    ASSUME NEW r, NEW n \in Names, NEW zs, NEW d, Fine(r, {}, zs, d), NEW z \in Zones,
           z \notin Permanent, NEW copy \in BOOLEAN, Backed(r, {}, zs)
    PROVE  Backed(UnloadName(r, n, z, copy), {}, zs)
<1> DEFINE s == UnloadName(r, n, z, copy)
           X == {}
           Y == {}
<1>0. Fine(r, X, zs, d) /\ Backed(r, X, zs)
  OBVIOUS
<1> HIDE DEF X
<1>1. Whole(r, n, X, zs) /\ Sound(r, X, zs) /\ r \in AnyRegistry
  BY <1>0 DEF Fine, Sound, Whole
<1>2. Shape(r, s, n, X, {}) /\ Rid(r, s, n, z, copy)
  BY <1>1, UnloadRids
<1>3. Shape(r, s, n, X, Y)
  BY <1>2
<1> HIDE DEF s, Y
<1>4. ASSUME NEW x \in Of(s, n) PROVE Sourced(s, x, zs)
  <2>1. Carries(r, s, n, x)
    BY <1>2 DEF Rid
  <2>2. CASE \E y \in Of(r, n) : s.zone[x] = r.zone[y] /\ s.data[x] = r.data[y]
    <3>1. PICK y \in Of(r, n) : s.zone[x] = r.zone[y] /\ s.data[x] = r.data[y]
      BY <2>2
    <3>2. Sourced(r, y, zs)
      BY <1>0 DEF Backed
    <3> QED
      BY <3>1, <3>2, SourcedSame
  <2>3. CASE /\ FindDefaultAsset(r) # NoEntry
             /\ s.zone[x] = 0 /\ s.data[x] = r.data[FindDefaultAsset(r)]
    <3>1. r.data[FindDefaultAsset(r)] \in Permanent /\ r.data[FindDefaultAsset(r)] \in ToSet(zs)
      BY <1>0, <1>1, <2>3, DefaultData
    <3> QED
      BY <2>3, <3>1 DEF Sourced
  <2> QED
    BY <2>1, <2>2, <2>3 DEF Carries
<1>5. ASSUME n = DefaultName PROVE DefaultLast(s)
  <2>1. ASSUME s.chain[n] # <<>> PROVE LastZone(s, n) \in Permanent
    <3>1. r.chain[n] # <<>>
      BY <1>2, <2>1 DEF Rid
    <3>2. LastZone(r, n) \in Permanent
      BY <1>0, <1>5, <3>1 DEF Backed, DefaultLast
    <3>3. LastZone(s, n) = LastZone(r, n)
      BY <1>2, <2>1, <3>2 DEF Rid
    <3> QED
      BY <3>2, <3>3
  <2> QED
    BY <1>5, <2>1 DEF DefaultLast
<1>6. Backed(s, X \ Y, zs)
  BY <1>0, <1>3, <1>4, <1>5, BackedStep
<1>7. X \ Y = {}
  BY DEF X
<1> QED
  BY <1>6, <1>7 DEF s

\* DB_UnloadZoneAssets and the loop over the table.
LEMMA UnloadZoneBacks ==
    ASSUME NEW r, NEW zs, NEW d, Fine(r, {}, zs, d), NEW z \in Zones, z \notin Permanent,
           NEW copy \in BOOLEAN, NEW order \in SetToSeqs(Names), Backed(r, {}, zs)
    PROVE  Backed(UnloadZoneAssets(r, z, copy, order), {}, zs)
<1>1. order \in Seq(Names) /\ Len(order) \in Nat
  BY OrderCovers
<1>2. r \in AnyRegistry
  BY DEF Fine, Sound
<1>3. PICK g : ZoneRun(r, z, copy, order, g)
  BY <1>1, <1>2, ZoneSteps
<1> DEFINE n == Len(order)
           K == {k \in 0..n : Fine(g[k], {}, zs, d) /\ Backed(g[k], {}, zs)}
<1>4. 0 \in K
  <2>1. g[0] = r /\ 0 \in 0..n
    BY <1>1, <1>3 DEF ZoneRun
  <2> QED
    BY <2>1
<1>5. ASSUME NEW k \in 0..(n - 1), k \in K PROVE k + 1 \in K
  <2> DEFINE t == g[k]
             m == order[k + 1]
             s == UnloadName(t, m, z, copy)
  <2>1. k + 1 \in 1..n /\ k + 1 \in 0..n /\ (k + 1) - 1 = k
    BY <1>1
  <2>2. Fine(t, {}, zs, d) /\ Backed(t, {}, zs)
    BY <1>5
  <2>3. m \in Names
    BY <1>1, <2>1
  <2>4. g[k + 1] = s
    <3>1. g[k + 1] = UnloadName(g[(k + 1) - 1], order[k + 1], z, copy)
      BY <1>3, <2>1 DEF ZoneRun
    <3> QED
      BY <2>1, <3>1
  <2> HIDE DEF K, n, t, m
  <2>5. Fine(s, {}, zs, d)
    BY <2>2, <2>3, UnloadStep
  <2>6. Backed(s, {}, zs)
    BY <2>2, <2>3, UnloadNameBacks
  <2> QED
    BY <2>1, <2>4, <2>5, <2>6 DEF K
<1>6. \A k \in 0..n : k \in K
  <2> HIDE DEF K
  <2> QED
    BY <1>1, <1>4, <1>5, CountUp
<1>7. n \in K /\ g[n] = UnloadZoneAssets(r, z, copy, order)
  <2>1. n \in 0..n
    BY <1>1
  <2> QED
    BY <1>3, <1>6, <2>1 DEF ZoneRun
<1> QED
  BY <1>7

\* Zones that stay are not unloaded, and so not the data of copies.
LEMMA UnloadZonesBacks ==
    ASSUME NEW r, NEW d, Fine(r, {}, zones, d), NEW zs, zs \cap Permanent = {},
           NEW copy \in BOOLEAN, NEW order \in SetToSeqs(Names), Backed(r, {}, zones)
    PROVE  Backed(UnloadZones(r, zs, copy, order), {}, zones)
<1>1. order \in Seq(Names)
  BY OrderCovers
<1>2. r \in AnyRegistry /\ zones \in Seq(Zones) /\ Len(zones) \in Nat
  BY DEF Fine, Sound
<1>3. PICK g : ZonesRun(r, zs, copy, order, g)
  BY <1>1, <1>2, ZonesSteps
<1> DEFINE n == Len(zones)
           K == {k \in 0..n : Fine(g[k], {}, zones, d) /\ Backed(g[k], {}, zones)}
<1>4. 0 \in K
  <2>1. g[0] = r /\ 0 \in 0..n
    BY <1>2, <1>3 DEF ZonesRun
  <2> HIDE DEF n
  <2> QED
    BY <2>1
<1>5. ASSUME NEW k \in 0..(n - 1), k \in K PROVE k + 1 \in K
  <2> DEFINE t == g[k]
             z == zones[n - k]
             s == UnloadOne(t, z, zs, copy, order)
  <2>1. /\ k + 1 \in 1..n /\ k + 1 \in 0..n /\ (k + 1) - 1 = k /\ n + 1 - (k + 1) = n - k
        /\ n - k \in 1..n
    BY <1>2
  <2>2. Fine(t, {}, zones, d) /\ Backed(t, {}, zones)
    BY <1>5
  <2>3. z \in Zones
    BY <1>2, <2>1
  <2>4. g[k + 1] = s
    <3>1. g[k + 1] = UnloadOne(g[(k + 1) - 1], zones[Len(zones) + 1 - (k + 1)], zs, copy, order)
      BY <1>3, <2>1 DEF ZonesRun
    <3> QED
      BY <2>1, <3>1
  <2> HIDE DEF K, n, t, z
  <2>5. Fine(s, {}, zones, d) /\ Backed(s, {}, zones)
    <3>1. CASE z \in zs
      <4>1. s = UnloadZoneAssets(t, z, copy, order)
        BY <3>1 DEF UnloadOne
      <4>2. z \notin Permanent
        BY <3>1
      <4> HIDE DEF s
      <4>3. Fine(UnloadZoneAssets(t, z, copy, order), {}, zones, d)
        BY <2>2, <2>3, UnloadZone
      <4>4. Backed(UnloadZoneAssets(t, z, copy, order), {}, zones)
        BY <2>2, <2>3, <4>2, UnloadZoneBacks
      <4> QED
        BY <4>1, <4>3, <4>4
    <3>2. CASE z \notin zs
      <4>1. s = t
        BY <3>2 DEF UnloadOne
      <4> HIDE DEF s
      <4> QED
        BY <2>2, <4>1
    <3> QED
      BY <3>1, <3>2
  <2> QED
    BY <2>1, <2>4, <2>5 DEF K
<1>6. \A k \in 0..n : k \in K
  <2> HIDE DEF K
  <2> QED
    BY <1>2, <1>4, <1>5, CountUp
<1>7. n \in K /\ g[n] = UnloadZones(r, zs, copy, order)
  <2>1. n \in 0..n
    BY <1>2
  <2> QED
    BY <1>3, <1>6, <2>1 DEF ZonesRun
<1> QED
  BY <1>7

\* DB_PostUnloadCleanup only takes chains away.
LEMMA CleanupBacks ==
    ASSUME NEW r, NEW zs, NEW d, Fine(r, {}, zs, d), Backed(r, {}, zs)
    PROVE  Backed(PostUnloadCleanup(r), {}, zs)
<1> DEFINE s == PostUnloadCleanup(r)
<1>1. r \in AnyRegistry
  BY DEF Fine, Sound
<1>2. Fine(s, {}, zs, d) /\ \E S \in SUBSET Copies(r) : Swept(r, s, S)
  BY CleanupKeeps
<1> HIDE DEF s
<1>3. PICK S \in SUBSET Copies(r) : Swept(r, s, S)
  BY <1>2
<1>4. s \in AnyRegistry
  BY <1>2 DEF Fine, Sound
<1>5. ASSUME NEW n \in Names, s.chain[n] # <<>>
      PROVE  /\ Of(s, n) = Of(r, n) /\ Line(s, n) = Line(r, n) /\ s.chain[n] = r.chain[n]
             /\ \A x \in Of(r, n) : s.zone[x] = r.zone[x] /\ s.data[x] = r.data[x]
  <2>1. HeadOf(r, n) \notin S /\ s.chain[n] = r.chain[n]
    BY <1>3, <1>5 DEF Swept
  <2>2. \A x \in Of(r, n) : s.zone[x] = r.zone[x] /\ s.data[x] = r.data[x]
    BY <1>3, <2>1 DEF Swept
  <2>3. Of(s, n) = Of(r, n)
    BY <2>1 DEF Of
  <2>4. \A i \in 1..Len(r.chain[n]) : r.chain[n][i] \in Of(r, n)
    BY DEF Of, Elems
  <2>5. Line(s, n) = Line(r, n)
    BY <2>1, <2>2, <2>4 DEF Line
  <2> QED
    BY <2>1, <2>2, <2>3, <2>5
<1>6. ASSUME NEW n \in Names, NEW x \in Of(s, n) PROVE Sourced(s, x, zs)
  <2>1. s.chain[n] # <<>>
    BY <1>4, <1>6, OfBasics
  <2>2. x \in Of(r, n) /\ s.zone[x] = r.zone[x] /\ s.data[x] = r.data[x]
    BY <1>5, <1>6, <2>1
  <2>3. Sourced(r, x, zs)
    BY <2>2 DEF Backed
  <2> QED
    BY <2>2, <2>3, SourcedSame
<1>7. DefaultLast(s)
  <2>1. ASSUME DefaultName \in Names, s.chain[DefaultName] # <<>>
        PROVE  LastZone(s, DefaultName) \in Permanent
    <3>1. Line(s, DefaultName) = Line(r, DefaultName) /\ r.chain[DefaultName] # <<>>
      BY <1>5, <2>1
    <3>2. LastZone(r, DefaultName) \in Permanent
      BY <2>1, <3>1 DEF Backed, DefaultLast
    <3> QED
      BY <3>1, <3>2 DEF LastZone
  <2> QED
    BY <2>1 DEF DefaultLast
<1> QED
  BY <1>6, <1>7 DEF Backed, s

\* Another table with the same zones that stay.
LEMMA BackedTable ==
    ASSUME NEW r, NEW X, NEW zs, NEW ys, Backed(r, X, zs),
           \A p \in Permanent : p \in ToSet(zs) => p \in ToSet(ys)
    PROVE  Backed(r, X, ys)
<1>1. \A x : Sourced(r, x, zs) => Sourced(r, x, ys)
  BY DEF Sourced
<1> QED
  BY <1>1 DEF Backed

\* With nothing linked or waiting there is nothing to dangle.
LEMMA EmptyBacks ==
    ASSUME NEW r \in AnyRegistry, \A n \in Names : r.chain[n] = <<>>, NEW zs
    PROVE  Backed(r, {}, zs)
<1>1. \A n \in Names : Of(r, n) = {}
  BY OfBasics
<1> QED
  BY <1>1 DEF Backed, DefaultLast

\* An empty table and an empty queue.
LEMMA EmptyTable == First(<<>>) /\ Wait(<<>>, 0) = {}
<1>1. Len(<<>>) = 0 /\ (0 + 1)..0 = {} /\ DOMAIN <<>> = 1..0 /\ 1..0 = {}
  OBVIOUS
<1>2. ToSet(<<>>) = {}
  BY <1>1 DEF ToSet
<1> QED
  BY <1>1, <1>2 DEF First, Wait

\* What the invariants say of the data in a state some action can be taken in.
LEMMA RunningBacks ==
    ASSUME IInv, BInv, ~halted
    PROVE  Backed(Quiet(db), Wait(queue, 0), zones) /\ First(zones)
<1>1. db \in AnyRegistry
  BY Running
<1>2. Remarked(db, Quiet(db))
  BY <1>1, QuietIs
<1> QED
  BY <1>2, BackedRemarked DEF BInv

\* A default copy shares the data of the default's last override.
LEMMA CopyBacks ==
    ASSUME NEW r, NEW n \in Names, NEW X, NEW zs, NEW d, Fine(r, X, zs, d), Backed(r, X, zs),
           r.free # {}, Unlinked(r, n), FindDefaultAsset(r) # NoEntry
    PROVE  Backed(LinkDefault(r, n), X, zs)
<1> DEFINE s == LinkDefault(r, n)
           e == NextFree(r)
<1>1. /\ \A m \in Names \ {n} : SameAt(r, s, m)
      /\ \A x \in X : s.zone[x] = r.zone[x] /\ s.data[x] = r.data[x]
      /\ Of(s, n) = {e} /\ s.zone[e] = 0 /\ s.data[e] = r.data[FindDefaultAsset(r)]
  BY DefaultLinks
<1> HIDE DEF s, e
<1>2. Sound(r, X, zs)
  BY DEF Fine
<1>3. /\ DefaultName \in Names /\ r.chain[DefaultName] # <<>>
      /\ r.data[FindDefaultAsset(r)] \in Permanent /\ r.data[FindDefaultAsset(r)] \in ToSet(zs)
  BY <1>2, DefaultData
<1>4. DefaultName # n
  BY <1>3 DEF Unlinked
<1>5. ASSUME NEW m \in Names, NEW x \in Of(s, m) PROVE Sourced(s, x, zs)
  <2>1. CASE m = n
    <3>1. x = e
      BY <1>1, <1>5, <2>1
    <3> QED
      BY <1>1, <1>3, <3>1 DEF Sourced
  <2>2. CASE m # n
    <3>1. x \in Of(r, m) /\ s.zone[x] = r.zone[x] /\ s.data[x] = r.data[x]
      BY <1>1, <1>5, <2>2 DEF SameAt
    <3>2. Sourced(r, x, zs)
      BY <3>1 DEF Backed
    <3> QED
      BY <3>1, <3>2, SourcedSame
  <2> QED
    BY <2>1, <2>2
<1>6. ASSUME NEW x \in X PROVE Sourced(s, x, zs)
  <2>1. Sourced(r, x, zs)
    BY DEF Backed
  <2> QED
    BY <1>1, <2>1, SourcedSame
<1>7. DefaultLast(s)
  <2>1. s.chain[DefaultName] = r.chain[DefaultName] /\ Line(s, DefaultName) = Line(r, DefaultName)
    BY <1>1, <1>3, <1>4 DEF SameAt
  <2> QED
    BY <2>1 DEF Backed, DefaultLast, LastZone
<1>8. Backed(s, X, zs)
  BY <1>5, <1>6, <1>7 DEF Backed
<1> QED
  BY <1>8 DEF s

\* The zone being loaded brings the default asset: its anchor is linked or waits.
LEMMA LoaderRests ==
    ASSUME NEW r, NEW q, NEW zs, NEW l \in Zones, NEW t, NEW d,
           Kept(r, q, zs, Wanted(zs, l, t), d), First(zs), DefaultLast(r),
           DefaultName \in Names, l \in ToSet(zs), DefaultName \in Content[l]
    PROVE  Rests(r, l)
<1> DEFINE W == Wanted(zs, l, t)
<1>0. /\ r \in AnyRegistry /\ zs \in Seq(Zones) /\ Once(zs) /\ Spread(q)
      /\ Ordered(Line(r, DefaultName), zs) /\ Pending(r, q, 0, zs) /\ Owned(r, q, 0, W)
      /\ Above(r, q)
  BY DEF Kept, Flowing, Fine, Sound
<1>1. CASE l \in Permanent
  BY <1>1 DEF Rests
<1>2. CASE l \notin Permanent
  <2>1. Anchor(zs, W, l)
    BY <1>0, <1>2, AnchorIs
  <2> HIDE DEF W
  <2>2. PICK p \in Permanent : /\ <<DefaultName, p>> \in W /\ Later(zs, l, p) /\ p \in Zones
                               /\ Priority[l] >= Priority[p]
    BY <2>1 DEF Anchor
  <2>3. p \in Zoned(r, DefaultName) \/ Waits(r, q, 0, DefaultName, p)
    BY <1>0, <2>2 DEF Owned
  <2>4. CASE p \in Zoned(r, DefaultName)
    <3>1. Of(r, DefaultName) # {}
      BY <2>4 DEF Zoned
    <3>2. r.chain[DefaultName] # <<>>
      BY <1>0, <3>1, OfBasics
    <3> QED
      BY <1>0, <2>2, <2>4, <3>2, AnchorRests
  <2>5. CASE Waits(r, q, 0, DefaultName, p)
    <3>1. PICK j \in (0 + 1)..Len(q) : q[j].name = DefaultName /\ r.zone[q[j].entry] = p
      BY <2>5 DEF Waits
    <3>2. r.chain[DefaultName] # <<>>
      BY <1>0, <3>1 DEF Pending
    <3>3. j \in 1..Len(q)
      BY <3>1
    <3>4. \A y \in Zoned(r, DefaultName) : y # 0 => Priority[p] >= Priority[y]
      BY <1>0, <3>1, <3>3 DEF Above
    <3> QED
      BY <1>0, <2>2, <3>2, <3>4, AnchorRests
  <2> QED
    BY <2>3, <2>4, <2>5
<1> QED
  BY <1>1, <1>2

\* Data, step by step: a zone is begun, after those that stay.
LEMMA StartLoadBacks ==
    ASSUME IInv, BInv, NEW z \in Zones, NEW s \in BOOLEAN, StartLoad(z, s) PROVE BInv'
<1> DEFINE zl == Append(zones, z)
           X == Wait(queue, 0)
<1>0. /\ ~halted /\ z \notin ToSet(zones) /\ (z \in Permanent \/ Permanent \subseteq ToSet(zones))
      /\ zones' = zl /\ db' = Quiet(db) /\ queue' = queue
  BY DEF StartLoad, Idle
<1>1. Backed(Quiet(db), X, zones) /\ First(zones) /\ zones \in Seq(Zones) /\ Once(zones)
  BY <1>0, RunningBacks, Running
<1>2. /\ ToSet(zl) = ToSet(zones) \cup {z} /\ zl # <<>> /\ zl[Len(zl)] = z /\ zl \in Seq(Zones)
      /\ \A y, x : Later(zones, y, x) => Later(zl, y, x)
  BY <1>0, <1>1, AppendSurvives DEF Survive
<1> HIDE DEF zl, X
<1>3. Backed(Quiet(db), X, zl)
  BY <1>1, <1>2, BackedTable
<1>4. ASSUME NEW y \in ToSet(zl) \ Permanent, NEW p \in Permanent PROVE Later(zl, y, p)
  <2>1. CASE y \in ToSet(zones)
    BY <1>1, <1>2, <1>4, <2>1 DEF First
  <2>2. CASE y = z
    <3>1. p \in ToSet(zl) /\ p # z
      BY <1>0, <1>2, <1>4, <2>2
    <3> QED
      BY <1>2, <2>2, <3>1, LastLater
  <2> QED
    BY <1>2, <2>1, <2>2
<1>5. First(zl)
  BY <1>4 DEF First
<1>6. First(zones') /\ Backed(db', Wait(queue', 0), zones')
  BY <1>0, <1>3, <1>5 DEF X
<1> QED
  BY <1>6 DEF BInv

\* An entry put at the end of the queue.
LEMMA WaitMore ==
    ASSUME NEW q, Spread(q), NEW n \in Names, NEW e \in Entries
    PROVE  Wait(Append(q, [name |-> n, entry |-> e]), 0) = Wait(q, 0) \cup {e}
<1> DEFINE l == [name |-> n, entry |-> e]
           p == Append(q, l)
<1>1. q \in Seq(Links) /\ Len(q) \in Nat /\ Wait(q, 0) = {q[j].entry : j \in 1..Len(q)}
  BY QueueIs
<1>2. l \in Links /\ l.entry = e
  BY DEF Links
<1> HIDE DEF l
<1>3. /\ Len(p) = Len(q) + 1 /\ p[Len(q) + 1] = l
      /\ \A j \in 1..Len(q) : p[j] = q[j]
  BY <1>1, <1>2
<1> HIDE DEF p
<1>4. (0 + 1)..Len(p) = (1..Len(q)) \cup {Len(q) + 1}
  BY <1>1, <1>3
<1>5. Wait(p, 0) = {p[j].entry : j \in 1..Len(q)} \cup {p[Len(q) + 1].entry}
  BY <1>4 DEF Wait
<1>6. {p[j].entry : j \in 1..Len(q)} = {q[j].entry : j \in 1..Len(q)}
  BY <1>3
<1> QED
  BY <1>1, <1>2, <1>3, <1>5, <1>6 DEF p, l

\* The entry handed out for an asset is filled with the data of its zone.
LEMMA AllocBacks ==
    ASSUME NEW r, NEW X, NEW zs, Sound(r, X, zs), Backed(r, X, zs), r.free # {},
           NEW z \in Zones
    PROVE  LET e == NextFree(r)
               s == Alloc(r, z, z)
               Y == X \cup {e}
           IN  Backed(s, Y, zs) /\ Aside(r, s, X) /\ e \in Entries /\ e \notin X /\ s.zone[e] = z
<1> DEFINE e == NextFree(r)
           s == Alloc(r, z, z)
           Y == X \cup {e}
<1>0. z \in Zones \cup {0} /\ z # 0
  BY RegistryAssumption
<1>1. /\ e \in Entries /\ e \in r.free /\ e \notin X /\ e \notin InChains(r)
      /\ Sound(s, X \cup {e}, zs) /\ Aside(r, s, X)
      /\ s.zone[e] = z /\ s.data[e] = z /\ s.lost = r.lost /\ s.refs = r.refs
      /\ s.free = r.free \ {e}
      /\ \A d : Fine(r, X, zs, d) => Fine(s, X \cup {e}, zs, d)
  BY <1>0, AllocHands
<1> HIDE DEF e, s
<1>2. Backed(s, X, zs)
  BY <1>1, BackedAside
<1>3. Sourced(s, e, zs)
  BY <1>0, <1>1 DEF Sourced
<1>4. Backed(s, Y, zs)
  BY <1>2, <1>3 DEF Backed
<1> QED
  BY <1>1, <1>4 DEF e, s

\* An asset is linked or deferred, with the data of its own zone.
LEMMA LinkAssetBacks ==
    ASSUME IInv, BInv, NEW n \in Names, LinkAsset(n) PROVE BInv'
<1> DEFINE r0 == Quiet(db)
           e == NextFree(db)
           r == Alloc(r0, loading, loading)
           W == Wanted(zones, loading, todo)
           X == Wait(queue, 0)
           Y == X \cup {e}
<1>0. ~halted /\ <<n, FALSE>> \in todo /\ zones' = zones
  BY DEF LinkAsset
<1>1. SUFFICES ASSUME ~halted' PROVE Backed(db', Wait(queue', 0), zones)
  <2>1. First(zones)
    BY <1>0, RunningBacks
  <2> QED
    BY <1>0, <2>1 DEF BInv
<1>2. CanAlloc(db) /\ MayOverride(db, n)
  BY <1>1 DEF LinkAsset
<1>3. /\ Deferred(r, n, e) /\ ~sync => db' = r /\ queue' = Append(queue, [name |-> n, entry |-> e])
      /\ ~(Deferred(r, n, e) /\ ~sync) => db' = Arbitrate(r, n, e) /\ queue' = queue
  BY <1>1, <1>2 DEF LinkAsset
<1>4. db.free # {}
  BY <1>2 DEF CanAlloc
<1>5. /\ Handed(r0, r, queue, zones, W, drops, n, e, loading) /\ loading \in Zones
  BY <1>0, <1>4, LinkAssetHanded
<1>6. /\ Sound(r0, X, zones) /\ Backed(r0, X, zones) /\ First(zones) /\ Spread(queue)
      /\ Kept(r0, queue, zones, W, drops) /\ r0 \in AnyRegistry
      /\ r0.free # {} /\ NextFree(r0) = e /\ Working(queue, zones, loading, todo, sync)
  BY <1>0, <1>4, Running, RunningBacks
<1> HIDE DEF r0, X
<1>7. Backed(r, Y, zones) /\ Aside(r0, r, X) /\ e \in Entries /\ e \notin X /\ r.zone[e] = loading
  <2> DEFINE f == NextFree(r0)
             Z == X \cup {f}
  <2>1. /\ Backed(r, Z, zones) /\ Aside(r0, r, X) /\ f \in Entries /\ f \notin X
        /\ r.zone[f] = loading
    BY <1>5, <1>6, AllocBacks
  <2> QED
    BY <1>6, <2>1
<1> HIDE DEF e, r, W
<1>8. Fresh(r0, r, queue, zones, n, e, loading)
  BY <1>5, HandedIs
<1>9. CASE Deferred(r, n, e) /\ ~sync
  <2>1. db' = r /\ queue' = Append(queue, [name |-> n, entry |-> e])
    BY <1>3, <1>9
  <2>2. Wait(queue', 0) = Y
    BY <1>6, <1>7, <2>1, WaitMore DEF X
  <2> QED
    BY <1>7, <2>1, <2>2
<1>10. CASE ~(Deferred(r, n, e) /\ ~sync)
  <2>1. db' = Arbitrate(r, n, e) /\ queue' = queue
    BY <1>3, <1>10
  <2>2. Ready(r, n, Y, e, zones) /\ loading \in ToSet(zones)
    BY <1>8 DEF Fresh, X
  <2>3. ASSUME n = DefaultName PROVE Rests(r, loading)
    <3>1. DefaultName \in Content[loading] /\ DefaultName \in Names
      BY <1>0, <1>5, <1>6, <2>3, RegistryAssumption DEF Working
    <3>2. Rests(r0, loading)
      <4>1. Kept(r0, queue, zones, Wanted(zones, loading, todo), drops) /\ DefaultLast(r0)
        BY <1>6 DEF W, Backed
      <4> QED
        BY <1>5, <1>6, <2>2, <3>1, <4>1, LoaderRests
    <3>3. r.chain = r0.chain /\ Line(r, DefaultName) = Line(r0, DefaultName)
      BY <1>7, <3>1 DEF Aside
    <3> QED
      BY <3>2, <3>3 DEF Rests, LastZone
  <2> DEFINE V == {e}
  <2>4. Y \ V = X
    BY <1>7
  <2> HIDE DEF Y
  <2>5. Backed(Arbitrate(r, n, e), Y \ V, zones)
    BY <1>7, <2>2, <2>3, ArbitrateBacks
  <2> QED
    BY <2>1, <2>4, <2>5 DEF X
<1> QED
  BY <1>9, <1>10

\* A comma name gets a default copy.
LEMMA LinkSoftBacks ==
    ASSUME IInv, BInv, NEW n \in Names, LinkSoft(n) PROVE BInv'
<1> DEFINE r0 == Quiet(db)
           X == Wait(queue, 0)
<1>0. ~halted /\ zones' = zones /\ queue' = queue
  BY DEF LinkSoft
<1>1. /\ Backed(r0, X, zones) /\ First(zones) /\ Fine(r0, X, zones, drops)
      /\ r0.free = db.free /\ r0.chain = db.chain
      /\ FindDefaultAsset(r0) = FindDefaultAsset(db)
  BY <1>0, RunningBacks, Running
<1> HIDE DEF X
<1>2. SUFFICES ASSUME ~halted' PROVE Backed(db', X, zones)
  BY <1>0, <1>1 DEF BInv, X
<1>3. CASE db.chain[n] # <<>>
  <2>1. db' = r0
    BY <1>3 DEF LinkSoft
  <2> QED
    BY <1>1, <2>1
<1>4. CASE db.chain[n] = <<>>
  <2>1. FindDefaultAsset(db) # NoEntry /\ CanAlloc(db) /\ db' = LinkDefault(r0, n)
    BY <1>2, <1>4 DEF LinkSoft
  <2> HIDE DEF r0
  <2>2. r0.free # {} /\ Unlinked(r0, n) /\ FindDefaultAsset(r0) # NoEntry
    BY <1>1, <1>4, <2>1 DEF CanAlloc, Unlinked
  <2>3. Backed(LinkDefault(r0, n), X, zones)
    BY <1>1, <2>2, CopyBacks
  <2> QED
    BY <2>1, <2>3
<1> QED
  BY <1>3, <1>4

\* A lookup makes a default copy.
LEMMA FindBacks ==
    ASSUME IInv, BInv, NEW n \in Names, Find(n) PROVE BInv'
<1> DEFINE r0 == Quiet(db)
           X == Wait(queue, 0)
<1>0. ~halted /\ zones' = zones /\ queue' = queue
  BY DEF Find
<1>1. /\ Backed(r0, X, zones) /\ First(zones) /\ Fine(r0, X, zones, drops) /\ Sound(r0, X, zones)
      /\ r0.free = db.free /\ r0.chain = db.chain /\ r0 \in AnyRegistry /\ db \in AnyRegistry
      /\ FindDefaultAsset(r0) = FindDefaultAsset(db)
  BY <1>0, RunningBacks, Running
<1> HIDE DEF X
<1>2. SUFFICES Backed(db', X, zones)
  BY <1>0, <1>1 DEF BInv, X
<1>3. CASE db.chain[n] # <<>>
  <2> DEFINE used == r0.inuse \cup {HeadOf(db, n)}
  <2>1. db' = [r0 EXCEPT !.inuse = used]
    BY <1>3 DEF Find
  <2>2. used \subseteq Entries
    <3>1. HeadOf(db, n) \in Entries
      BY <1>1, <1>3, OfBasics
    <3> HIDE DEF r0
    <3> QED
      BY <1>1, <3>1 DEF AnyRegistry
  <2> HIDE DEF used, r0
  <2>3. db' \in AnyRegistry
    BY <1>1, <2>1, <2>2 DEF AnyRegistry
  <2>4. /\ db'.chain = r0.chain /\ db'.zone = r0.zone /\ db'.data = r0.data
        /\ db'.free = r0.free /\ db'.lost = r0.lost
    BY <1>1, <2>1 DEF AnyRegistry
  <2>5. Remarked(r0, db')
    BY <2>3, <2>4 DEF Remarked
  <2> QED
    BY <1>1, <2>5, BackedRemarked
<1>4. CASE db.chain[n] = <<>> /\ CanAlloc(db)
  <2>1. FindDefaultAsset(db) # NoEntry /\ db' = LinkDefault(r0, n)
    BY <1>4 DEF Find
  <2> HIDE DEF r0
  <2>2. r0.free # {} /\ Unlinked(r0, n) /\ FindDefaultAsset(r0) # NoEntry
    BY <1>1, <1>4, <2>1 DEF CanAlloc, Unlinked
  <2>3. Backed(LinkDefault(r0, n), X, zones)
    BY <1>1, <2>2, CopyBacks
  <2> QED
    BY <2>1, <2>3
<1>5. CASE db.chain[n] = <<>> /\ ~CanAlloc(db)
  <2> DEFINE s == AllocFailed(r0)
  <2>1. db' = [s EXCEPT !.refs = @ + 1]
    BY <1>5 DEF Find
  <2> HIDE DEF r0
  <2>2. Aside(r0, s, X)
    BY <1>1, AllocFails
  <2> HIDE DEF s
  <2>3. s \in AnyRegistry /\ s.refs \in Int
    BY <2>2 DEF Aside, AnyRegistry
  <2> DEFINE count == s.refs + 1
  <2>4. db' = [s EXCEPT !.refs = count] /\ count \in Int
    BY <2>1, <2>3
  <2> HIDE DEF count
  <2>5. db' \in AnyRegistry
    BY <2>3, <2>4 DEF AnyRegistry
  <2>6. /\ db'.chain = s.chain /\ db'.zone = s.zone /\ db'.data = s.data
        /\ db'.free = s.free /\ db'.lost = s.lost
    BY <2>3, <2>4 DEF AnyRegistry
  <2>7. Remarked(s, db')
    BY <2>5, <2>6 DEF Remarked
  <2>8. Backed(s, X, zones)
    BY <1>1, <2>2, BackedAside
  <2> QED
    BY <2>7, <2>8, BackedRemarked
<1> QED
  BY <1>3, <1>4, <1>5

\* The heads are marked unused.
LEMMA ClearInuseBacks ==
    ASSUME IInv, BInv, ClearInuse PROVE BInv'
<1> DEFINE r0 == Quiet(db)
           X == Wait(queue, 0)
           used == r0.inuse \ Heads(db)
<1>0. ~halted /\ zones' = zones /\ queue' = queue /\ db' = [r0 EXCEPT !.inuse = used]
  BY DEF ClearInuse, Idle
<1>1. Backed(r0, X, zones) /\ First(zones) /\ r0 \in AnyRegistry
  BY <1>0, RunningBacks, Running
<1> HIDE DEF r0
<1>2. used \subseteq Entries
  BY <1>1 DEF AnyRegistry
<1> HIDE DEF used, X
<1>3. db' \in AnyRegistry
  BY <1>0, <1>1, <1>2 DEF AnyRegistry
<1>4. /\ db'.chain = r0.chain /\ db'.zone = r0.zone /\ db'.data = r0.data
      /\ db'.free = r0.free /\ db'.lost = r0.lost
  BY <1>0, <1>1 DEF AnyRegistry
<1>5. Remarked(r0, db')
  BY <1>3, <1>4 DEF Remarked
<1>6. Backed(db', X, zones)
  BY <1>1, <1>5, BackedRemarked
<1> QED
  BY <1>0, <1>1, <1>6 DEF BInv, X

\* DB_FlushCopyInfoQueue, with nothing being loaded.
LEMMA FlushedBacks ==
    ASSUME IInv, BInv, Idle PROVE Backed(FlushAll(Quiet(db), queue), {}, zones) /\ First(zones)
<1> DEFINE r0 == Quiet(db)
<1>0. ~halted /\ loading = 0
  BY DEF Idle
<1>1. /\ Backed(r0, Wait(queue, 0), zones) /\ First(zones)
      /\ Kept(r0, queue, zones, Wanted(zones, loading, todo), drops)
  BY <1>0, RunningBacks, Running
<1> HIDE DEF r0
<1>2. Flowing(r0, queue, 0, zones, Wanted(zones, 0, todo), drops)
  BY <1>0, <1>1 DEF Kept
<1>3. Backed(FlushAll(r0, queue), {}, zones)
  BY <1>1, <1>2, FlushBacks
<1> QED
  BY <1>1, <1>3 DEF r0

\* The deferred links are applied.
LEMMA FlushTakesBacks ==
    ASSUME IInv, BInv, Flush PROVE BInv'
<1>1. Idle /\ zones' = zones /\ queue' = <<>> /\ db' = FlushAll(Quiet(db), queue)
  BY DEF Flush
<1>2. Backed(db', {}, zones) /\ First(zones)
  BY <1>1, FlushedBacks
<1> QED
  BY <1>1, <1>2, EmptyTable DEF BInv

\* The table an unload leaves has the same zones that stay, and they are still first.
LEMMA FirstLess ==
    ASSUME NEW zs \in Seq(Zones), Once(zs), First(zs), NEW S, S \cap Permanent = {}
    PROVE  /\ First(Without(zs, S))
           /\ \A p \in Permanent : p \in ToSet(zs) => p \in ToSet(Without(zs, S))
<1> DEFINE ys == Without(zs, S)
<1>1. Survive(zs, ys) /\ ToSet(ys) = ToSet(zs) \ S
  BY WithoutSurvives
<1> HIDE DEF ys
<1>2. \A p \in Permanent : p \in ToSet(zs) => p \in ToSet(ys)
  BY <1>1
<1>3. ASSUME NEW z \in ToSet(ys) \ Permanent, NEW p \in Permanent PROVE Later(ys, z, p)
  <2>1. Later(zs, z, p)
    BY <1>1, <1>3 DEF First
  <2>2. p \in ToSet(zs)
    BY <2>1 DEF Later, ToSet
  <2> QED
    BY <1>1, <1>2, <1>3, <2>1, <2>2 DEF Survive
<1> QED
  BY <1>2, <1>3 DEF First, ys

\* Zones are unloaded; those that stay are still the first.
LEMMA UnloadBacks ==
    ASSUME IInv, BInv, NEW ys \in SUBSET Zones, NEW zs \in SUBSET Zones, Unload(ys, zs)
    PROVE  BInv'
<1> DEFINE s == FlushAll(Quiet(db), queue)
           S == ys \cup zs
           zl == Without(zones, S)
<1>0. /\ Idle /\ ~halted /\ queue' = <<>> /\ zones' = zl
      /\ ys \cap Permanent = {} /\ zs \cap Permanent = {} /\ S \cap Permanent = {}
  BY DEF Unload, Idle
<1>1. PICK order \in SetToSeqs(Names) :
         db' = PostUnloadCleanup(UnloadZones(UnloadZones(s, ys, TRUE, order), zs, TRUE, order))
  BY DEF Unload
<1>2. Fine(s, {}, zones, drops)
  BY <1>0, Flushed
<1>3. Backed(s, {}, zones) /\ First(zones)
  BY <1>0, FlushedBacks
<1>4. zones \in Seq(Zones) /\ Once(zones)
  BY <1>0, Running
<1> HIDE DEF s, S
<1> DEFINE t == UnloadZones(s, ys, TRUE, order)
           u == UnloadZones(t, zs, TRUE, order)
<1>5. Fine(t, {}, zones, drops)
  BY <1>2, UnloadMany
<1>6. Backed(t, {}, zones)
  BY <1>0, <1>2, <1>3, UnloadZonesBacks
<1>7. db' = PostUnloadCleanup(u)
  BY <1>1
<1> HIDE DEF t
<1>8. Fine(u, {}, zones, drops)
  BY <1>5, UnloadMany
<1>9. Backed(u, {}, zones)
  BY <1>0, <1>5, <1>6, UnloadZonesBacks
<1> HIDE DEF u
<1>10. Backed(db', {}, zones)
  BY <1>7, <1>8, <1>9, CleanupBacks
<1>11. First(zl) /\ \A p \in Permanent : p \in ToSet(zones) => p \in ToSet(zl)
  BY <1>0, <1>3, <1>4, FirstLess
<1> HIDE DEF zl
<1>12. Backed(db', {}, zl)
  BY <1>10, <1>11, BackedTable
<1>13. First(zones') /\ Backed(db', Wait(queue', 0), zones')
  BY <1>0, <1>11, <1>12, EmptyTable
<1> QED
  BY <1>13 DEF BInv

\* All zones are unloaded, and nothing is left to dangle.
LEMMA UnloadAllBacks ==
    ASSUME IInv, BInv, UnloadAll PROVE BInv'
<1>1. queue' = <<>> /\ zones' = <<>>
  BY DEF UnloadAll
<1>2. /\ IInv' /\ \A n \in Names : db'.chain[n] = <<>>
  BY UnloadAllSteps
<1>3. db' \in AnyRegistry
  BY <1>2 DEF IInv, Sound
<1>4. Backed(db', {}, zones')
  BY <1>2, <1>3, EmptyBacks
<1>5. First(zones') /\ Backed(db', Wait(queue', 0), zones')
  BY <1>1, <1>4, EmptyTable
<1> QED
  BY <1>5 DEF BInv

\* A zone is done.
LEMMA EndLoadBacks ==
    ASSUME IInv, BInv, EndLoad PROVE BInv'
<1>1. ~halted /\ zones' = zones /\ queue' = queue /\ db' = Quiet(db)
  BY DEF EndLoad
<1>2. Backed(Quiet(db), Wait(queue, 0), zones) /\ First(zones)
  BY <1>1, RunningBacks
<1> QED
  BY <1>1, <1>2 DEF BInv

\* At the start nothing is linked.
LEMMA InitBInv ==
    ASSUME Init PROVE BInv
<1>1. zones = <<>> /\ queue = <<>> /\ \A n \in Names : db.chain[n] = <<>>
  BY DEF Init
<1>2. IInv
  BY InitIInv
<1>3. db \in AnyRegistry
  BY <1>2 DEF IInv, Sound
<1>4. Backed(db, {}, zones)
  BY <1>1, <1>3, EmptyBacks
<1> QED
  BY <1>1, <1>4, EmptyTable DEF BInv

\* Every step keeps the data of the entries in zones that are loaded.
LEMMA NextBacks ==
    ASSUME IInv, BInv, [Next]_vars PROVE BInv'
<1>1. CASE UNCHANGED vars
  <2>1. db' = db /\ queue' = queue /\ zones' = zones /\ halted' = halted
    BY <1>1 DEF vars
  <2> QED
    BY <2>1 DEF BInv
<1>2. ASSUME NEW z \in Zones, NEW s \in BOOLEAN, StartLoad(z, s) PROVE BInv'
  BY <1>2, StartLoadBacks
<1>3. ASSUME NEW n \in Names, LinkAsset(n) PROVE BInv'
  BY <1>3, LinkAssetBacks
<1>4. ASSUME NEW n \in Names, LinkSoft(n) PROVE BInv'
  BY <1>4, LinkSoftBacks
<1>5. ASSUME NEW n \in Names, Find(n) PROVE BInv'
  BY <1>5, FindBacks
<1>6. EndLoad => BInv'
  BY EndLoadBacks
<1>7. Flush => BInv'
  BY FlushTakesBacks
<1>8. ClearInuse => BInv'
  BY ClearInuseBacks
<1>9. ASSUME NEW ys \in SUBSET Zones, NEW zs \in SUBSET Zones, Unload(ys, zs) PROVE BInv'
  BY <1>9, UnloadBacks
<1>10. UnloadAll => BInv'
  BY UnloadAllBacks
<1> HIDE DEF BInv
<1> QED
  BY <1>1, <1>2, <1>3, <1>4, <1>5, <1>6, <1>7, <1>8, <1>9, <1>10 DEF Next

\* The books and the data they stand for: the permanent zones are the first loaded, and
\* every entry has its zone's data, or, a default copy, those of a permanent zone.
THEOREM DataBacked == Spec => [](IInv /\ BInv)
<1>1. Init => IInv /\ BInv
  BY InitIInv, InitBInv
<1>2. IInv /\ BInv /\ [Next]_vars => IInv' /\ BInv'
  BY NextSteps, NextBacks
<1> QED
  BY <1>1, <1>2, PTL DEF Spec

\* Where the entries of NoDangling are.
LEMMA PlacesAre ==
    ASSUME IInv
    PROVE  Linked = InChains(db) /\ Queued = Wait(queue, 0)
<1>1. db \in AnyRegistry /\ Spread(queue)
  BY DEF IInv, Sound
<1>2. ASSUME NEW n \in Names PROVE ToSet(db.chain[n]) = Of(db, n)
  <2>1. db.chain[n] \in Seq(Entries)
    BY <1>1, OfBasics
  <2>2. DOMAIN db.chain[n] = 1..Len(db.chain[n])
    BY <2>1
  <2> QED
    BY <2>2 DEF ToSet, Of, Elems
<1>3. Linked = InChains(db)
  BY <1>2 DEF Linked, InChains
<1>4. /\ queue \in Seq(Links) /\ Wait(queue, 0) = {queue[j].entry : j \in 1..Len(queue)}
  BY <1>1, QueueIs
<1>5. DOMAIN queue = 1..Len(queue)
  BY <1>4
<1> QED
  BY <1>3, <1>4, <1>5 DEF Queued, ToSet

\* No header, linked or waiting, has data in a zone that is gone: an owned one has its
\* zone's, and a default copy's are in a zone that is still there.
THEOREM NothingDangles == Spec => []NoDangling
<1>1. ASSUME IInv, BInv, ~halted, NEW x \in Linked \cup Queued
      PROVE  /\ db.data[x] \in ToSet(zones)
             /\ db.zone[x] # 0 => db.data[x] = db.zone[x]
  <2>1. /\ db \in AnyRegistry /\ zones \in Seq(Zones) /\ Spread(queue)
        /\ \A n \in Names : Ordered(Line(db, n), zones)
    BY <1>1 DEF IInv, Sound
  <2>2. Backed(db, Wait(queue, 0), zones)
    BY <1>1 DEF BInv
  <2>3. x \in InChains(db) \/ x \in Wait(queue, 0)
    BY <1>1, PlacesAre
  <2>4. Sourced(db, x, zones)
    BY <2>2, <2>3 DEF Backed, InChains
  <2>5. db.zone[x] \in ToSet(zones) \cup {0}
    <3>1. CASE x \in InChains(db)
      <4>1. PICK n \in Names : x \in Of(db, n)
        BY <3>1 DEF InChains
      <4>2. Zoned(db, n) \subseteq ToSet(zones) \cup {0}
        BY <2>1, CopyAlone
      <4> QED
        BY <4>1, <4>2 DEF Zoned
    <3>2. CASE x \in Wait(queue, 0)
      <4>1. Pending(db, queue, 0, zones)
        BY <1>1 DEF IInv, Kept, Flowing
      <4>2. PICK j \in (0 + 1)..Len(queue) : x = queue[j].entry
        BY <3>2 DEF Wait
      <4> QED
        BY <4>1, <4>2 DEF Pending
    <3> QED
      BY <2>3, <3>1, <3>2
  <2> QED
    BY <2>4, <2>5 DEF Sourced
<1>2. IInv /\ BInv => NoDangling
  BY <1>1 DEF NoDangling
<1> QED
  BY <1>2, DataBacked, PTL

\* With nothing linked or waiting, the pool is full but for what is lost.
LEMMA PoolFull ==
    ASSUME NEW r, NEW zs, NEW d, Fine(r, {}, zs, d), \A n \in Names : r.chain[n] = <<>>
    PROVE  r.free = Entries \ r.lost /\ r.refs = d
<1>1. /\ r \in AnyRegistry /\ Apart(r, {}) /\ Cover(r, {}) /\ Refs(r, d) /\ d \in Nat
  BY DEF Fine, Sound
<1>2. \A n \in Names : Of(r, n) = {}
  BY <1>1, OfBasics
<1>3. InChains(r) = {}
  BY <1>2 DEF InChains
<1>4. r.free \subseteq Entries /\ r.free \cap r.lost = {}
  BY <1>1 DEF AnyRegistry, Apart
<1>5. r.free = Entries \ r.lost
  BY <1>1, <1>3, <1>4 DEF Cover
<1>6. Copies(r) = {}
  BY CopiesAre DEF IsCopy
<1>7. r.refs = d
  BY <1>1, <1>6, FS_EmptySet DEF Refs
<1> QED
  BY <1>5, <1>7

\* With no zone that stays, and none on the table, nothing is linked.
LEMMA NoneLinked ==
    ASSUME NEW r, NEW X, NEW zs, NEW Y, Sound(r, X, zs), Backed(r, Y, zs),
           ToSet(zs) = {}
    PROVE  \A n \in Names : r.chain[n] = <<>>
<1>1. ASSUME NEW n \in Names, NEW x \in Of(r, n) PROVE FALSE
  <2>1. Sourced(r, x, zs)
    BY <1>1 DEF Backed
  <2>2. r \in AnyRegistry /\ zs \in Seq(Zones) /\ Ordered(Line(r, n), zs)
    BY DEF Sound
  <2>3. Zoned(r, n) \subseteq ToSet(zs) \cup {0}
    BY <2>2, CopyAlone
  <2>4. r.zone[x] = 0
    BY <2>3 DEF Zoned
  <2> QED
    BY <2>1, <2>4 DEF Sourced
<1>2. r \in AnyRegistry
  BY DEF Sound
<1> QED
  BY <1>1, <1>2, OfBasics

\* Only an unload leaves the table of zones empty that was not.
LEMMA TableEmptied ==
    ASSUME IInv, [Next]_vars, zones # <<>>, zones' = <<>>
    PROVE  UnloadAll \/ \E ys, zs \in SUBSET Zones : Unload(ys, zs)
<1>0. zones \in Seq(Zones)
  BY DEF IInv, Sound
<1>1. CASE UNCHANGED vars
  BY <1>1 DEF vars
<1>2. ASSUME NEW z \in Zones, NEW s \in BOOLEAN, StartLoad(z, s) PROVE FALSE
  <2>1. zones' = Append(zones, z)
    BY <1>2 DEF StartLoad
  <2>2. Append(zones, z) # <<>>
    BY <1>0
  <2> QED
    BY <2>1, <2>2
<1>3. ASSUME NEW n \in Names, LinkAsset(n) \/ LinkSoft(n) \/ Find(n) PROVE FALSE
  BY <1>3 DEF LinkAsset, LinkSoft, Find
<1>4. ~EndLoad /\ ~Flush /\ ~ClearInuse
  BY DEF EndLoad, Flush, ClearInuse
<1> QED
  BY <1>1, <1>2, <1>3, <1>4 DEF Next

\* Unloading the last zone, or all of them, leaves no name, no reference and every entry
\* free, but for those an error has lost.
THEOREM UnloadsAll == Spec => UnloadAllEmpties
<1>1. ASSUME IInv, BInv, [Next]_vars, zones # <<>>, zones' = <<>>
      PROVE  /\ \A n \in Names : db'.chain[n] = <<>>
             /\ db'.free = Entries \ db'.lost
             /\ db'.refs = drops
  <2>1. IInv' /\ BInv'
    BY <1>1, NextSteps, NextBacks
  <2>2. UnloadAll \/ \E ys, zs \in SUBSET Zones : Unload(ys, zs)
    BY <1>1, TableEmptied
  <2>3. queue' = <<>> /\ ~halted' /\ drops' = drops
    <3>1. UnloadAll => queue' = <<>> /\ ~halted' /\ drops' = drops
      BY DEF UnloadAll, Idle
    <3>2. ASSUME NEW ys \in SUBSET Zones, NEW zs \in SUBSET Zones, Unload(ys, zs)
          PROVE  queue' = <<>> /\ ~halted' /\ drops' = drops
      BY <3>2 DEF Unload, Idle
    <3> QED
      BY <2>2, <3>1, <3>2
  <2>4. Fine(db', {}, <<>>, drops) /\ Backed(db', {}, <<>>)
    <3>1. Wait(queue', 0) = {}
      BY <2>3, EmptyTable
    <3>2. Fine(db', Wait(queue', 0), zones', drops') /\ Backed(db', Wait(queue', 0), zones')
      BY <2>1, <2>3 DEF IInv, Kept, Flowing, BInv
    <3> QED
      BY <1>1, <2>3, <3>1, <3>2
  <2>5. ToSet(<<>>) = {}
    <3>1. DOMAIN <<>> = 1..0 /\ 1..0 = {}
      OBVIOUS
    <3> QED
      BY <3>1 DEF ToSet
  <2>6. \A n \in Names : db'.chain[n] = <<>>
    <3> DEFINE r == db'
               X == {}
               zl == <<>>
    <3>1. Sound(r, X, zl) /\ Backed(r, X, zl) /\ ToSet(zl) = {}
      BY <2>4, <2>5 DEF Fine
    <3> HIDE DEF r, X, zl
    <3>2. \A n \in Names : r.chain[n] = <<>>
      BY <3>1, NoneLinked
    <3> QED
      BY <3>2 DEF r
  <2>7. db'.free = Entries \ db'.lost /\ db'.refs = drops
    BY <2>4, <2>6, PoolFull
  <2> QED
    BY <2>6, <2>7
<1>2. IInv /\ BInv /\ [Next]_vars => [zones # <<>> /\ zones' = <<>> =>
         /\ \A n \in Names : db'.chain[n] = <<>>
         /\ db'.free = Entries \ db'.lost
         /\ db'.refs = drops]_vars
  BY <1>1
<1> QED
  BY <1>2, DataBacked, PTL DEF Spec, UnloadAllEmpties

=============================================================================
